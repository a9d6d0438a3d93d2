-------------------------- MODULE RateLimitProofs --------------------------
(***************************************************************************)
(* Proofs about RateLimit, for any sensors, any number of calls in flight, *)
(* any limit and any window.                                               *)
(*                                                                         *)
(* That no second sees twice the limit is not inductive: nothing in it     *)
(* says how the points of a second are spread over the keys that were      *)
(* alive in it.  KeyOK says it: a key that has no time to live still waits *)
(* for the EXPIRE of the one call that created it, and the points granted  *)
(* since its EXPIRE are fewer than the key has counted, because its first  *)
(* point came before.  When the key goes its first point has left the      *)
(* second behind.                                                          *)
(***************************************************************************)
EXTENDS RateLimit, TLAPS

\* The call of p created the key of s and has yet to send its EXPIRE.
Waiting(p, s) == call[p].stage = "expire" /\ call[p].sensor = s

\* What the key of s has counted, as far as the limit can tell.
Used(s) == IF count[s] < Limit THEN count[s] ELSE Limit

\* A key that is not there has no time to live, and one that waits for its
\* EXPIRE is there, has none yet and waits for one call.
KeyOK(s) ==
    /\ count[s] = 0 => ttl[s] = NoExpiry
    /\ \A p \in Points : Waiting(p, s) =>
         /\ count[s] > 0 /\ ttl[s] = NoExpiry
         /\ \A q \in Points : Waiting(q, s) => q = p

\* The points of a longer stretch are no fewer.
Growing(s) == \A a \in 1 .. Window - 1 : granted[s][a - 1] <= granted[s][a]

\* The points of the last second, and those granted since the EXPIRE.
Bounded(s) ==
    /\ granted[s][Window - 1] < Limit + Used(s)
    /\ ttl[s] < Window => granted[s][Window - 1 - ttl[s]] < Used(s)

RateInv == TypeOK /\ \A s \in Sensors : KeyOK(s) /\ Growing(s) /\ Bounded(s)
-----------------------------------------------------------------------------
\* What is known of a call, and of the functions of a typed state.
LEMMA CallRows ==
    /\ IdleCall \in Call
    /\ \A c \in Call : c.stage # "idle" =>
         /\ c.sensor \in Sensors /\ c.within \in BOOLEAN
         /\ c = [stage |-> c.stage, sensor |-> c.sensor, within |-> c.within]
    /\ \A st \in {"incr", "expire", "decide"}, s \in Sensors, w \in BOOLEAN :
         [stage |-> st, sensor |-> s, within |-> w] \in Call
  BY DEF Call, IdleCall

LEMMA Counted == ASSUME TypeOK, NEW s \in Sensors
                 PROVE  /\ count[s] \in 0 .. Limit + 1 /\ ttl[s] \in 1 .. Window + 1
                        /\ Used(s) \in 0 .. Limit
                        /\ \A a \in 0 .. Window - 1 : granted[s][a] \in Nat
                        /\ 0 \in 0 .. Window - 1 /\ Window - 1 \in 0 .. Window - 1
                        /\ Limit \in Nat \ {0} /\ Window \in Nat \ {0}
  BY RateAssumption DEF TypeOK, Used, NoExpiry

LEMMA RateStart == Init => RateInv
  <1> SUFFICES ASSUME Init PROVE RateInv OBVIOUS
  <1>1. TypeOK
    BY RateAssumption DEF Init, TypeOK, Call, NoExpiry
  <1>2. \A s \in Sensors : KeyOK(s)
    BY DEF Init, KeyOK, Waiting, IdleCall
  <1>3. \A s \in Sensors : Growing(s)
    BY RateAssumption DEF Init, Growing
  <1>4. \A s \in Sensors : Bounded(s)
    <2> SUFFICES ASSUME NEW s \in Sensors PROVE Bounded(s) OBVIOUS
    <2>1. Window - 1 \in 0 .. Window - 1
      BY RateAssumption
    <2>2. granted[s][Window - 1] = 0 /\ count[s] = 0 /\ ttl[s] = Window + 1
      BY <2>1 DEF Init, NoExpiry
    <2> QED BY <2>2, RateAssumption DEF Bounded, Used
  <1> QED BY <1>1, <1>2, <1>3, <1>4 DEF RateInv

-----------------------------------------------------------------------------
(* Where a step leaves the keys and the history alone only the calls that  *)
(* wait for an EXPIRE matter.                                              *)
LEMMA KeysKept ==
    ASSUME RateInv, TypeOK', UNCHANGED <<count, ttl, granted>>,
           \A s \in Sensors, p \in Points : Waiting(p, s)' => Waiting(p, s)
    PROVE  RateInv'
  <1> SUFFICES ASSUME NEW s \in Sensors PROVE (KeyOK(s) /\ Growing(s) /\ Bounded(s))'
    BY DEF RateInv
  <1>1. KeyOK(s) /\ Growing(s) /\ Bounded(s)
    BY DEF RateInv
  <1>2. KeyOK(s)'
    BY <1>1 DEF KeyOK
  <1>3. Growing(s)' /\ Bounded(s)'
    BY <1>1 DEF Growing, Bounded, Used
  <1> QED BY <1>2, <1>3

LEMMA ArriveKeeps ==
    ASSUME RateInv, NEW p \in Points, NEW s \in Sensors, Arrive(p, s)
    PROVE  RateInv'
  <1> DEFINE new == [stage |-> "incr", sensor |-> s, within |-> TRUE]
  <1>1. new \in Call
    BY CallRows
  <1>2. TypeOK'
    BY <1>1 DEF RateInv, TypeOK, Arrive
  <1>3. \A t \in Sensors, q \in Points : Waiting(q, t)' => Waiting(q, t)
    BY DEF RateInv, TypeOK, Arrive, Waiting
  <1> QED BY <1>2, <1>3, KeysKept DEF Arrive

LEMMA SettleKeeps ==
    ASSUME RateInv, NEW p \in Points, Grant(p) \/ Refuse(p)
    PROVE  RateInv'
  <1>1. call' = [call EXCEPT ![p] = IdleCall] /\ UNCHANGED <<count, ttl, granted, lost>>
    BY DEF Grant, Refuse, Settle
  <1>2. TypeOK'
    BY <1>1, CallRows DEF RateInv, TypeOK
  <1>3. \A t \in Sensors, q \in Points : Waiting(q, t)' => Waiting(q, t)
    BY <1>1 DEF RateInv, TypeOK, Waiting, IdleCall
  <1> QED BY <1>1, <1>2, <1>3, KeysKept

LEMMA RestartKeeps ==
    ASSUME RateInv, Restart
    PROVE  RateInv'
  <1>1. lost' \in [Sensors -> BOOLEAN]
    BY DEF RateInv, TypeOK, Restart
  <1>2. TypeOK'
    BY <1>1, CallRows DEF RateInv, TypeOK, Restart
  <1>3. \A t \in Sensors, q \in Points : Waiting(q, t)' => Waiting(q, t)
    BY DEF Restart, Waiting, IdleCall
  <1> QED BY <1>2, <1>3, KeysKept DEF Restart

-----------------------------------------------------------------------------
(* An INCR.  The point that finds no key is the one that will send the     *)
(* EXPIRE, and no other call waits for that key.                           *)
LEMMA IncrKeeps ==
    ASSUME RateInv, NEW p \in Points, Incr(p)
    PROVE  RateInv'
  <1> DEFINE s == call[p].sensor  n == Bumped(s)  st == IF n = 1 THEN "expire" ELSE "decide"
  <1>1. TypeOK /\ call[p] \in Call /\ s \in Sensors
    BY CallRows DEF RateInv, TypeOK, Incr
  <1>2. n \in 1 .. Limit + 1 /\ (n = 1 <=> count[s] = 0)
    BY <1>1, Counted DEF Bumped
  <1>w. Within(n) \in BOOLEAN
    BY DEF Within
  <1>3. PICK c : c = [stage |-> st, sensor |-> s, within |-> Within(n)]
    OBVIOUS
  <1>4. c \in Call
    <2>1. st \in {"incr", "expire", "decide"}
      OBVIOUS
    <2> HIDE DEF st
    <2> QED BY <2>1, <1>1, <1>3, <1>w, CallRows
  <1>5. call' = [call EXCEPT ![p] = c]
    <2>1. call[p] \in [stage : {"incr", "expire", "decide"}, sensor : Sensors, within : BOOLEAN]
      BY <1>1 DEF Call, IdleCall, Incr
    <2> HIDE DEF n, st
    <2>2. PICK d : d = [stage |-> st, sensor |-> s, within |-> call[p].within]
      OBVIOUS
    <2>3. [call[p] EXCEPT !.stage = st] = d
      BY <2>1, <2>2
    <2>4. [d EXCEPT !.within = Within(n)] = c
      BY <2>2, <1>3
    <2>5. [call[p] EXCEPT !.stage = st, !.within = Within(n)] = [d EXCEPT !.within = Within(n)]
      BY <2>3
    <2>6. [call EXCEPT ![p].stage = st, ![p].within = Within(n)]
            = [call EXCEPT ![p] = [call[p] EXCEPT !.stage = st, !.within = Within(n)]]
      OBVIOUS
    <2>7. [call EXCEPT ![p].stage = st, ![p].within = Within(n)] = [call EXCEPT ![p] = c]
      BY <2>4, <2>5, <2>6
    <2> QED BY <2>7 DEF Incr, n, st
  <1>6. PICK g : g = IF Within(n) THEN [a \in 0 .. Window - 1 |-> granted[s][a] + 1] ELSE granted[s]
    OBVIOUS
  <1>7. g \in [0 .. Window - 1 -> Nat]
    <2>1. granted[s] \in [0 .. Window - 1 -> Nat]
      BY <1>1 DEF TypeOK
    <2>2. ASSUME NEW a \in 0 .. Window - 1 PROVE granted[s][a] + 1 \in Nat
      <3>1. granted[s][a] \in Nat
        BY <2>1
      <3> QED BY <3>1
    <2> QED BY <2>1, <2>2, <1>6
  <1>8. granted' = [granted EXCEPT ![s] = g]
    BY <1>1, <1>6 DEF Incr, TypeOK
  <1>9. count' = [count EXCEPT ![s] = n] /\ UNCHANGED <<ttl, lost>>
    BY DEF Incr
  <1>10. TypeOK'
    BY <1>1, <1>2, <1>4, <1>5, <1>7, <1>8, <1>9 DEF TypeOK
  <1> HIDE DEF s, n, st
  <1> SUFFICES ASSUME NEW t \in Sensors PROVE (KeyOK(t) /\ Growing(t) /\ Bounded(t))'
    BY <1>10 DEF RateInv
  <1>11. KeyOK(t) /\ Growing(t) /\ Bounded(t)
    BY DEF RateInv
  <1>12. \A q \in Points : Waiting(q, t)' <=> IF q = p THEN n = 1 /\ t = s ELSE Waiting(q, t)
    BY <1>1, <1>3, <1>5 DEF Waiting, TypeOK, st
  <1>13. CASE t # s
    <2>1. count'[t] = count[t] /\ granted'[t] = granted[t] /\ ttl'[t] = ttl[t]
      BY <1>1, <1>8, <1>9, <1>13 DEF TypeOK
    <2>2. KeyOK(t)'
      BY <2>1, <1>11, <1>12, <1>13 DEF KeyOK
    <2> QED BY <2>1, <2>2, <1>11 DEF Growing, Bounded, Used
  <1>14. CASE t = s
    <2>1. count'[t] = n /\ granted'[t] = g /\ ttl'[t] = ttl[t]
      BY <1>1, <1>8, <1>9, <1>14 DEF TypeOK
    <2>2. n = 1 => ttl[t] = NoExpiry /\ \A q \in Points : ~Waiting(q, t)
      BY <1>2, <1>11, <1>14 DEF KeyOK
    <2>3. KeyOK(t)'
      BY <2>1, <2>2, <1>2, <1>11, <1>12, <1>14 DEF KeyOK
    <2>4. \A a \in 0 .. Window - 1 : g[a] = IF Within(n) THEN granted[t][a] + 1 ELSE granted[t][a]
      BY <1>6, <1>14
    <2>5. Growing(t)'
      BY <2>1, <2>4, <1>1, <1>11, Counted DEF Growing
    <2>6. Used(t)' = (IF Within(n) THEN Used(t) + 1 ELSE Used(t))
      BY <2>1, <1>1, <1>14, Counted DEF Used, Within, Bumped, n
    <2>7. Bounded(t)'
      BY <2>1, <2>4, <2>6, <1>1, <1>11, Counted DEF Bounded
    <2> QED BY <2>3, <2>5, <2>7
  <1> QED BY <1>13, <1>14

-----------------------------------------------------------------------------
(* An EXPIRE.  The key it sets has none yet and is alive, and nothing has  *)
(* been granted since.                                                     *)
LEMMA ExpireKeeps ==
    ASSUME RateInv, NEW p \in Points, Expire(p)
    PROVE  RateInv'
  <1> DEFINE s == call[p].sensor
  <1>1. TypeOK /\ call[p] \in Call /\ s \in Sensors
    BY CallRows DEF RateInv, TypeOK, Expire
  <1>w. PICK w \in BOOLEAN : w = call[p].within
    BY <1>1, CallRows DEF Expire
  <1>2. PICK c : c = [stage |-> "decide", sensor |-> s, within |-> w]
    OBVIOUS
  <1>3. c \in Call
    BY <1>1, <1>2, <1>w, CallRows
  <1>4. call' = [call EXCEPT ![p] = c] /\ Waiting(p, s)
    <2>1. call[p] \in [stage : {"incr", "expire", "decide"}, sensor : Sensors, within : BOOLEAN]
      BY <1>1 DEF Call, IdleCall, Expire
    <2>2. [call[p] EXCEPT !.stage = "decide"] = c
      BY <1>2, <1>w, <2>1
    <2>3. [call EXCEPT ![p].stage = "decide"] = [call EXCEPT ![p] = c]
      BY <2>2
    <2> QED BY <2>3 DEF Expire, Waiting
  <1>5. ttl' = [ttl EXCEPT ![s] = Window] /\ UNCHANGED <<count, granted, lost>>
    BY DEF Expire
  <1>6. TypeOK'
    BY <1>1, <1>3, <1>4, <1>5, RateAssumption DEF TypeOK, NoExpiry
  <1> HIDE DEF s
  <1> SUFFICES ASSUME NEW t \in Sensors PROVE (KeyOK(t) /\ Growing(t) /\ Bounded(t))'
    BY <1>6 DEF RateInv
  <1>7. KeyOK(t) /\ Growing(t) /\ Bounded(t) /\ KeyOK(s)
    BY <1>1 DEF RateInv
  <1>8. \A q \in Points : Waiting(q, t)' => q # p /\ Waiting(q, t)
    BY <1>1, <1>2, <1>4 DEF Waiting, TypeOK
  <1>9. ttl'[t] = IF t = s THEN Window ELSE ttl[t]
    BY <1>1, <1>5 DEF TypeOK
  <1>10. KeyOK(t)'
    BY <1>4, <1>5, <1>7, <1>8, <1>9 DEF KeyOK
  <1>11. Growing(t)'
    BY <1>5, <1>7 DEF Growing
  <1>12. Bounded(t)'
    BY <1>1, <1>5, <1>7, <1>9, Counted DEF Bounded, Used
  <1> QED BY <1>10, <1>11, <1>12

-----------------------------------------------------------------------------
(* A command fails.  An INCR may count all the same, but grants nothing.   *)
LEMMA FailKeeps ==
    ASSUME RateInv, NEW p \in Points, FailOpen(p)
    PROVE  RateInv'
  <1> DEFINE s == call[p].sensor
  <1>1. TypeOK /\ call[p] \in Call /\ s \in Sensors
    BY CallRows DEF RateInv, TypeOK, FailOpen
  <1>2. call' = [call EXCEPT ![p] = IdleCall] /\ UNCHANGED <<ttl, granted>>
    BY DEF FailOpen
  <1>3. lost' \in [Sensors -> BOOLEAN]
    BY <1>1 DEF FailOpen, TypeOK
  <1>4. \A t \in Sensors, q \in Points : Waiting(q, t)' => Waiting(q, t)
    BY <1>1, <1>2 DEF Waiting, TypeOK, IdleCall
  <1>5. CASE UNCHANGED count
    <2>1. TypeOK'
      BY <1>1, <1>2, <1>3, <1>5, CallRows DEF TypeOK
    <2> QED BY <2>1, <1>2, <1>4, <1>5, KeysKept
  <1>6. CASE count' = [count EXCEPT ![s] = Bumped(s)]
    <2>1. Bumped(s) \in 1 .. Limit + 1 /\ Bumped(s) >= count[s]
      BY <1>1, Counted DEF Bumped
    <2>2. TypeOK'
      BY <2>1, <1>1, <1>2, <1>3, <1>6, CallRows DEF TypeOK
    <2> SUFFICES ASSUME NEW t \in Sensors PROVE (KeyOK(t) /\ Growing(t) /\ Bounded(t))'
      BY <2>2 DEF RateInv
    <2>3. KeyOK(t) /\ Growing(t) /\ Bounded(t)
      BY DEF RateInv
    <2>4. count'[t] \in Nat /\ count'[t] >= count[t]
      BY <2>1, <1>1, <1>6, Counted DEF TypeOK
    <2>5. count[t] \in Nat /\ Used(t)' >= Used(t) /\ Used(t)' \in Nat
      BY <2>4, <1>1, Counted DEF Used
    <2>6. KeyOK(t)'
      BY <2>3, <2>4, <2>5, <1>2, <1>4 DEF KeyOK
    <2>7. Growing(t)'
      BY <2>3, <1>2 DEF Growing
    <2>8. Bounded(t)'
      BY <2>3, <2>5, <1>1, <1>2, Counted DEF Bounded
    <2> QED BY <2>6, <2>7, <2>8
  <1> QED BY <1>5, <1>6 DEF FailOpen

-----------------------------------------------------------------------------
(* A tick.  A key that goes has no first point left in the last second.    *)
LEMMA TickKeeps ==
    ASSUME RateInv, Tick
    PROVE  RateInv'
  <1>1. TypeOK
    BY DEF RateInv
  <1>2. \A s \in Sensors : (IF Expiring(s) THEN 0 ELSE count[s]) \in 0 .. Limit + 1
    <2> TAKE s \in Sensors
    <2> QED BY <1>1, Counted
  <1>3. \A s \in Sensors :
          (IF Expiring(s) \/ ttl[s] = NoExpiry THEN NoExpiry ELSE ttl[s] - 1) \in 1 .. NoExpiry
    <2> TAKE s \in Sensors
    <2>1. ttl[s] \in 1 .. Window + 1 /\ Window \in Nat \ {0}
      BY <1>1, Counted
    <2> QED BY <2>1 DEF Expiring, NoExpiry
  <1>4. \A s \in Sensors, a \in 0 .. Window - 1 :
          (IF a = 0 THEN 0 ELSE granted[s][a - 1]) \in Nat
    BY <1>1, Counted
  <1>5. TypeOK'
    BY <1>1, <1>2, <1>3, <1>4 DEF TypeOK, Tick
  <1> SUFFICES ASSUME NEW s \in Sensors PROVE (KeyOK(s) /\ Growing(s) /\ Bounded(s))'
    BY <1>5 DEF RateInv
  <1>6. KeyOK(s) /\ Growing(s) /\ Bounded(s)
    BY DEF RateInv
  <1>7. count'[s] = IF Expiring(s) THEN 0 ELSE count[s]
    BY DEF Tick
  <1>8. ttl'[s] = IF Expiring(s) \/ ttl[s] = NoExpiry THEN NoExpiry ELSE ttl[s] - 1
    BY DEF Tick
  <1>9. \A a \in 0 .. Window - 1 : granted'[s][a] = IF a = 0 THEN 0 ELSE granted[s][a - 1]
    BY DEF Tick
  <1>10. \A p \in Points : Waiting(p, s)' <=> Waiting(p, s)
    BY DEF Waiting, Tick
  <1>11. KeyOK(s)'
    BY <1>1, <1>6, <1>7, <1>8, <1>10, Counted DEF KeyOK, Expiring, NoExpiry
  <1>12. Growing(s)'
    <2> SUFFICES ASSUME NEW a \in 1 .. Window - 1 PROVE granted'[s][a - 1] <= granted'[s][a]
      BY DEF Growing
    <2>1. a \in 0 .. Window - 1 /\ a - 1 \in 0 .. Window - 1
      BY <1>1, Counted
    <2>2. a - 1 # 0 => a - 1 \in 1 .. Window - 1
      BY <2>1
    <2> QED BY <2>1, <2>2, <1>1, <1>6, <1>9, Counted DEF Growing
  <1>13. granted'[s][Window - 1] <= granted[s][Window - 1]
    BY <1>1, <1>6, <1>9, Counted DEF Growing
  <1>14. granted'[s][Window - 1] \in Nat /\ granted[s][Window - 1] \in Nat
    BY <1>1, <1>5, Counted DEF TypeOK
  <1>15. CASE Expiring(s)
    <2>1. granted'[s][Window - 1] < Limit
      <3>1. ttl[s] = 1 /\ count[s] > 0
        BY <1>1, <1>6, <1>15, RateAssumption, Counted DEF Expiring, KeyOK, NoExpiry
      <3>2. CASE Window = 1
        BY <3>2, <1>1, <1>9, Counted
      <3>3. CASE Window # 1
        BY <3>1, <3>3, <1>1, <1>6, <1>9, Counted DEF Bounded
      <3> QED BY <3>2, <3>3
    <2>2. Used(s)' = 0 /\ ttl'[s] = Window + 1
      BY <1>1, <1>7, <1>8, <1>15, Counted DEF Used, NoExpiry
    <2> QED BY <2>1, <2>2, <1>1, <1>11, <1>12, <1>14, Counted DEF Bounded
  <1>16. CASE ~Expiring(s)
    <2>1. Used(s)' = Used(s) /\ count[s] \in Nat
      BY <1>1, <1>7, <1>16, Counted DEF Used
    <2>2. ttl'[s] < Window => granted'[s][Window - 1 - ttl'[s]] < Used(s)
      <3> SUFFICES ASSUME ttl'[s] < Window PROVE granted'[s][Window - 1 - ttl'[s]] < Used(s)
        OBVIOUS
      <3>1. ttl[s] \in 2 .. Window /\ ttl'[s] = ttl[s] - 1
        BY <1>1, <1>8, <1>16, Counted DEF Expiring, NoExpiry
      <3>2. Window - 1 - ttl'[s] = Window - ttl[s] /\ Window - ttl[s] \in 0 .. Window - 1
        BY <3>1, <1>1, Counted
      <3>3. CASE ttl[s] = Window
        <4>1. count[s] > 0 /\ Used(s) > 0
          BY <3>3, <1>1, <1>6, Counted DEF KeyOK, NoExpiry, Used
        <4> QED BY <4>1, <3>2, <3>3, <1>1, <1>9, Counted
      <3>4. CASE ttl[s] < Window
        <4>1. granted'[s][Window - ttl[s]] = granted[s][Window - 1 - ttl[s]]
          BY <3>1, <3>2, <3>4, <1>1, <1>9, Counted
        <4> QED BY <4>1, <3>2, <3>4, <1>6 DEF Bounded
      <3> QED BY <3>1, <3>3, <3>4, <1>1, Counted
    <2>3. granted'[s][Window - 1] < Limit + Used(s)
      BY <1>1, <1>6, <1>13, <1>14, Counted DEF Bounded
    <2> QED BY <2>1, <2>2, <2>3, <1>11, <1>12 DEF Bounded
  <1> QED BY <1>15, <1>16

-----------------------------------------------------------------------------
LEMMA RateKept == RateInv /\ [Next]_vars => RateInv'
  <1> SUFFICES ASSUME RateInv, [Next]_vars PROVE RateInv' OBVIOUS
  <1>1. CASE \E p \in Points, s \in Sensors : Arrive(p, s)
    BY <1>1, ArriveKeeps
  <1>2. CASE \E p \in Points : Incr(p)
    BY <1>2, IncrKeeps
  <1>3. CASE \E p \in Points : Expire(p)
    BY <1>3, ExpireKeeps
  <1>4. CASE \E p \in Points : Grant(p) \/ Refuse(p)
    BY <1>4, SettleKeeps
  <1>5. CASE \E p \in Points : FailOpen(p)
    BY <1>5, FailKeeps
  <1>6. CASE Tick
    BY <1>6, TickKeeps
  <1>7. CASE Restart
    BY <1>7, RestartKeeps
  <1>8. CASE UNCHANGED vars
    <2>1. TypeOK' /\ UNCHANGED <<count, ttl, granted>>
      BY <1>8 DEF RateInv, TypeOK, vars
    <2>2. \A s \in Sensors, p \in Points : Waiting(p, s)' => Waiting(p, s)
      BY <1>8 DEF Waiting, vars
    <2> QED BY <2>1, <2>2, KeysKept
  <1> QED BY <1>1, <1>2, <1>3, <1>4, <1>5, <1>6, <1>7, <1>8 DEF Next, Answer

\* What the properties follow from: keys without a time to live wait for the
\* EXPIRE of the call that created them, and a key has counted more than it
\* has let through since its EXPIRE (checkRateLimit).
THEOREM RateInvariant == Spec => []RateInv
  <1>1. Init => RateInv
    BY RateStart
  <1>2. RateInv /\ [Next]_vars => RateInv'
    BY RateKept
  <1> QED BY <1>1, <1>2, PTL DEF Spec

\* The counters never leave their range: an EXPIRE sets at most a second, and
\* a point that fails or is forgotten leaves nothing behind in its slot
\* (checkRateLimit).
THEOREM RateTypes == Spec => []TypeOK
  <1>1. RateInv => TypeOK
    BY DEF RateInv
  <1> QED BY <1>1, RateInvariant, PTL

\* No second sees twice the limit, however many points arrive, in whatever
\* order Redis executes their INCRs and EXPIREs, and whatever fails or
\* restarts in between (checkRateLimit, ingestion.service.ts).
THEOREM BelowTwiceCorrect == Spec => []BelowTwice
  <1>1. RateInv => BelowTwice
    <2> SUFFICES ASSUME RateInv, NEW s \in Sensors PROVE granted[s][Window - 1] < 2 * Limit
      BY DEF BelowTwice
    <2>1. TypeOK /\ Bounded(s)
      BY DEF RateInv
    <2> QED BY <2>1, Counted DEF Bounded
  <1> QED BY <1>1, RateInvariant, PTL
=============================================================================
