----------------------------- MODULE RateLimit -----------------------------
(***************************************************************************)
(* IngestionService.checkRateLimit: at most Limit data points per sensor   *)
(* and second, counted by a Redis key per sensor.                          *)
(*                                                                         *)
(* INCR and EXPIRE are two commands: the key is created by the first and   *)
(* gets its time to live from the second, sent when the answer of the      *)
(* first was 1.  Either may fail (and then the point is let through), and  *)
(* the process may restart between them.                                   *)
(*                                                                         *)
(* Time is counted in ticks, Window of them to the second that EXPIRE asks *)
(* for.  A counter beyond Limit + 1 is kept at Limit + 1: the code only    *)
(* tells 1, and more than Limit, from the rest.                            *)
(***************************************************************************)
EXTENDS Naturals

CONSTANTS
    Sensors,     \* sensor ids
    Points,      \* bound: calls of ingestSingle in flight at the same time
    NoSensor,
    Limit,       \* MAX_INGEST_PER_SENSOR_PER_SECOND
    Window       \* ticks to a second

ASSUME RateAssumption ==
    /\ NoSensor \notin Sensors
    /\ Limit \in Nat \ {0}
    /\ Window \in Nat \ {0}

VARIABLES
    count,    \* count[s]: value of ratelimit:ingest:s, 0 when there is no key
    ttl,      \* ttl[s]: ticks the key has left, NoExpiry when it has none set
    call,     \* call[p]: the checkRateLimit that point p is in
    granted,  \* history: granted[s][a], points granted by the count in a + 1 ticks
    lost      \* history: did an EXPIRE on s get lost?

vars == <<count, ttl, call, granted, lost>>

NoExpiry == Window + 1

IdleCall == [stage |-> "idle", sensor |-> NoSensor, within |-> TRUE]
Call == {IdleCall} \cup [stage  : {"incr", "expire", "decide"},
                         sensor : Sensors,
                         within : BOOLEAN]   \* what INCR answered, against the limit

TypeOK ==
    /\ count \in [Sensors -> 0 .. Limit + 1]
    /\ ttl \in [Sensors -> 1 .. NoExpiry]
    /\ call \in [Points -> Call]
    /\ granted \in [Sensors -> [0 .. Window - 1 -> Nat]]
    /\ lost \in [Sensors -> BOOLEAN]

Init ==
    /\ count = [s \in Sensors |-> 0]
    /\ ttl = [s \in Sensors |-> NoExpiry]
    /\ call = [p \in Points |-> IdleCall]
    /\ granted = [s \in Sensors |-> [a \in 0 .. Window - 1 |-> 0]]
    /\ lost = [s \in Sensors |-> FALSE]

-----------------------------------------------------------------------------
(* Mutation: one point too many.                                           *)
WithinOneMore(n) == n <= Limit + 1

Within(n) == n <= Limit

(* ingestSingle: the point is valid and asks for its place.                *)
Arrive(p, s) ==
    /\ call[p].stage = "idle"
    /\ call' = [call EXCEPT ![p] = [stage |-> "incr", sensor |-> s, within |-> TRUE]]
    /\ UNCHANGED <<count, ttl, granted, lost>>

Bumped(s) == IF count[s] > Limit THEN Limit + 1 ELSE count[s] + 1

(* Redis executes INCR and its answer decides what comes next.             *)
Incr(p) ==
    LET s == call[p].sensor  n == Bumped(s) IN
    /\ call[p].stage = "incr"
    /\ count' = [count EXCEPT ![s] = n]
    /\ call' = [call EXCEPT ![p].stage = IF n = 1 THEN "expire" ELSE "decide",
                            ![p].within = Within(n)]
    /\ granted' = [granted EXCEPT ![s] = IF Within(n) THEN [a \in 0 .. Window - 1 |-> @[a] + 1] ELSE @]
    /\ UNCHANGED <<ttl, lost>>

(* Mutation: EXPIRE is sent, but not awaited, and nobody sees it fail.     *)
ExpireUnset(p) ==
    /\ call[p].stage = "expire"
    /\ call' = [call EXCEPT ![p].stage = "decide"]
    /\ UNCHANGED <<count, ttl, granted, lost>>

(* Mutation: EXPIRE in milliseconds.                                       *)
ExpireMillis(p) ==
    /\ call[p].stage = "expire"
    /\ ttl' = [ttl EXCEPT ![call[p].sensor] = 1000 * Window]
    /\ call' = [call EXCEPT ![p].stage = "decide"]
    /\ UNCHANGED <<count, granted, lost>>

(* Redis executes EXPIRE: the key has one second from now.                 *)
Expire(p) ==
    /\ call[p].stage = "expire"
    /\ ttl' = [ttl EXCEPT ![call[p].sensor] = Window]
    /\ call' = [call EXCEPT ![p].stage = "decide"]
    /\ UNCHANGED <<count, granted, lost>>

(* checkRateLimit returns: granted or rate_limited.                        *)
Settle(p) == /\ call' = [call EXCEPT ![p] = IdleCall]
             /\ UNCHANGED <<count, ttl, granted, lost>>

Grant(p) == call[p].stage = "decide" /\ call[p].within /\ Settle(p)
Refuse(p) == call[p].stage = "decide" /\ ~call[p].within /\ Settle(p)

(* A command fails and the catch lets the point in.  The INCR may have     *)
(* been executed all the same, with its answer lost.                       *)
FailOpen(p) ==
    LET s == call[p].sensor IN
    /\ call[p].stage \in {"incr", "expire"}
    /\ call' = [call EXCEPT ![p] = IdleCall]
    /\ \/ UNCHANGED count
       \/ call[p].stage = "incr" /\ count' = [count EXCEPT ![s] = Bumped(s)]
    /\ lost' = [lost EXCEPT ![s] = @ \/ call[p].stage = "expire"
                                     \/ (count[s] = 0 /\ count'[s] # 0)]
    /\ UNCHANGED <<ttl, granted>>

-----------------------------------------------------------------------------
(* A tick of time: keys whose time is up are gone.                         *)
Expiring(s) == ttl[s] = 1

Tick ==
    /\ UNCHANGED <<call, lost>>
    /\ count' = [s \in Sensors |-> IF Expiring(s) THEN 0 ELSE count[s]]
    /\ ttl' = [s \in Sensors |-> IF Expiring(s) \/ ttl[s] = NoExpiry THEN NoExpiry
                                                                     ELSE ttl[s] - 1]
    /\ granted' = [s \in Sensors |-> [a \in 0 .. Window - 1 |->
                                         IF a = 0 THEN 0 ELSE granted[s][a - 1]]]

(* The process restarts: Redis keeps its keys, the calls are gone.         *)
Restart ==
    /\ call' = [p \in Points |-> IdleCall]
    /\ lost' = [s \in Sensors |-> lost[s] \/ \E p \in Points : /\ call[p].sensor = s
                                                               /\ call[p].stage = "expire"]
    /\ UNCHANGED <<count, ttl, granted>>

(* What a call in flight does by itself.                                   *)
Answer(p) == Incr(p) \/ Expire(p) \/ Grant(p) \/ Refuse(p) \/ FailOpen(p)

Next ==
    \/ \E p \in Points, s \in Sensors : Arrive(p, s)
    \/ \E p \in Points : Answer(p)
    \/ Tick
    \/ Restart

(* Redis answers or the connection fails, and time passes.                 *)
Fairness == WF_vars(Tick) /\ \A p \in Points : WF_vars(Answer(p))

Spec == Init /\ [][Next]_vars /\ Fairness

-----------------------------------------------------------------------------
(* The window is fixed, not sliding: the end of one key's life and the     *)
(* start of the next fall into the same second.  But a key lives for a     *)
(* second after its first point, so no second sees twice the limit,        *)
(* whatever the order in which the commands of concurrent points reach     *)
(* Redis, fail or are cut short.                                           *)
BelowTwice == \A s \in Sensors : granted[s][Window - 1] < 2 * Limit

(* A sensor that is over its limit gets a fresh window, unless an EXPIRE   *)
(* was lost: then the key never expires.                                   *)
Recovers == \A s \in Sensors : count[s] > Limit ~> count[s] = 0 \/ lost[s]

(* "Max 20 ingestions per sensor per second (Redis-backed sliding          *)
(* window)": no second sees more than the limit.                           *)
SlidingWindow == \A s \in Sensors : granted[s][Window - 1] <= Limit
=============================================================================
