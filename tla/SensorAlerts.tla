---------------------------- MODULE SensorAlerts ---------------------------
(***************************************************************************)
(* What SensorsService does with a value it has stored: the threshold      *)
(* check, the anomaly check (real values only), the alert, its             *)
(* publication, and the cooldowns kept in the Map lastAlertTime under the  *)
(* keys s and anomaly:s.                                                   *)
(*                                                                         *)
(* A cooldown is read before the alert is created and written after it has *)
(* been published, with two awaits in between.                             *)
(*                                                                         *)
(* Left out: whether a value breaches a threshold, how severely, and       *)
(* whether it is an anomaly (a choice here); the alert's text.  Time is    *)
(* counted in ticks; an entry of lastAlertTime is kept as its age, which   *)
(* stops at the cooldown, where it reads like an entry that is not there.  *)
(***************************************************************************)
EXTENDS Naturals, FiniteSets

CONSTANTS
    Sensors,          \* sensor ids
    Points,           \* bound: values in flight at the same time
    NoSensor,
    Cooldown,         \* alertCooldownMs ?? 30 s, in ticks
    AnomalyCooldown   \* 60 s, in ticks

ASSUME AlertsAssumption ==
    /\ NoSensor \notin Sensors
    /\ IsFiniteSet(Points)
    /\ Cooldown \in Nat \ {0}
    /\ AnomalyCooldown \in Nat \ {0}

VARIABLES
    sinceAlert,     \* sinceAlert[s]: age of lastAlertTime[s]
    sinceAnomaly,   \* sinceAnomaly[s]: age of lastAlertTime[anomaly:s]
    check,          \* check[p]: where the checks of value p are
    alerts,         \* history: alerts[s][a], threshold alerts stored in a + 1 ticks
                    \* before s slipped
    slipped         \* history: was an alert of s stored and never entered?

vars == <<sinceAlert, sinceAnomaly, check, alerts, slipped>>

Sources == {"real", "override"}
Kinds == {"threshold", "anomaly"}

IdleCheck == [stage |-> "idle", sensor |-> NoSensor, source |-> "real", kind |-> "threshold"]
Checking == {IdleCheck} \cup [stage  : {"check", "analyze", "create", "publish"},
                              sensor : Sensors,
                              source : Sources,
                              kind   : Kinds]   \* of the alert being raised

TypeOK ==
    /\ sinceAlert \in [Sensors -> 0 .. Cooldown]
    /\ sinceAnomaly \in [Sensors -> 0 .. AnomalyCooldown]
    /\ check \in [Points -> Checking]
    /\ alerts \in [Sensors -> [0 .. Cooldown - 1 -> Nat]]
    /\ slipped \in [Sensors -> BOOLEAN]

Init ==
    /\ sinceAlert = [s \in Sensors |-> Cooldown]
    /\ sinceAnomaly = [s \in Sensors |-> AnomalyCooldown]
    /\ check = [p \in Points |-> IdleCheck]
    /\ alerts = [s \in Sensors |-> [a \in 0 .. Cooldown - 1 |-> 0]]
    /\ slipped = [s \in Sensors |-> FALSE]

cooldowns == <<sinceAlert, sinceAnomaly>>
told == <<alerts, slipped>>

-----------------------------------------------------------------------------
(* The value has been stored and published; its checks begin.              *)
Receive(p, s, source) ==
    /\ check[p].stage = "idle"
    /\ check' = [check EXCEPT ![p] = [stage |-> "check", sensor |-> s, source |-> source,
                                      kind |-> "threshold"]]
    /\ UNCHANGED <<cooldowns, told>>

(* Where a value goes when its threshold check is over.                    *)
AfterCheck(c) == IF c.source = "real" THEN [c EXCEPT !.stage = "analyze"] ELSE IdleCheck

(* Mutation: every breach restarts the cooldown, alert or not.             *)
CheckDebounced(p, breach) ==
    LET s == check[p].sensor IN
    /\ check[p].stage = "check"
    /\ check' = [check EXCEPT ![p] = IF breach /\ sinceAlert[s] = Cooldown
                                       THEN [@ EXCEPT !.stage = "create"]
                                       ELSE AfterCheck(@)]
    /\ sinceAlert' = [sinceAlert EXCEPT ![s] = IF breach THEN 0 ELSE @]
    /\ UNCHANGED <<sinceAnomaly, told>>

(* checkAlertThresholds, up to its first await: breach says that the value *)
(* is beyond a threshold and its hysteresis.                               *)
CheckThresholds(p, breach) ==
    LET s == check[p].sensor IN
    /\ check[p].stage = "check"
    /\ check' = [check EXCEPT ![p] = IF breach /\ sinceAlert[s] = Cooldown
                                       THEN [@ EXCEPT !.stage = "create"]
                                       ELSE AfterCheck(@)]
    /\ UNCHANGED <<cooldowns, told>>

(* analyzeValue, then createAnomalyAlert up to its first await.            *)
Analyze(p) ==
    LET s == check[p].sensor IN
    /\ check[p].stage = "analyze"
    /\ \E isAnomaly \in BOOLEAN :
         check' = [check EXCEPT ![p] = IF isAnomaly /\ sinceAnomaly[s] = AnomalyCooldown
                                         THEN [@ EXCEPT !.stage = "create", !.kind = "anomaly"]
                                         ELSE IdleCheck]
    /\ UNCHANGED <<cooldowns, told>>

(* alert.create is executed.                                               *)
CreateAlert(p) ==
    LET s == check[p].sensor IN
    /\ check[p].stage = "create"
    /\ check' = [check EXCEPT ![p].stage = "publish"]
    /\ alerts' = [alerts EXCEPT ![s] = IF check[p].kind = "threshold" /\ ~slipped[s]
                                          THEN [a \in DOMAIN @ |-> @[a] + 1] ELSE @]
    /\ UNCHANGED <<cooldowns, slipped>>

(* Mutation: an anomaly alert does, a threshold alert does not enter.      *)
EnterAnomalyOnly(p) ==
    LET s == check[p].sensor IN
    /\ check[p].stage = "publish"
    /\ sinceAnomaly' = [sinceAnomaly EXCEPT ![s] = IF check[p].kind = "anomaly" THEN 0 ELSE @]
    /\ check' = [check EXCEPT ![p] = IF check[p].kind = "threshold" THEN AfterCheck(@)
                                                                    ELSE IdleCheck]
    /\ UNCHANGED <<sinceAlert, told>>

(* publishAlert is answered: lastAlertTime is set, for an anomaly alert    *)
(* under both keys.                                                        *)
EnterAlert(p) ==
    LET s == check[p].sensor IN
    /\ check[p].stage = "publish"
    /\ sinceAlert' = [sinceAlert EXCEPT ![s] = 0]
    /\ sinceAnomaly' = [sinceAnomaly EXCEPT ![s] = IF check[p].kind = "anomaly" THEN 0 ELSE @]
    /\ check' = [check EXCEPT ![p] = IF check[p].kind = "threshold" THEN AfterCheck(@)
                                                                    ELSE IdleCheck]
    /\ UNCHANGED told

(* The alert cannot be stored or published: the error ends all checks of   *)
(* the value, and the cooldown of an alert that was stored does not begin. *)
FailAlert(p) ==
    /\ check[p].stage \in {"create", "publish"}
    /\ check' = [check EXCEPT ![p] = IdleCheck]
    /\ slipped' = [slipped EXCEPT ![check[p].sensor] = @ \/ check[p].stage = "publish"]
    /\ UNCHANGED <<cooldowns, alerts>>

-----------------------------------------------------------------------------
Older(f) == [a \in DOMAIN f |-> IF a = 0 THEN 0 ELSE f[a - 1]]
(* Mutation: <= instead of <.                                              *)
LaterInclusive(age, end) == IF age <= end THEN age + 1 ELSE end

(* An entry's age, as far as Date.now() - lastAlert < cooldownMs can tell.  *)
Later(age, end) == IF age < end THEN age + 1 ELSE end

Tick ==
    /\ UNCHANGED <<check, slipped>>
    /\ sinceAlert' = [s \in Sensors |-> Later(sinceAlert[s], Cooldown)]
    /\ sinceAnomaly' = [s \in Sensors |-> Later(sinceAnomaly[s], AnomalyCooldown)]
    /\ alerts' = [s \in Sensors |-> Older(alerts[s])]

(* The process restarts and has forgotten its cooldowns.                   *)
Restart ==
    /\ sinceAlert' = [s \in Sensors |-> Cooldown]
    /\ sinceAnomaly' = [s \in Sensors |-> AnomalyCooldown]
    /\ check' = [p \in Points |-> IdleCheck]
    /\ slipped' = [s \in Sensors |-> TRUE]
    /\ UNCHANGED alerts

Pursue(p) == \/ \E breach \in BOOLEAN : CheckThresholds(p, breach)
             \/ Analyze(p) \/ CreateAlert(p) \/ EnterAlert(p) \/ FailAlert(p)

Next ==
    \/ \E p \in Points, s \in Sensors, source \in Sources : Receive(p, s, source)
    \/ \E p \in Points : Pursue(p)
    \/ Tick
    \/ Restart

(* Database and event bus answer or fail, and time passes.                 *)
Fairness == WF_vars(Tick) /\ \A p \in Points : WF_vars(Pursue(p))

Spec == Init /\ [][Next]_vars /\ Fairness

-----------------------------------------------------------------------------
(* The cooldown is read long before it is written, so values checked at    *)
(* the same time all raise their alert.  But a value whose check begins    *)
(* after one of them is done finds the cooldown running: a cooldown sees   *)
(* no more alerts than values are in flight at once, unless an alert was   *)
(* stored and its publication failed, or a restart forgot the cooldown.    *)
BurstBounded ==
    \A s \in Sensors : ~slipped[s] => alerts[s][Cooldown - 1] <= Cardinality(Points)

FindsBreach(s) == \E p \in Points : check[p].sensor = s /\ CheckThresholds(p, TRUE)
Raising(s) == \E p \in Points : check[p].sensor = s /\ check[p].stage = "create"

(* A cooldown silences a sensor for a while, never for good: one whose     *)
(* checks keep finding a breach keeps raising alerts.                      *)
KeepsAlerting == \A s \in Sensors : []<><<FindsBreach(s)>>_vars => []<>Raising(s)

(* "Alerts are suppressed for alertCooldownMs milliseconds after the last  *)
(* alert for the same sensor": no cooldown sees two.                       *)
OneAlertPerCooldown == \A s \in Sensors : ~slipped[s] => alerts[s][Cooldown - 1] <= 1
=============================================================================
