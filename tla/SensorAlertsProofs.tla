------------------------- MODULE SensorAlertsProofs ------------------------
(***************************************************************************)
(* Proofs about SensorAlerts, for any sensors, any finite number of values *)
(* in flight and any cooldowns.                                            *)
(*                                                                         *)
(* That a cooldown sees no more alerts than values are in flight is not    *)
(* inductive: an alert is counted when it is stored, and the cooldown that *)
(* silences the sensor begins when it has been published.  Burst adds what *)
(* the values in between stand for: alerts stored since the cooldown last  *)
(* began are still being published, and a value that is about to store one *)
(* has found no cooldown, so it is not among those.                        *)
(***************************************************************************)
EXTENDS SensorAlerts, FiniteSetTheorems, TLAPS

\* The values whose threshold alert for s is at a stage.
Raised(s, stage) == {p \in Points : /\ check[p].sensor = s /\ check[p].kind = "threshold"
                                    /\ check[p].stage = stage}
Creating(s) == Cardinality(Raised(s, "create"))
Publishing(s) == Cardinality(Raised(s, "publish"))

\* The alerts of a longer stretch are no fewer.
Growing(s) == \A a \in 1 .. Cooldown - 1 : alerts[s][a - 1] <= alerts[s][a]

\* Alerts stored since the cooldown last began are being published, and those
\* of the last cooldown with those to come are bounded by the values.
Burst(s) ==
    /\ sinceAlert[s] > 0 => alerts[s][sinceAlert[s] - 1] <= Publishing(s)
    /\ alerts[s][Cooldown - 1] + Creating(s) <= Cardinality(Points)

AlertInv == TypeOK /\ \A s \in Sensors : Growing(s) /\ (~slipped[s] => Burst(s))

-----------------------------------------------------------------------------
\* What is known of a check in progress.
LEMMA CheckRows ==
    /\ IdleCheck \in Checking /\ IdleCheck.stage = "idle"
    /\ \A c \in Checking : c.stage # "idle" =>
         /\ c.sensor \in Sensors /\ c.source \in Sources /\ c.kind \in Kinds
         /\ c \in [stage : {"check", "analyze", "create", "publish"}, sensor : Sensors,
                   source : Sources, kind : Kinds]
    /\ \A c \in Checking : c.stage \in {"idle", "check", "analyze", "create", "publish"}
  BY DEF Checking, IdleCheck

\* After its threshold check a value is analyzed or done.
LEMMA AfterRows ==
    ASSUME NEW c \in Checking, c.stage # "idle"
    PROVE  AfterCheck(c) \in Checking /\ AfterCheck(c).stage \in {"analyze", "idle"}
  <1>1. c \in [stage : {"check", "analyze", "create", "publish"}, sensor : Sensors,
               source : Sources, kind : Kinds]
    BY CheckRows
  <1>2. PICK d : d = [c EXCEPT !.stage = "analyze"]
    OBVIOUS
  <1>3. d \in [stage : {"check", "analyze", "create", "publish"}, sensor : Sensors,
               source : Sources, kind : Kinds] /\ d.stage = "analyze"
    BY <1>1, <1>2
  <1>4. d \in Checking
    BY <1>3 DEF Checking
  <1> QED BY <1>2, <1>3, <1>4, CheckRows DEF AfterCheck

LEMMA Bounds ==
    /\ Cooldown \in Nat \ {0} /\ AnomalyCooldown \in Nat \ {0} /\ IsFiniteSet(Points)
    /\ 0 \in 0 .. Cooldown - 1 /\ Cooldown - 1 \in 0 .. Cooldown - 1
  BY AlertsAssumption

LEMMA Ages ==
    ASSUME TypeOK, NEW s \in Sensors
    PROVE  /\ sinceAlert[s] \in 0 .. Cooldown /\ sinceAnomaly[s] \in 0 .. AnomalyCooldown
           /\ \A a \in 0 .. Cooldown - 1 : alerts[s][a] \in Nat
           /\ slipped[s] \in BOOLEAN
  BY DEF TypeOK

LEMMA RaisedFinite ==
    \A s, stage : /\ IsFiniteSet(Raised(s, stage)) /\ Raised(s, stage) \subseteq Points
                  /\ Cardinality(Raised(s, stage)) \in Nat
  <1> TAKE s, stage
  <1>1. Raised(s, stage) \in SUBSET Points
    BY DEF Raised
  <1> QED BY <1>1, Bounds, FS_Subset, FS_CardinalityType

\* A step of one value leaves the others where they are.
LEMMA OnlyOne ==
    ASSUME TypeOK, NEW p \in Points, NEW c, check' = [check EXCEPT ![p] = c]
    PROVE  \A q \in Points : check'[q] = IF q = p THEN c ELSE check[q]
  BY DEF TypeOK

\* One more and one fewer.
LEMMA RaisedMore ==
    ASSUME NEW t, NEW stage, NEW p \in Points
    PROVE  /\ Cardinality(Raised(t, stage) \cup {p})
                = IF p \in Raised(t, stage) THEN Cardinality(Raised(t, stage))
                                            ELSE Cardinality(Raised(t, stage)) + 1
           /\ Cardinality(Raised(t, stage) \ {p})
                = IF p \in Raised(t, stage) THEN Cardinality(Raised(t, stage)) - 1
                                            ELSE Cardinality(Raised(t, stage))
  BY RaisedFinite, FS_AddElement, FS_RemoveElement

\* The values at one stage and those at another are different ones.
LEMMA RaisedApart ==
    ASSUME NEW t, NEW S, S \subseteq Points, S \cap Raised(t, "publish") = {}
    PROVE  /\ IsFiniteSet(S) /\ Cardinality(S) \in Nat
           /\ Publishing(t) + Cardinality(S) <= Cardinality(Points)
  <1>1. IsFiniteSet(S) /\ Cardinality(S) \in Nat
    BY Bounds, FS_Subset, FS_CardinalityType
  <1>2. IsFiniteSet(Raised(t, "publish")) /\ Cardinality(Raised(t, "publish")) \in Nat
    BY RaisedFinite
  <1>3. Cardinality(S \cup Raised(t, "publish"))
          = Cardinality(S) + Cardinality(Raised(t, "publish"))
            - Cardinality(S \cap Raised(t, "publish"))
    BY <1>1, <1>2, FS_Union
  <1>4. Cardinality(S \cap Raised(t, "publish")) = 0
    BY FS_EmptySet
  <1>5. S \cup Raised(t, "publish") \in SUBSET Points
    BY RaisedFinite
  <1>6. Cardinality(S \cup Raised(t, "publish")) <= Cardinality(Points)
    BY <1>5, Bounds, FS_Subset
  <1> QED BY <1>1, <1>2, <1>3, <1>4, <1>6 DEF Publishing

-----------------------------------------------------------------------------
LEMMA AlertStart == Init => AlertInv
  <1> SUFFICES ASSUME Init PROVE AlertInv OBVIOUS
  <1>1. TypeOK
    BY Bounds, CheckRows DEF Init, TypeOK
  <1> SUFFICES ASSUME NEW s \in Sensors PROVE Growing(s) /\ Burst(s)
    BY <1>1 DEF AlertInv
  <1>2. \A a \in 0 .. Cooldown - 1 : alerts[s][a] = 0
    BY DEF Init
  <1>3. Growing(s)
    BY <1>2, Bounds DEF Growing
  <1>4. Raised(s, "create") = {}
    BY DEF Init, Raised, IdleCheck
  <1>5. Creating(s) = 0 /\ Publishing(s) \in Nat /\ Cardinality(Points) \in Nat
    BY <1>4, Bounds, RaisedFinite, FS_EmptySet, FS_CardinalityType DEF Creating, Publishing
  <1>6. sinceAlert[s] = Cooldown
    BY DEF Init
  <1> QED BY <1>2, <1>3, <1>5, <1>6, Bounds DEF Burst

(* A step that stores nothing, begins no cooldown and sends no value to    *)
(* store an alert.                                                         *)
LEMMA CalmKeeps ==
    ASSUME AlertInv, TypeOK', UNCHANGED <<sinceAlert, alerts>>,
           \A t \in Sensors : ~slipped'[t] =>
             /\ ~slipped[t]
             /\ Raised(t, "create")' \subseteq Raised(t, "create")
             /\ Raised(t, "publish") \subseteq Raised(t, "publish")'
    PROVE  AlertInv'
  <1>1. TypeOK
    BY DEF AlertInv
  <1> SUFFICES ASSUME NEW t \in Sensors PROVE Growing(t)' /\ (~slipped'[t] => Burst(t)')
    BY DEF AlertInv
  <1>2. Growing(t)'
    BY DEF AlertInv, Growing
  <1>3. ASSUME ~slipped'[t] PROVE Burst(t)'
    <2>1. Burst(t)
      BY <1>3 DEF AlertInv
    <2>2. PICK C : C = Raised(t, "create")'
      OBVIOUS
    <2>3. PICK P : P = Raised(t, "publish")'
      OBVIOUS
    <2>4. Cardinality(C) \in Nat /\ Cardinality(C) <= Creating(t)
      BY <1>3, <2>2, RaisedFinite, FS_Subset, FS_CardinalityType DEF Creating
    <2>5. P \subseteq Points /\ Raised(t, "publish") \in SUBSET P
      BY <1>3, <2>3 DEF Raised
    <2>6. IsFiniteSet(P) /\ Cardinality(P) \in Nat /\ Publishing(t) <= Cardinality(P)
      BY <2>5, Bounds, FS_Subset, FS_CardinalityType DEF Publishing
    <2>7. Creating(t) \in Nat /\ Publishing(t) \in Nat /\ Cardinality(Points) \in Nat
      BY RaisedFinite, Bounds, FS_CardinalityType DEF Creating, Publishing
    <2>8. Creating(t)' = Cardinality(C) /\ Publishing(t)' = Cardinality(P)
      BY <2>2, <2>3 DEF Creating, Publishing
    <2>9. alerts[t][Cooldown - 1] \in Nat
      BY <1>1, Ages, Bounds
    <2>10. sinceAlert[t] > 0 => alerts[t][sinceAlert[t] - 1] \in Nat
      BY <1>1, Ages, Bounds
    <2> QED BY <2>1, <2>4, <2>6, <2>7, <2>8, <2>9, <2>10 DEF Burst
  <1> QED BY <1>2, <1>3

\* A step of one value that leaves it at another stage.
LEMMA QuietKeeps ==
    ASSUME AlertInv, NEW p \in Points, NEW c \in Checking, check' = [check EXCEPT ![p] = c],
           c.kind # "threshold" \/ c.stage \notin {"create", "publish"},
           \A t \in Sensors : p \notin Raised(t, "publish"),
           UNCHANGED <<cooldowns, told>>
    PROVE  AlertInv'
  <1>1. TypeOK /\ TypeOK'
    BY DEF AlertInv, TypeOK, cooldowns, told
  <1>2. \A t \in Sensors : /\ Raised(t, "create")' \subseteq Raised(t, "create")
                           /\ Raised(t, "publish") \subseteq Raised(t, "publish")'
    BY <1>1, OnlyOne DEF Raised
  <1> QED BY <1>1, <1>2, CalmKeeps DEF cooldowns, told

LEMMA ReceiveKeeps ==
    ASSUME AlertInv, NEW p \in Points, NEW s \in Sensors, NEW source \in Sources,
           Receive(p, s, source)
    PROVE  AlertInv'
  <1>1. PICK c : c = [stage |-> "check", sensor |-> s, source |-> source, kind |-> "threshold"]
    OBVIOUS
  <1>2. c \in Checking /\ c.stage = "check"
    BY <1>1 DEF Checking, Kinds
  <1>3. \A t \in Sensors : p \notin Raised(t, "publish")
    BY DEF Receive, Raised
  <1> QED BY <1>1, <1>2, <1>3, QuietKeeps DEF Receive

LEMMA AnalyzeKeeps ==
    ASSUME AlertInv, NEW p \in Points, Analyze(p)
    PROVE  AlertInv'
  <1>1. check[p] \in Checking /\ check[p].stage = "analyze"
    BY DEF AlertInv, TypeOK, Analyze
  <1>2. PICK d : d = [check[p] EXCEPT !.stage = "create", !.kind = "anomaly"]
    OBVIOUS
  <1>3. d \in Checking /\ d.kind = "anomaly"
    <2>1. check[p] \in [stage : {"check", "analyze", "create", "publish"}, sensor : Sensors,
                        source : Sources, kind : Kinds]
      BY <1>1, CheckRows
    <2>2. PICK e : e = [check[p] EXCEPT !.stage = "create"]
      OBVIOUS
    <2>3. e \in [stage : {"check", "analyze", "create", "publish"}, sensor : Sensors,
                 source : Sources, kind : Kinds]
      BY <2>1, <2>2
    <2>4. d = [e EXCEPT !.kind = "anomaly"]
      BY <1>2, <2>2
    <2>5. d \in [stage : {"check", "analyze", "create", "publish"}, sensor : Sensors,
                 source : Sources, kind : Kinds] /\ d.kind = "anomaly"
      BY <2>3, <2>4 DEF Kinds
    <2> QED BY <2>5 DEF Checking
  <1>4. PICK c \in {d, IdleCheck} : check' = [check EXCEPT ![p] = c]
    BY <1>2 DEF Analyze
  <1>5. c \in Checking /\ (c.kind # "threshold" \/ c.stage \notin {"create", "publish"})
    BY <1>3, <1>4, CheckRows
  <1>6. \A t \in Sensors : p \notin Raised(t, "publish")
    BY <1>1 DEF Raised
  <1> QED BY <1>4, <1>5, <1>6, QuietKeeps DEF Analyze

-----------------------------------------------------------------------------
(* A breach that finds no cooldown: nobody who has stored an alert since   *)
(* can be at another stage than publishing it.                             *)
LEMMA CheckKeeps ==
    ASSUME AlertInv, NEW p \in Points, NEW breach \in BOOLEAN, CheckThresholds(p, breach)
    PROVE  AlertInv'
  <1> DEFINE s == check[p].sensor
  <1>1. TypeOK /\ check[p] \in Checking /\ check[p].stage = "check" /\ s \in Sensors
    BY CheckRows DEF AlertInv, TypeOK, CheckThresholds
  <1>2. \A t \in Sensors : p \notin Raised(t, "publish") /\ p \notin Raised(t, "create")
    BY <1>1 DEF Raised
  <1>3. CASE ~(breach /\ sinceAlert[s] = Cooldown)
    <2>1. PICK c : c = AfterCheck(check[p])
      OBVIOUS
    <2>2. check' = [check EXCEPT ![p] = c]
      BY <1>3, <2>1 DEF CheckThresholds
    <2>3. c \in Checking /\ c.stage \notin {"create", "publish"}
      BY <1>1, <2>1, AfterRows
    <2> QED BY <1>2, <2>2, <2>3, QuietKeeps DEF CheckThresholds
  <1>4. CASE breach /\ sinceAlert[s] = Cooldown
    <2>1. PICK c : c = [check[p] EXCEPT !.stage = "create"]
      OBVIOUS
    <2>2. check' = [check EXCEPT ![p] = c] /\ UNCHANGED <<cooldowns, told>>
      BY <1>4, <2>1 DEF CheckThresholds
    <2>3. c \in Checking /\ c.sensor = s /\ c.stage = "create"
      <3>1. check[p] \in [stage : {"check", "analyze", "create", "publish"}, sensor : Sensors,
                          source : Sources, kind : Kinds]
        BY <1>1, CheckRows
      <3>2. c \in [stage : {"check", "analyze", "create", "publish"}, sensor : Sensors,
                   source : Sources, kind : Kinds]
        BY <2>1, <3>1
      <3> QED BY <2>1, <3>1, <3>2 DEF Checking
    <2>4. TypeOK'
      BY <1>1, <2>2, <2>3 DEF TypeOK, cooldowns, told
    <2> SUFFICES ASSUME NEW t \in Sensors PROVE Growing(t)' /\ (~slipped'[t] => Burst(t)')
      BY <2>4 DEF AlertInv
    <2>5. Growing(t)'
      BY <2>2 DEF AlertInv, Growing, told
    <2>6. ASSUME ~slipped'[t] PROVE Burst(t)'
      <3>1. Burst(t) /\ UNCHANGED <<sinceAlert, alerts>>
        BY <2>2, <2>6 DEF AlertInv, cooldowns, told
      <3>2. Raised(t, "publish")' = Raised(t, "publish")
        BY <1>1, <1>2, <2>2, <2>3, OnlyOne DEF Raised
      <3>3. Publishing(t)' = Publishing(t)
        BY <3>2 DEF Publishing
      <3>4. PICK C : C = Raised(t, "create")'
        OBVIOUS
      <3>5. Creating(t)' = Cardinality(C)
        BY <3>4 DEF Creating
      <3>6. alerts[t][Cooldown - 1] + Cardinality(C) <= Cardinality(Points)
        <4>1. CASE t # s
          <5>1. C = Raised(t, "create")
            BY <1>1, <1>2, <2>2, <2>3, <3>4, <4>1, OnlyOne DEF Raised
          <5> QED BY <3>1, <5>1 DEF Burst, Creating
        <4>2. CASE t = s
          <5>1. C \subseteq Points /\ C \cap Raised(t, "publish") = {}
            BY <1>2, <3>2, <3>4 DEF Raised
          <5>2. Publishing(t) + Cardinality(C) <= Cardinality(Points) /\ Cardinality(C) \in Nat
            BY <5>1, RaisedApart
          <5>3. alerts[t][Cooldown - 1] <= Publishing(t)
            BY <1>4, <3>1, <4>2, Bounds DEF Burst
          <5>4. alerts[t][Cooldown - 1] \in Nat /\ Publishing(t) \in Nat /\ Cardinality(Points) \in Nat
            BY <1>1, Ages, Bounds, RaisedFinite, FS_CardinalityType DEF Publishing
          <5> QED BY <5>2, <5>3, <5>4
        <4> QED BY <4>1, <4>2
      <3> QED BY <3>1, <3>3, <3>5, <3>6 DEF Burst
    <2> QED BY <2>5, <2>6
  <1> QED BY <1>3, <1>4

-----------------------------------------------------------------------------
(* An alert is stored: the value that was about to store one publishes it. *)
LEMMA CreateKeeps ==
    ASSUME AlertInv, NEW p \in Points, CreateAlert(p)
    PROVE  AlertInv'
  <1> DEFINE s == check[p].sensor
  <1>1. TypeOK /\ check[p] \in Checking /\ check[p].stage = "create" /\ s \in Sensors
    BY CheckRows DEF AlertInv, TypeOK, CreateAlert
  <1>2. PICK c : c = [check[p] EXCEPT !.stage = "publish"]
    OBVIOUS
  <1>3. c \in Checking /\ c.sensor = s /\ c.stage = "publish" /\ c.kind = check[p].kind
    <2>1. check[p] \in [stage : {"check", "analyze", "create", "publish"}, sensor : Sensors,
                        source : Sources, kind : Kinds]
      BY <1>1, CheckRows
    <2>2. c \in [stage : {"check", "analyze", "create", "publish"}, sensor : Sensors,
                 source : Sources, kind : Kinds]
      BY <1>2, <2>1
    <2> QED BY <1>2, <2>1, <2>2 DEF Checking
  <1>4. check' = [check EXCEPT ![p] = c] /\ UNCHANGED <<cooldowns, slipped>>
    BY <1>2 DEF CreateAlert
  <1>5. \A t \in Sensors : p \notin Raised(t, "publish")
    BY <1>1 DEF Raised
  <1>6. CASE ~(check[p].kind = "threshold" /\ ~slipped[s])
    <2>1. alerts' = alerts
      BY <1>1, <1>6 DEF CreateAlert, TypeOK
    <2>2. TypeOK'
      BY <1>1, <1>3, <1>4, <2>1 DEF TypeOK, cooldowns
    <2>3. \A t \in Sensors : ~slipped'[t] =>
            /\ ~slipped[t]
            /\ Raised(t, "create")' \subseteq Raised(t, "create")
            /\ Raised(t, "publish") \subseteq Raised(t, "publish")'
      <3>1. check[p].kind # "threshold" \/ slipped[s]
        BY <1>6
      <3> SUFFICES ASSUME NEW t \in Sensors, ~slipped'[t]
                   PROVE  /\ ~slipped[t]
                          /\ Raised(t, "create")' \subseteq Raised(t, "create")
                          /\ Raised(t, "publish") \subseteq Raised(t, "publish")'
        OBVIOUS
      <3>2. ~slipped[t]
        BY <1>4
      <3>3. \A q \in Points : check'[q] = IF q = p THEN c ELSE check[q]
        BY <1>1, <1>3, <1>4, OnlyOne
      <3>4. c.kind # "threshold" \/ c.sensor # t
        BY <3>1, <3>2, <1>3
      <3> QED BY <3>2, <3>3, <3>4, <1>3, <1>5 DEF Raised
    <2> QED BY <1>4, <2>1, <2>2, <2>3, CalmKeeps DEF cooldowns
  <1>7. CASE check[p].kind = "threshold" /\ ~slipped[s]
    <2>1. PICK g : g = [a \in DOMAIN alerts[s] |-> alerts[s][a] + 1]
      OBVIOUS
    <2>2. alerts' = [alerts EXCEPT ![s] = g]
      BY <1>7, <2>1 DEF CreateAlert
    <2>3. DOMAIN alerts[s] = 0 .. Cooldown - 1
      BY <1>1 DEF TypeOK
    <2>4. g \in [0 .. Cooldown - 1 -> Nat] /\ \A a \in 0 .. Cooldown - 1 : g[a] = alerts[s][a] + 1
      <3>1. ASSUME NEW a \in 0 .. Cooldown - 1 PROVE alerts[s][a] + 1 \in Nat
        <4>1. alerts[s][a] \in Nat
          BY <1>1, Ages
        <4> QED BY <4>1
      <3> QED BY <2>1, <2>3, <3>1
    <2>5. TypeOK'
      BY <1>1, <1>3, <1>4, <2>2, <2>4 DEF TypeOK, cooldowns
    <2> SUFFICES ASSUME NEW t \in Sensors PROVE Growing(t)' /\ (~slipped'[t] => Burst(t)')
      BY <2>5 DEF AlertInv
    <2>6. Growing(t)
      BY DEF AlertInv
    <2>7. CASE t # s
      <3>1. alerts'[t] = alerts[t] /\ sinceAlert'[t] = sinceAlert[t] /\ slipped'[t] = slipped[t]
        BY <1>1, <1>4, <2>2, <2>7 DEF TypeOK, cooldowns
      <3>2. /\ Raised(t, "create")' = Raised(t, "create")
            /\ Raised(t, "publish")' = Raised(t, "publish")
        BY <1>1, <1>3, <1>4, <2>7, OnlyOne DEF Raised
      <3> QED BY <2>6, <3>1, <3>2 DEF AlertInv, Growing, Burst, Creating, Publishing
    <2>8. CASE t = s
      <3>1. alerts'[t] = g /\ sinceAlert'[t] = sinceAlert[t] /\ Burst(t)
        BY <1>1, <1>4, <1>7, <2>2, <2>8 DEF AlertInv, TypeOK, cooldowns
      <3>2. Growing(t)'
        <4> SUFFICES ASSUME NEW a \in 1 .. Cooldown - 1 PROVE g[a - 1] <= g[a]
          BY <3>1 DEF Growing
        <4>1. a \in 0 .. Cooldown - 1 /\ a - 1 \in 0 .. Cooldown - 1
          BY Bounds
        <4>2. alerts[t][a] \in Nat /\ alerts[t][a - 1] \in Nat /\ alerts[t][a - 1] <= alerts[t][a]
          BY <4>1, <1>1, <2>6, Ages DEF Growing
        <4> QED BY <2>4, <2>8, <4>1, <4>2
      <3>3. /\ Raised(t, "create")' = Raised(t, "create") \ {p}
            /\ Raised(t, "publish")' = Raised(t, "publish") \cup {p}
            /\ p \in Raised(t, "create") /\ p \notin Raised(t, "publish")
        <4>1. \A q \in Points : check'[q] = IF q = p THEN c ELSE check[q]
          BY <1>1, <1>3, <1>4, OnlyOne
        <4>2. p \in Raised(t, "create") /\ p \notin Raised(t, "publish")
          BY <1>1, <1>5, <1>7, <2>8 DEF Raised
        <4>3. Raised(t, "create")' = Raised(t, "create") \ {p}
          BY <4>1, <1>3 DEF Raised
        <4>4. Raised(t, "publish")' = Raised(t, "publish") \cup {p}
          BY <4>1, <1>3, <1>7, <2>8 DEF Raised
        <4> QED BY <4>2, <4>3, <4>4
      <3>4. Creating(t)' = Creating(t) - 1 /\ Publishing(t)' = Publishing(t) + 1
        BY <3>3, RaisedMore DEF Creating, Publishing
      <3>5. Creating(t) \in Nat /\ Publishing(t) \in Nat /\ Cardinality(Points) \in Nat
        BY RaisedFinite, Bounds, FS_CardinalityType DEF Creating, Publishing
      <3>6. alerts[t][Cooldown - 1] \in Nat /\ g[Cooldown - 1] = alerts[t][Cooldown - 1] + 1
        BY <1>1, <2>4, <2>8, Ages, Bounds
      <3>7. g[Cooldown - 1] + Creating(t)' <= Cardinality(Points)
        BY <3>1, <3>4, <3>5, <3>6 DEF Burst
      <3>8. sinceAlert[t] > 0 => g[sinceAlert[t] - 1] <= Publishing(t)'
        <4> SUFFICES ASSUME sinceAlert[t] > 0 PROVE g[sinceAlert[t] - 1] <= Publishing(t)'
          OBVIOUS
        <4>1. sinceAlert[t] - 1 \in 0 .. Cooldown - 1
          BY <1>1, Ages, Bounds
        <4>2. alerts[t][sinceAlert[t] - 1] \in Nat
          BY <4>1, <1>1, Ages
        <4>3. g[sinceAlert[t] - 1] = alerts[t][sinceAlert[t] - 1] + 1
          BY <4>1, <2>4, <2>8
        <4> QED BY <4>2, <4>3, <3>1, <3>4, <3>5 DEF Burst
      <3> QED BY <3>1, <3>2, <3>7, <3>8 DEF Burst
    <2> QED BY <2>7, <2>8
  <1> QED BY <1>6, <1>7

-----------------------------------------------------------------------------
(* The alert is published, and the cooldown of its sensor begins.          *)
LEMMA EnterKeeps ==
    ASSUME AlertInv, NEW p \in Points, EnterAlert(p)
    PROVE  AlertInv'
  <1> DEFINE s == check[p].sensor
  <1>1. TypeOK /\ check[p] \in Checking /\ check[p].stage = "publish" /\ s \in Sensors
    BY CheckRows DEF AlertInv, TypeOK, EnterAlert
  <1>2. PICK c : c = IF check[p].kind = "threshold" THEN AfterCheck(check[p]) ELSE IdleCheck
    OBVIOUS
  <1>3. c \in Checking /\ c.stage \notin {"create", "publish"}
    BY <1>1, <1>2, AfterRows, CheckRows
  <1>4. check' = [check EXCEPT ![p] = c] /\ UNCHANGED <<alerts, slipped>>
    BY <1>2 DEF EnterAlert, told
  <1>5. sinceAlert' = [sinceAlert EXCEPT ![s] = 0]
    BY DEF EnterAlert
  <1>6. sinceAnomaly' \in [Sensors -> 0 .. AnomalyCooldown]
    BY <1>1, Bounds DEF EnterAlert, TypeOK
  <1> HIDE DEF s
  <1>7. TypeOK'
    <2>1. sinceAlert' \in [Sensors -> 0 .. Cooldown]
      BY <1>1, <1>5, Bounds DEF TypeOK
    <2>2. check' \in [Points -> Checking]
      BY <1>1, <1>3, <1>4 DEF TypeOK
    <2> QED BY <2>1, <2>2, <1>1, <1>4, <1>6 DEF TypeOK
  <1> SUFFICES ASSUME NEW t \in Sensors PROVE Growing(t)' /\ (~slipped'[t] => Burst(t)')
    BY <1>7 DEF AlertInv
  <1>8. Growing(t)'
    BY <1>4 DEF AlertInv, Growing
  <1>9. p \notin Raised(t, "create")
    BY <1>1 DEF Raised
  <1>10. Raised(t, "create")' = Raised(t, "create")
    BY <1>1, <1>3, <1>4, <1>9, OnlyOne DEF Raised
  <1>11. Creating(t)' = Creating(t)
    BY <1>10 DEF Creating
  <1>12. CASE t = s
    <2>1. sinceAlert'[t] = 0
      BY <1>1, <1>5, <1>12 DEF TypeOK
    <2> QED BY <2>1, <1>4, <1>8, <1>11 DEF AlertInv, Burst
  <1>13. CASE t # s
    <2>1. sinceAlert'[t] = sinceAlert[t]
      BY <1>1, <1>5 , <1>13 DEF TypeOK
    <2>2. p \notin Raised(t, "publish")
      BY <1>13 DEF Raised, s
    <2>3. Raised(t, "publish")' = Raised(t, "publish")
      BY <2>2, <1>1, <1>3, <1>4, OnlyOne DEF Raised
    <2>4. Publishing(t)' = Publishing(t)
      BY <2>3 DEF Publishing
    <2> QED BY <2>1, <2>4, <1>4, <1>8, <1>11 DEF AlertInv, Burst
  <1> QED BY <1>12, <1>13

\* An alert that was not stored leaves nothing, one that was slips.
LEMMA FailKeeps ==
    ASSUME AlertInv, NEW p \in Points, FailAlert(p)
    PROVE  AlertInv'
  <1> DEFINE s == check[p].sensor
  <1>1. TypeOK /\ check[p] \in Checking /\ check[p].stage # "idle" /\ s \in Sensors
    BY CheckRows DEF AlertInv, TypeOK, FailAlert
  <1>2. check' = [check EXCEPT ![p] = IdleCheck] /\ UNCHANGED <<cooldowns, alerts>>
    BY DEF FailAlert
  <1>3. slipped' \in [Sensors -> BOOLEAN]
    BY <1>1 DEF FailAlert, TypeOK
  <1>4. TypeOK'
    BY <1>1, <1>2, <1>3, CheckRows DEF TypeOK, cooldowns
  <1>5. ASSUME NEW t \in Sensors, ~slipped'[t]
        PROVE  ~slipped[t] /\ (t = s => check[p].stage # "publish")
    BY <1>1, <1>5 DEF FailAlert, TypeOK
  <1>6. ASSUME NEW t \in Sensors, ~slipped'[t]
        PROVE  /\ ~slipped[t]
               /\ Raised(t, "create")' \subseteq Raised(t, "create")
               /\ Raised(t, "publish") \subseteq Raised(t, "publish")'
    <2>1. p \notin Raised(t, "publish")
      BY <1>5, <1>6 DEF Raised
    <2>2. \A q \in Points : check'[q] = IF q = p THEN IdleCheck ELSE check[q]
      BY <1>1, <1>2, OnlyOne
    <2>3. Raised(t, "create")' = Raised(t, "create") \ {p}
      BY <2>2, CheckRows DEF Raised
    <2>4. Raised(t, "publish")' = Raised(t, "publish") \ {p}
      BY <2>2, CheckRows DEF Raised
    <2> QED BY <2>1, <2>3, <2>4, <1>5, <1>6
  <1> QED BY <1>2, <1>4, <1>6, CalmKeeps DEF cooldowns

-----------------------------------------------------------------------------
(* A tick.  What was stored since the cooldown began is one tick older,    *)
(* and so is the cooldown.                                                 *)
LEMMA TickKeeps ==
    ASSUME AlertInv, Tick
    PROVE  AlertInv'
  <1>1. TypeOK
    BY DEF AlertInv
  <1>2. ASSUME NEW end \in Nat, NEW age \in 0 .. end
        PROVE  Later(age, end) \in 0 .. end
    BY DEF Later
  <1>3. sinceAlert' \in [Sensors -> 0 .. Cooldown] /\ sinceAnomaly' \in [Sensors -> 0 .. AnomalyCooldown]
    <2>1. \A s \in Sensors : Later(sinceAlert[s], Cooldown) \in 0 .. Cooldown
      BY <1>1, <1>2, Ages, Bounds
    <2>2. \A s \in Sensors : Later(sinceAnomaly[s], AnomalyCooldown) \in 0 .. AnomalyCooldown
      BY <1>1, <1>2, Ages, Bounds
    <2> QED BY <2>1, <2>2 DEF Tick
  <1>4. \A s \in Sensors : DOMAIN alerts[s] = 0 .. Cooldown - 1
    BY <1>1 DEF TypeOK
  <1>5. \A s \in Sensors : alerts'[s] = [a \in 0 .. Cooldown - 1 |-> IF a = 0 THEN 0 ELSE alerts[s][a - 1]]
    BY <1>4 DEF Tick, Older
  <1>6. \A s \in Sensors : alerts'[s] \in [0 .. Cooldown - 1 -> Nat]
    <2> TAKE s \in Sensors
    <2>1. ASSUME NEW a \in 0 .. Cooldown - 1
          PROVE  (IF a = 0 THEN 0 ELSE alerts[s][a - 1]) \in Nat
      <3>1. CASE a = 0
        BY <3>1
      <3>2. CASE a # 0
        <4>1. a - 1 \in 0 .. Cooldown - 1
          BY <3>2, Bounds
        <4> QED BY <4>1, <3>2, <1>1, Ages
      <3> QED BY <3>1, <3>2
    <2> QED BY <2>1, <1>5
  <1>7. alerts' \in [Sensors -> [0 .. Cooldown - 1 -> Nat]]
    <2>1. alerts' = [s \in Sensors |-> alerts'[s]]
      BY DEF Tick
    <2> QED BY <2>1, <1>6
  <1>8. TypeOK'
    BY <1>1, <1>3, <1>7 DEF TypeOK, Tick
  <1> SUFFICES ASSUME NEW t \in Sensors PROVE Growing(t)' /\ (~slipped'[t] => Burst(t)')
    BY <1>8 DEF AlertInv
  <1>9. \A a \in 0 .. Cooldown - 1 : /\ alerts'[t][a] = IF a = 0 THEN 0 ELSE alerts[t][a - 1]
                                     /\ alerts[t][a] \in Nat
    <2> TAKE a \in 0 .. Cooldown - 1
    <2>1. alerts'[t][a] = IF a = 0 THEN 0 ELSE alerts[t][a - 1]
      BY <1>5
    <2>2. alerts[t][a] \in Nat
      BY <1>1, Ages
    <2> QED BY <2>1, <2>2
  <1>10. Growing(t)
    BY DEF AlertInv
  <1>11. Growing(t)'
    <2> SUFFICES ASSUME NEW a \in 1 .. Cooldown - 1 PROVE alerts'[t][a - 1] <= alerts'[t][a]
      BY DEF Growing
    <2>1. a \in 0 .. Cooldown - 1 /\ a - 1 \in 0 .. Cooldown - 1 /\ a # 0
      BY Bounds
    <2>2. CASE a - 1 = 0
      BY <2>1, <2>2, <1>9
    <2>3. CASE a - 1 # 0
      <3>1. a - 1 \in 1 .. Cooldown - 1
        BY <2>1, <2>3
      <3>2. alerts[t][(a - 1) - 1] <= alerts[t][a - 1]
        BY <3>1, <1>10 DEF Growing
      <3> QED BY <3>2, <2>1, <2>3, <1>9
    <2> QED BY <2>2, <2>3
  <1>12. ASSUME ~slipped'[t] PROVE Burst(t)'
    <2>1. Burst(t)
      BY <1>12 DEF AlertInv, Tick
    <2>2. Raised(t, "create")' = Raised(t, "create") /\ Raised(t, "publish")' = Raised(t, "publish")
      BY DEF Raised, Tick
    <2>3. Creating(t)' = Creating(t) /\ Publishing(t)' = Publishing(t)
      BY <2>2 DEF Creating, Publishing
    <2>4. Creating(t) \in Nat /\ Publishing(t) \in Nat /\ Cardinality(Points) \in Nat
      BY RaisedFinite, Bounds, FS_CardinalityType DEF Creating, Publishing
    <2>5. alerts'[t][Cooldown - 1] \in Nat /\ alerts[t][Cooldown - 1] \in Nat
      BY <1>6, <1>9, Bounds
    <2>6. alerts'[t][Cooldown - 1] <= alerts[t][Cooldown - 1]
      <3>1. CASE Cooldown = 1
        BY <3>1, <1>9, Bounds
      <3>2. CASE Cooldown # 1
        <4>1. Cooldown - 1 \in 1 .. Cooldown - 1
          BY <3>2, Bounds
        <4> QED BY <4>1, <1>9, <1>10, Bounds DEF Growing
      <3> QED BY <3>1, <3>2
    <2>7. sinceAlert'[t] = IF sinceAlert[t] < Cooldown THEN sinceAlert[t] + 1 ELSE Cooldown
      BY DEF Tick, Later
    <2>8. sinceAlert'[t] > 0 => alerts'[t][sinceAlert'[t] - 1] <= Publishing(t)
      <3>1. sinceAlert[t] \in 0 .. Cooldown
        BY <1>1, Ages
      <3>2. CASE sinceAlert[t] = 0
        <4>1. sinceAlert'[t] - 1 = 0
          BY <2>7, <3>2, Bounds
        <4> QED BY <4>1, <1>9, <2>4, Bounds
      <3>3. CASE sinceAlert[t] \in 1 .. Cooldown - 1
        <4>1. sinceAlert'[t] - 1 = sinceAlert[t]
          BY <2>7, <3>3, Bounds
        <4>2. sinceAlert[t] \in 0 .. Cooldown - 1 /\ sinceAlert[t] # 0
          BY <3>3, Bounds
        <4>3. alerts'[t][sinceAlert[t]] = alerts[t][sinceAlert[t] - 1]
          BY <4>2, <1>9
        <4> QED BY <4>1, <4>3, <2>1, <3>3, Bounds DEF Burst
      <3>4. CASE sinceAlert[t] = Cooldown
        <4>1. sinceAlert'[t] = Cooldown
          BY <2>7, <3>4, Bounds
        <4>2. alerts[t][Cooldown - 1] <= Publishing(t)
          BY <2>1, <3>4, Bounds DEF Burst
        <4> QED BY <4>1, <4>2, <2>4, <2>5, <2>6
      <3> QED BY <3>1, <3>2, <3>3, <3>4, Bounds
    <2> QED BY <2>1, <2>3, <2>4, <2>5, <2>6, <2>8 DEF Burst
  <1> QED BY <1>11, <1>12

\* A restart forgets the cooldowns, and says so.
LEMMA RestartKeeps ==
    ASSUME AlertInv, Restart
    PROVE  AlertInv'
  <1>1. TypeOK'
    BY Bounds, CheckRows DEF AlertInv, TypeOK, Restart
  <1>2. \A t \in Sensors : Growing(t)' /\ slipped'[t]
    BY DEF AlertInv, Growing, Restart
  <1> QED BY <1>1, <1>2 DEF AlertInv

-----------------------------------------------------------------------------
LEMMA AlertKept == AlertInv /\ [Next]_vars => AlertInv'
  <1> SUFFICES ASSUME AlertInv, [Next]_vars PROVE AlertInv' OBVIOUS
  <1>1. CASE \E p \in Points, s \in Sensors, source \in Sources : Receive(p, s, source)
    BY <1>1, ReceiveKeeps
  <1>2. CASE \E p \in Points, breach \in BOOLEAN : CheckThresholds(p, breach)
    BY <1>2, CheckKeeps
  <1>3. CASE \E p \in Points : Analyze(p)
    BY <1>3, AnalyzeKeeps
  <1>4. CASE \E p \in Points : CreateAlert(p)
    BY <1>4, CreateKeeps
  <1>5. CASE \E p \in Points : EnterAlert(p)
    BY <1>5, EnterKeeps
  <1>6. CASE \E p \in Points : FailAlert(p)
    BY <1>6, FailKeeps
  <1>7. CASE Tick
    BY <1>7, TickKeeps
  <1>8. CASE Restart
    BY <1>8, RestartKeeps
  <1>9. CASE UNCHANGED vars
    <2>1. TypeOK' /\ UNCHANGED <<sinceAlert, alerts, slipped>>
      BY <1>9 DEF AlertInv, TypeOK, vars
    <2>2. \A t \in Sensors : /\ Raised(t, "create")' = Raised(t, "create")
                             /\ Raised(t, "publish")' = Raised(t, "publish")
      BY <1>9 DEF Raised, vars
    <2> QED BY <2>1, <2>2, CalmKeeps
  <1> QED BY <1>1, <1>2, <1>3, <1>4, <1>5, <1>6, <1>7, <1>8, <1>9 DEF Next, Pursue

\* What the properties follow from: alerts stored since the cooldown began are
\* still being published by values that found no cooldown
\* (checkAlertThresholds).
THEOREM AlertInvariant == Spec => []AlertInv
  <1>1. Init => AlertInv
    BY AlertStart
  <1>2. AlertInv /\ [Next]_vars => AlertInv'
    BY AlertKept
  <1> QED BY <1>1, <1>2, PTL DEF Spec

\* A value is at one stage of its checks, for a sensor that exists, and the
\* ages of lastAlertTime stay within their cooldowns (checkAlertThresholds
\* and createAnomalyAlert).
THEOREM AlertTypes == Spec => []TypeOK
  <1>1. AlertInv => TypeOK
    BY DEF AlertInv
  <1> QED BY <1>1, AlertInvariant, PTL

\* A cooldown sees no more threshold alerts than values are in flight at
\* once, unless an alert was stored and never entered or a restart forgot the
\* cooldown (checkAlertThresholds, sensors.service.ts).
THEOREM BurstCorrect == Spec => []BurstBounded
  <1>1. AlertInv => BurstBounded
    <2> SUFFICES ASSUME AlertInv, NEW s \in Sensors, ~slipped[s]
                 PROVE  alerts[s][Cooldown - 1] <= Cardinality(Points)
      BY DEF BurstBounded
    <2>1. TypeOK /\ alerts[s][Cooldown - 1] + Creating(s) <= Cardinality(Points)
      BY DEF AlertInv, Burst
    <2>2. alerts[s][Cooldown - 1] \in Nat /\ Creating(s) \in Nat /\ Cardinality(Points) \in Nat
      BY <2>1, Ages, Bounds, RaisedFinite, FS_CardinalityType DEF Creating
    <2> QED BY <2>1, <2>2
  <1> QED BY <1>1, AlertInvariant, PTL
=============================================================================
