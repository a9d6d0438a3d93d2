------------------------ MODULE SensorControlProofs ------------------------
(***************************************************************************)
(* Theorems about SensorControl, for any number of sensors, interval       *)
(* handles, overlapping control requests, points in flight and restarts.   *)
(***************************************************************************)
EXTENDS SensorControl, TLAPS

USE ControlAssumption

(* The steps of the system, one disjunct per action, for case analysis.    *)
LEMMA NextCases ==
    ASSUME Next
    PROVE  \/ \E s \in Sensors : Create(s)
           \/ \E o \in Operators, s \in Sensors : BeginStart(o, s)
           \/ \E o \in Operators, s \in Sensors, op \in Ops \ {"start"} : Begin(o, s, op)
           \/ \E o \in Operators : Found(o)
           \/ \E o \in Operators : Proceed(o)
           \/ \E o \in Operators : Commit(o)
           \/ \E o \in Operators : Arm(o)
           \/ \E o \in Operators : Finish(o)
           \/ \E o \in Operators : Abort(o)
           \/ UNCHANGED <<row, activeStreams, interval, req, crashes, overlap, cut>>
              /\ \/ \E t \in Timers, w \in Writers : Tick(t, w)
                 \/ \E w \in Writers, s \in Sensors : Ingest(w, s)
                 \/ \E w \in Writers : Carry(w)
           \/ Restart
  BY DEF Next, Advance, Carry, Tick, Ingest, Admit, Insert, Drop, control, history

(* Every UPDATE turns a row into a row.                                    *)
LEMMA UpdatedInRow ==
    ASSUME NEW r \in Row, r.status = "live", NEW op PROVE Updated(r, op) \in Row
<1>1. r \in [status : {"live", "deleted"}, mode : Modes, manual : BOOLEAN, active : BOOLEAN]
  BY DEF Row, NoRow
<1>2. Updated(r, op) \in [status : {"live", "deleted"}, mode : Modes,
                          manual : BOOLEAN, active : BOOLEAN]
  BY <1>1 DEF Updated, Modes
<1> QED
  BY <1>2 DEF Row

(* The streamActive column of a row is a Boolean.                          *)
LEMMA RowActive ==
    ASSUME NEW r \in Row PROVE r.active \in BOOLEAN
<1>1. CASE r = NoRow
  <2>1. NoRow.active = FALSE
    BY DEF NoRow
  <2> QED
    BY <1>1, <2>1
<1>2. CASE r \in [status : {"live", "deleted"}, mode : Modes,
                  manual : BOOLEAN, active : BOOLEAN]
  BY <1>2
<1> QED
  BY <1>1, <1>2 DEF Row

(* A request in flight knows its sensor and its operation.                 *)
LEMMA BusyRequest ==
    ASSUME TypeOK, NEW o \in Operators, req[o].stage # "idle"
    PROVE  /\ req[o] \in Request \ {IdleRequest}
           /\ req[o].sensor \in Sensors
           /\ req[o].op \in Ops
           /\ req[o].timer \in Timers \cup {NoTimer}
           /\ req[o].streaming \in BOOLEAN
  BY DEF TypeOK, Request, IdleRequest

(* A request that only changes its stage, or what it read, stays one.      *)
LEMMA StagedRequest ==
    ASSUME NEW r \in Request \ {IdleRequest}, NEW b \in BOOLEAN,
           NEW g \in {"find", "found", "write", "wrote", "tail"}
    PROVE  /\ [r EXCEPT !.stage = g] \in Request
           /\ [r EXCEPT !.stage = g, !.streaming = b] \in Request
           /\ IdleRequest \in Request
  BY DEF Request, IdleRequest

(* The same for the data points.                                           *)
LEMMA StagedPoint ==
    ASSUME NEW p \in Point, p.stage # "idle", NEW g \in {"find", "insert", "announce"}
    PROVE  [p EXCEPT !.stage = g] \in Point /\ IdlePoint \in Point
  BY DEF Point, IdlePoint

(* stopStreamInternal keeps the Map and the intervals well typed.          *)
LEMMA StopTypes ==
    ASSUME TypeOK, NEW s \in Sensors, StopStreamInternal(s)
    PROVE  /\ activeStreams' \in [Sensors -> Timers \cup {NoTimer}]
           /\ interval' \in [Timers -> Sensors \cup {NoSensor}]
  BY DEF TypeOK, StopStreamInternal

(* Each action keeps the state well typed.                                 *)
LEMMA TypeStep == TypeOK /\ [Next]_vars => TypeOK'
<1> SUFFICES ASSUME TypeOK, [Next]_vars PROVE TypeOK'
  OBVIOUS
<1> USE DEF TypeOK, control, history
<1>1. ASSUME NEW s \in Sensors, Create(s) PROVE TypeOK'
  BY <1>1 DEF Create, Row, NewRow, Modes
<1>2. ASSUME NEW o \in Operators, NEW s \in Sensors, BeginStart(o, s) PROVE TypeOK'
  <2>1. OverlapWith("start", s) \in Overlaps
    BY DEF OverlapWith, Overlaps
  <2>2. ASSUME NEW t \in Timers
        PROVE [op |-> "start", sensor |-> s, stage |-> "find",
               streaming |-> FALSE, timer |-> t] \in Request
    BY DEF Request, Ops
  <2>3. req' \in [Operators -> Request]
    BY <1>2, <2>2 DEF BeginStart
  <2> QED
    BY <1>2, <2>1, <2>3, StopTypes DEF BeginStart
<1>3. ASSUME NEW o \in Operators, NEW s \in Sensors, NEW op \in Ops \ {"start"}, Begin(o, s, op)
      PROVE  TypeOK'
  <2>1. OverlapWith(op, s) \in Overlaps
    BY DEF OverlapWith, Overlaps
  <2>2. [op |-> op, sensor |-> s, stage |-> "find",
         streaming |-> FALSE, timer |-> NoTimer] \in Request
    BY DEF Request
  <2> QED
    BY <1>3, <2>1, <2>2 DEF Begin
<1>4. ASSUME NEW o \in Operators, Found(o) PROVE TypeOK'
  <2>0. row[req[o].sensor] \in Row
    BY <1>4, BusyRequest DEF Found
  <2>1. row[req[o].sensor].active \in BOOLEAN
    BY <2>0, RowActive
  <2> QED
    BY <1>4, <2>1, BusyRequest, StagedRequest DEF Found
<1>5. ASSUME NEW o \in Operators, Proceed(o) PROVE TypeOK'
  <2>1. [req[o] EXCEPT !.stage = "write"] \in Request /\ req[o].sensor \in Sensors
    BY <1>5, BusyRequest, StagedRequest DEF Proceed
  <2> QED
    BY <1>5, <2>1, StopTypes DEF Proceed
<1>6. ASSUME NEW o \in Operators, Commit(o) PROVE TypeOK'
  <2>1. req[o].sensor \in Sensors /\ req[o] \in Request \ {IdleRequest}
    BY <1>6, BusyRequest DEF Commit
  <2>2. Updated(row[req[o].sensor], req[o].op) \in Row
    BY <1>6, <2>1, UpdatedInRow DEF Commit, Live
  <2>3. AfterWrite(req[o]) \in Request
    BY <2>1, StagedRequest DEF AfterWrite
  <2>4. cut' \in [Sensors -> BOOLEAN]
    BY <1>6 DEF Commit
  <2> QED
    BY <1>6, <2>2, <2>3, <2>4 DEF Commit
<1>7. ASSUME NEW o \in Operators, Arm(o) PROVE TypeOK'
  BY <1>7, BusyRequest, StagedRequest DEF Arm
<1>8. ASSUME NEW o \in Operators, Finish(o) PROVE TypeOK'
  BY <1>8, BusyRequest, StagedRequest DEF Finish
<1>9. ASSUME NEW o \in Operators, Abort(o) PROVE TypeOK'
  <2>1. cut' \in [Sensors -> BOOLEAN]
    BY <1>9 DEF Abort, Stopped
  <2> QED
    BY <1>9, <2>1, BusyRequest, StagedRequest DEF Abort
<1>10. ASSUME NEW t \in Timers, NEW w \in Writers, Tick(t, w) PROVE TypeOK'
  BY <1>10 DEF Tick, Point
<1>11. ASSUME NEW w \in Writers, NEW s \in Sensors, Ingest(w, s) PROVE TypeOK'
  BY <1>11 DEF Ingest, Point
<1>12. ASSUME NEW w \in Writers, Carry(w) PROVE TypeOK'
  <2>1. point' \in [Writers -> Point]
    <3>1. point[w] \in Point /\ point[w].stage # "idle" /\ IdlePoint \in Point
      BY <1>12 DEF Carry, Admit, Insert, Drop, Point
    <3>2. [point[w] EXCEPT !.stage = "insert"] \in Point
          /\ [point[w] EXCEPT !.stage = "announce"] \in Point
      BY <3>1, StagedPoint
    <3>3. CASE Admit(w)
      BY <3>1, <3>2, <3>3 DEF Admit
    <3>4. CASE Insert(w)
      BY <3>2, <3>4 DEF Insert
    <3>5. CASE Drop(w)
      BY <3>1, <3>5 DEF Drop
    <3> QED
      BY <1>12, <3>3, <3>4, <3>5 DEF Carry
  <2> QED
    BY <1>12, <2>1 DEF Carry, Admit, Insert, Drop
<1>13. CASE Restart
  BY <1>13 DEF Restart, Request, Point, Overlaps
<1>14. CASE UNCHANGED vars
  BY <1>14 DEF vars
<1> QED
  BY <1>1, <1>2, <1>3, <1>4, <1>5, <1>6, <1>7, <1>8, <1>9, <1>10, <1>11, <1>12, <1>13, <1>14,
     NextCases

(* Every reachable state is well typed.                                    *)
THEOREM TypeCorrect == Spec => []TypeOK
<1>1. Init => TypeOK
  BY DEF Init, TypeOK, Row, NoRow, Request, Point, Modes, Ops, Overlaps, IdleRequest, IdlePoint
<1> QED
  BY <1>1, TypeStep, PTL DEF Spec
-----------------------------------------------------------------------------
(***************************************************************************)
(* The Map and the intervals.  RegistrySound needs the handles a start     *)
(* will get: none of them is running, and no two requests share one.       *)
(***************************************************************************)
RequestShape ==
    \A o \in Operators : /\ req[o].op = "start" <=> req[o].timer \in Timers
                         /\ req[o].stage = "wrote" => req[o].op = "start"
                         /\ req[o].stage = "tail" => req[o].op = "override"

HandlesFresh ==
    \A o \in Operators :
        req[o].timer \in Timers =>
            /\ interval[req[o].timer] = NoSensor
            /\ \A other \in Operators : req[other].timer = req[o].timer => other = o

RegistryInv == TypeOK /\ RegistrySound /\ RequestShape /\ HandlesFresh

(* stopStreamInternal keeps the Map sound and starts no interval.          *)
LEMMA StopSound ==
    ASSUME RegistryInv, NEW s \in Sensors, StopStreamInternal(s)
    PROVE  /\ RegistrySound'
           /\ activeStreams'[s] = NoTimer
           /\ \A z \in Sensors \ {s} : activeStreams'[z] = activeStreams[z]
           /\ \A t \in Timers : interval'[t] \in {interval[t], NoSensor}
           /\ \A t \in Timers : interval'[t] = s => interval[t] = s /\ activeStreams[s] # t
  BY DEF RegistryInv, TypeOK, RegistrySound, StopStreamInternal

(* Each action keeps the Map sound, and a handle one start will get is     *)
(* dead and reserved for no other.                                         *)
LEMMA RegistryStep == RegistryInv /\ [Next]_vars => RegistryInv'
<1> SUFFICES ASSUME RegistryInv, [Next]_vars PROVE RegistryInv'
  OBVIOUS
<1>0. TypeOK /\ TypeOK'
  BY TypeStep DEF RegistryInv
<1> USE DEF control, history
<1>1. ASSUME NEW s \in Sensors, Create(s) PROVE RegistryInv'
  BY <1>0, <1>1 DEF RegistryInv, RegistrySound, RequestShape, HandlesFresh, Create
<1>2. ASSUME NEW o \in Operators, NEW s \in Sensors, BeginStart(o, s) PROVE RegistryInv'
  <2>1. StopStreamInternal(s)
    BY <1>2 DEF BeginStart
  <2>2. PICK t \in Timers :
           /\ Fresh(t)
           /\ req' = [req EXCEPT ![o] = [op |-> "start", sensor |-> s, stage |-> "find",
                                         streaming |-> FALSE, timer |-> t]]
    BY <1>2 DEF BeginStart
  <2>3. RequestShape'
    BY <1>0, <2>2 DEF RegistryInv, RequestShape, TypeOK
  <2>4. HandlesFresh'
    BY <1>0, <2>1, <2>2, StopSound DEF RegistryInv, HandlesFresh, TypeOK, Fresh
  <2> QED
    BY <1>0, <2>1, <2>3, <2>4, StopSound DEF RegistryInv
<1>3. ASSUME NEW o \in Operators, NEW s \in Sensors, NEW op \in Ops \ {"start"}, Begin(o, s, op)
      PROVE  RegistryInv'
  BY <1>0, <1>3 DEF RegistryInv, RegistrySound, RequestShape, HandlesFresh, TypeOK, Begin
<1>4. ASSUME NEW o \in Operators, Found(o) PROVE RegistryInv'
  <2>1. req'[o].op = req[o].op /\ req'[o].timer = req[o].timer /\ req'[o].stage = "found"
    BY <1>0, <1>4, BusyRequest DEF Found, TypeOK, Request
  <2> QED
    BY <1>0, <1>4, <2>1 DEF RegistryInv, RegistrySound, RequestShape, HandlesFresh, TypeOK, Found
<1>5. ASSUME NEW o \in Operators, Proceed(o) PROVE RegistryInv'
  <2>1. req'[o].op = req[o].op /\ req'[o].timer = req[o].timer /\ req'[o].stage = "write"
    BY <1>0, <1>5, BusyRequest DEF Proceed, TypeOK, Request
  <2>2. RequestShape'
    BY <1>0, <1>5, <2>1 DEF RegistryInv, RequestShape, TypeOK, Proceed
  <2>3. RegistrySound' /\ \A t \in Timers : interval'[t] \in {interval[t], NoSensor}
    BY <1>5, <1>0, BusyRequest, StopSound DEF Proceed, RegistryInv, RegistrySound, TypeOK
  <2>4. HandlesFresh'
    BY <1>0, <1>5, <2>1, <2>3 DEF RegistryInv, HandlesFresh, TypeOK, Proceed
  <2> QED
    BY <1>0, <2>2, <2>3, <2>4 DEF RegistryInv
<1>6. ASSUME NEW o \in Operators, Commit(o) PROVE RegistryInv'
  <2>1. \/ req'[o] = IdleRequest
        \/ /\ req'[o].op = req[o].op
           /\ req'[o].timer = req[o].timer
           /\ req'[o].stage = "wrote" => req[o].op = "start"
           /\ req'[o].stage = "tail" => req[o].op = "override"
    BY <1>0, <1>6, BusyRequest DEF Commit, AfterWrite, TypeOK, Request
  <2>2. /\ \A other \in Operators \ {o} : req'[other] = req[other]
        /\ UNCHANGED <<activeStreams, interval>>
    BY <1>0, <1>6 DEF Commit, TypeOK
  <2>3. RequestShape'
    BY <2>1, <2>2 DEF RegistryInv, RequestShape, IdleRequest
  <2>4. HandlesFresh' /\ RegistrySound'
    BY <2>1, <2>2 DEF RegistryInv, RegistrySound, HandlesFresh, IdleRequest
  <2> QED
    BY <1>0, <2>3, <2>4 DEF RegistryInv
<1>7. ASSUME NEW o \in Operators, Arm(o) PROVE RegistryInv'
  <2>1. req[o].sensor \in Sensors /\ req[o].timer \in Timers
        /\ interval[req[o].timer] = NoSensor
    BY <1>0, <1>7, BusyRequest DEF Arm, RegistryInv, RequestShape, HandlesFresh
  <2>2. RegistrySound'
    BY <1>0, <1>7, <2>1 DEF RegistryInv, RegistrySound, TypeOK, Arm
  <2>3. RequestShape' /\ HandlesFresh'
    BY <1>0, <1>7, <2>1
    DEF RegistryInv, RequestShape, HandlesFresh, TypeOK, Arm, IdleRequest
  <2> QED
    BY <1>0, <2>2, <2>3 DEF RegistryInv
<1>8. ASSUME NEW o \in Operators, Finish(o) \/ Abort(o) PROVE RegistryInv'
  BY <1>0, <1>8
  DEF RegistryInv, RegistrySound, RequestShape, HandlesFresh, TypeOK, Finish, Abort, IdleRequest
<1>9. CASE UNCHANGED <<row, activeStreams, interval, req, crashes, overlap, cut>>
  BY <1>0, <1>9 DEF RegistryInv, RegistrySound, RequestShape, HandlesFresh
<1>10. CASE Restart
  BY <1>0, <1>10 DEF RegistryInv, RegistrySound, RequestShape, HandlesFresh, Restart, IdleRequest
<1>11. CASE UNCHANGED vars
  BY <1>0, <1>11 DEF RegistryInv, RegistrySound, RequestShape, HandlesFresh, vars
<1> QED
  BY <1>1, <1>2, <1>3, <1>4, <1>5, <1>6, <1>7, <1>8, <1>9, <1>10, <1>11, NextCases

(* However requests and restarts interleave, the Map never holds a dead    *)
(* interval or one that works for another sensor.                          *)
THEOREM RegistryCorrect == Spec => []RegistrySound
<1>1. Init => RegistryInv
  BY DEF Init, RegistryInv, TypeOK, Row, Request, Point, Modes, Overlaps, RegistrySound,
         NoRow,
         RequestShape, HandlesFresh, IdleRequest
<1>2. RegistryInv => RegistrySound
  BY DEF RegistryInv
<1> QED
  BY <1>1, <1>2, RegistryStep, PTL DEF Spec

-----------------------------------------------------------------------------
(***************************************************************************)
(* Duplicate streams, and the agreement between row and interval.  Each    *)
(* part is about one sensor and holds for as long as its overlap history   *)
(* allows.  Starting: between the check of the Map and activeStreams.set.  *)
(***************************************************************************)
Starting(o, s) == Pending(o, s) /\ req[o].op = "start"

(* No start has met another: what runs is in the Map, and while a start is *)
(* on its way nothing runs.                                                *)
NoDuplicates(s) ==
    overlap[s] # "starts" =>
        /\ \A t \in Timers : interval[t] = s => activeStreams[s] = t
        /\ \A o \in Operators : Starting(o, s) => activeStreams[s] = NoTimer
        /\ \A o1, o2 \in Operators : Starting(o1, s) /\ Starting(o2, s) => o1 = o2

(* What a request relies on when it has the sensor to itself.              *)
OnCourse(o, s) ==
    /\ req[o].stage = "wrote" => Streaming(s) /\ row[s].mode = "STREAM"
    /\ req[o].op = "override" /\ req[o].stage \in {"found", "write"}
           => req[o].streaming = row[s].active
    /\ req[o].stage = "write" /\ StopsStream(o) => activeStreams[s] = NoTimer

Serial(s) ==
    overlap[s] = "none" =>
        /\ \A o1, o2 \in Operators : Pending(o1, s) /\ Pending(o2, s) => o1 = o2
        /\ \A o \in Operators : Pending(o, s) => OnCourse(o, s)
        /\ activeStreams[s] # NoTimer => Streaming(s)

(* A stream the row claims runs, or a request is about to change that.     *)
Resumes(o, s) ==
    /\ Pending(o, s)
    /\ req[o].op = "start" \/ (req[o].stage = "write" /\ req[o].op # "clear")

Attended(s) ==
    overlap[s] = "none" /\ ~cut[s] /\ Streaming(s) =>
        activeStreams[s] # NoTimer \/ \E o \in Operators : Resumes(o, s)

SensorInv(s) == NoDuplicates(s) /\ Serial(s) /\ Attended(s)

ControlInv == RegistryInv /\ \A s \in Sensors : SensorInv(s)

(* A step that does not touch sensor z, seen from z.                       *)
Frame(z) ==
    /\ row'[z] = row[z]
    /\ activeStreams'[z] = activeStreams[z]
    /\ overlap'[z] = overlap[z]
    /\ cut'[z] = cut[z]
    /\ \A t \in Timers : interval'[t] = z <=> interval[t] = z
    /\ \A o \in Operators : req'[o] = req[o] \/ (~Pending(o, z) /\ ~Pending(o, z)')

(* A step that leaves a sensor's control state and its unfinished requests *)
(* alone keeps its invariant.                                              *)
LEMMA FrameKeeps ==
    ASSUME NEW z \in Sensors, SensorInv(z), Frame(z)
    PROVE  SensorInv(z)'
<1> USE DEF Frame
<1>1. \A o \in Operators : Pending(o, z)' <=> Pending(o, z)
  BY DEF Pending
<1>2. \A o \in Operators : Pending(o, z) => req'[o] = req[o]
  OBVIOUS
<1>3. NoDuplicates(z)'
  BY <1>1, <1>2 DEF SensorInv, NoDuplicates, Starting
<1>4. Serial(z)'
  BY <1>1, <1>2 DEF SensorInv, Serial, OnCourse, StopsStream, Streaming, Live
<1>5. Attended(z)'
  BY <1>1, <1>2 DEF SensorInv, Attended, Resumes, Streaming, Live
<1> QED
  BY <1>3, <1>4, <1>5 DEF SensorInv

(* What a request that begins does to the overlap history.                 *)
LEMMA OverlapHistory ==
    ASSUME NEW s \in Sensors, NEW op, TypeOK
    PROVE  /\ OverlapWith(op, s) # "starts" =>
                 /\ overlap[s] # "starts"
                 /\ op = "start" => \A o \in Operators : ~Starting(o, s)
           /\ OverlapWith(op, s) = "none" => overlap[s] = "none" /\ Quiet(s)
  BY DEF OverlapWith, Starting, Quiet

(* stopStreamInternal, from the sensors it does not stop.                  *)
LEMMA StopFrame ==
    ASSUME RegistryInv, NEW s \in Sensors, StopStreamInternal(s), NEW z \in Sensors \ {s}
    PROVE  /\ activeStreams'[z] = activeStreams[z]
           /\ \A t \in Timers : interval'[t] = z <=> interval[t] = z
  BY DEF RegistryInv, TypeOK, RegistrySound, StopStreamInternal

(* The first step of startStream, from the sensor it is for and from the   *)
(* others.                                                                 *)
LEMMA BeginStartKeeps ==
    ASSUME ControlInv, NEW o \in Operators, NEW s \in Sensors, BeginStart(o, s),
           NEW z \in Sensors
    PROVE  SensorInv(z)'
<1> USE DEF control, history
<1>1. RegistryInv /\ TypeOK /\ SensorInv(z) /\ StopStreamInternal(s)
  BY DEF ControlInv, RegistryInv, BeginStart
<1>2. /\ req'[o].op = "start" /\ req'[o].sensor = s /\ req'[o].stage = "find"
      /\ req[o].stage = "idle"
      /\ \A other \in Operators \ {o} : req'[other] = req[other]
      /\ overlap' = [overlap EXCEPT ![s] = OverlapWith("start", s)]
      /\ UNCHANGED <<row, cut>>
  BY <1>1 DEF BeginStart, TypeOK
<1>3. CASE z # s
  <2>1. Frame(z)
    BY <1>1, <1>2, <1>3, StopFrame DEF Frame, Pending, TypeOK
  <2> QED
    BY <1>1, <2>1, FrameKeeps
<1>4. CASE z = s
  <2>1. /\ \A other \in Operators \ {o} : Pending(other, s)' <=> Pending(other, s)
        /\ Pending(o, s)' /\ ~Pending(o, s)
        /\ overlap'[s] = OverlapWith("start", s)
    BY <1>1, <1>2 DEF Pending, TypeOK
  <2>2. /\ activeStreams'[s] = NoTimer
        /\ \A t \in Timers : interval'[t] = s => interval[t] = s /\ activeStreams[s] # t
    BY <1>1, StopSound
  <2>3. NoDuplicates(s)'
    BY <1>1, <1>2, <1>4, <2>1, <2>2, OverlapHistory DEF SensorInv, NoDuplicates, Starting
  <2>4. Serial(s)'
    BY <1>1, <1>2, <2>1, <2>2, OverlapHistory DEF Serial, OnCourse, Quiet
  <2>5. Attended(s)'
    BY <1>2, <2>1 DEF Attended, Resumes
  <2> QED
    BY <1>4, <2>3, <2>4, <2>5 DEF SensorInv
<1> QED
  BY <1>3, <1>4

(* The first step of every other request, likewise.                        *)
LEMMA BeginKeeps ==
    ASSUME ControlInv, NEW o \in Operators, NEW s \in Sensors, NEW op \in Ops \ {"start"},
           Begin(o, s, op), NEW z \in Sensors
    PROVE  SensorInv(z)'
<1> USE DEF control, history
<1>1. TypeOK /\ SensorInv(z)
  BY DEF ControlInv, RegistryInv
<1>2. /\ req'[o].op = op /\ req'[o].sensor = s /\ req'[o].stage = "find"
      /\ req[o].stage = "idle"
      /\ \A other \in Operators \ {o} : req'[other] = req[other]
      /\ overlap' = [overlap EXCEPT ![s] = OverlapWith(op, s)]
      /\ UNCHANGED <<row, activeStreams, interval, cut>>
  BY <1>1 DEF Begin, TypeOK
<1>3. CASE z # s
  <2>1. Frame(z)
    BY <1>1, <1>2, <1>3 DEF Frame, Pending, TypeOK
  <2> QED
    BY <1>1, <2>1, FrameKeeps
<1>4. CASE z = s
  <2>1. /\ \A other \in Operators \ {o} : Pending(other, s)' <=> Pending(other, s)
        /\ Pending(o, s)' /\ ~Pending(o, s)
        /\ overlap'[s] = OverlapWith(op, s)
    BY <1>1, <1>2 DEF Pending, TypeOK
  <2>2. NoDuplicates(s)'
    BY <1>1, <1>2, <1>4, <2>1, OverlapHistory DEF SensorInv, NoDuplicates, Starting
  <2>3. Serial(s)'
    BY <1>1, <1>2, <1>4, <2>1, OverlapHistory
    DEF SensorInv, Serial, OnCourse, Quiet, Streaming, Live
  <2>4. Attended(s)'
    <3>1. overlap'[s] = "none" => overlap[s] = "none" /\ \A x \in Operators : ~Resumes(x, s)
      BY <1>1, <2>1, OverlapHistory DEF Resumes, Quiet
    <3>2. Attended(s) /\ row' = row /\ cut' = cut /\ activeStreams' = activeStreams
      BY <1>1, <1>2, <1>4 DEF SensorInv
    <3> QED
      BY <3>1, <3>2 DEF Attended, Streaming, Live
  <2> QED
    BY <1>4, <2>2, <2>3, <2>4 DEF SensorInv
<1> QED
  BY <1>3, <1>4

(* The step of a request in flight, seen from the other sensors.           *)
LEMMA OtherSensors ==
    ASSUME ControlInv, NEW o \in Operators, NEW z \in Sensors, req[o].sensor # z,
           Found(o) \/ Proceed(o) \/ Commit(o) \/ Arm(o) \/ Finish(o) \/ Abort(o)
    PROVE  SensorInv(z)'
<1> USE DEF control, history
<1> DEFINE s == req[o].sensor
<1>1. RegistryInv /\ TypeOK /\ SensorInv(z)
  BY DEF ControlInv, RegistryInv
<1>2. s \in Sensors /\ req[o].stage # "idle" /\ req[o] \in Request \ {IdleRequest}
  BY <1>1, BusyRequest DEF Found, Proceed, Commit, Arm, Finish, Abort
<1>3. req'[o].sensor \in {s, NoSensor}
  BY <1>1, <1>2 DEF Found, Proceed, Commit, AfterWrite, Arm, Finish, Abort, IdleRequest,
                    TypeOK, Request
<1>4. \A other \in Operators : req'[other] = req[other] \/ (~Pending(other, z) /\ ~Pending(other, z)')
  BY <1>1, <1>3 DEF Pending, TypeOK, Found, Proceed, Commit, Arm, Finish, Abort
<1>5. /\ activeStreams'[z] = activeStreams[z]
      /\ \A t \in Timers : interval'[t] = z <=> interval[t] = z
  <2>1. CASE Proceed(o)
    BY <1>1, <1>2, <2>1, StopFrame DEF Proceed
  <2>2. CASE Arm(o)
    <3>1. req[o].timer \in Timers /\ interval[req[o].timer] = NoSensor
      BY <1>1, <2>2 DEF Arm, RegistryInv, RequestShape, HandlesFresh
    <3> QED
      BY <1>1, <2>2, <3>1 DEF Arm, TypeOK
  <2> QED
    BY <2>1, <2>2 DEF Found, Commit, Finish, Abort
<1>6. row'[z] = row[z] /\ overlap'[z] = overlap[z] /\ cut'[z] = cut[z]
  BY <1>1 DEF TypeOK, Found, Proceed, Commit, Arm, Finish, Abort
<1>7. Frame(z)
  BY <1>4, <1>5, <1>6 DEF Frame
<1> QED
  BY <1>1, <1>7, FrameKeeps

(* ... and from its own, one lemma per step that changes control state.    *)
LEMMA FoundKeeps ==
    ASSUME ControlInv, NEW o \in Operators, NEW s \in Sensors, req[o].sensor = s,
           Found(o)
    PROVE  SensorInv(s)'
<1> USE DEF control, history
<1>1. TypeOK /\ s \in Sensors /\ SensorInv(s) /\ req[o] \in Request \ {IdleRequest}
  BY BusyRequest DEF ControlInv, RegistryInv, Found
<1>2. /\ req'[o].op = req[o].op /\ req'[o].sensor = s /\ req'[o].stage = "found"
      /\ req'[o].streaming = row[s].active /\ req[o].stage = "find"
      /\ \A other \in Operators \ {o} : req'[other] = req[other]
      /\ UNCHANGED <<row, activeStreams, interval, overlap, cut>>
  BY <1>1 DEF Found, TypeOK, Request
<1>3. \A x \in Operators : Pending(x, s)' <=> Pending(x, s)
  BY <1>2 DEF Pending
<1>4. NoDuplicates(s)'
  BY <1>1, <1>2, <1>3 DEF SensorInv, NoDuplicates, Starting
<1>5. Serial(s)'
  BY <1>1, <1>2, <1>3 DEF SensorInv, Serial, OnCourse, StopsStream, Streaming, Live
<1>6. Attended(s)'
  BY <1>1, <1>2, <1>3 DEF SensorInv, Attended, Resumes, Streaming, Live
<1> QED
  BY <1>4, <1>5, <1>6 DEF SensorInv

(* The code between look-up and UPDATE stops the stream only while its     *)
(* request is the one that will end it.                                    *)
LEMMA ProceedKeeps ==
    ASSUME ControlInv, NEW o \in Operators, NEW s \in Sensors, req[o].sensor = s,
           Proceed(o)
    PROVE  SensorInv(s)'
<1> USE DEF control, history
<1>1. /\ RegistryInv /\ TypeOK /\ s \in Sensors /\ SensorInv(s)
      /\ req[o] \in Request \ {IdleRequest}
  BY BusyRequest DEF ControlInv, RegistryInv, Proceed
<1>2. /\ req'[o].op = req[o].op /\ req'[o].sensor = s /\ req'[o].stage = "write"
      /\ req'[o].streaming = req[o].streaming /\ req[o].stage = "found"
      /\ \A other \in Operators \ {o} : req'[other] = req[other]
      /\ UNCHANGED <<row, overlap, cut>>
  BY <1>1 DEF Proceed, TypeOK, Request
<1>3. \A x \in Operators : Pending(x, s)' <=> Pending(x, s)
  BY <1>2 DEF Pending
<1>4. /\ activeStreams'[s] \in {activeStreams[s], NoTimer}
      /\ StopsStream(o) => activeStreams'[s] = NoTimer
      /\ \A t \in Timers : interval'[t] = s =>
            interval[t] = s /\ (activeStreams'[s] = activeStreams[s] \/ activeStreams[s] # t)
  BY <1>1, StopSound DEF Proceed
<1>5. NoDuplicates(s)'
  BY <1>1, <1>2, <1>3, <1>4 DEF SensorInv, NoDuplicates, Starting
<1>6. Serial(s)'
  BY <1>1, <1>2, <1>3, <1>4 DEF SensorInv, Serial, OnCourse, StopsStream, Streaming, Live
<1>7. Attended(s)'
  <2>1. \A x \in Operators : Resumes(x, s) => Resumes(x, s)'
    BY <1>2, <1>3 DEF Resumes
  <2>2. activeStreams'[s] # activeStreams[s] => Resumes(o, s)'
    BY <1>1, <1>2, <1>3 DEF Resumes, Proceed, StopsStream, Pending
  <2> QED
    BY <1>1, <1>2, <2>1, <2>2 DEF SensorInv, Attended, Streaming, Live
<1> QED
  BY <1>5, <1>6, <1>7 DEF SensorInv

(* A request alone on its sensor has stopped the stream when it commits,   *)
(* unless it is a clearOverride.                                           *)
LEMMA CommitAlone ==
    ASSUME ControlInv, NEW o \in Operators, NEW s \in Sensors, req[o].sensor = s,
           req[o].stage = "write", overlap[s] = "none"
    PROVE  /\ \A x \in Operators \ {o} : ~Pending(x, s)
           /\ activeStreams[s] # NoTimer => req[o].op = "clear"
<1> DEFINE op == req[o].op
<1>1. /\ SensorInv(s) /\ op \in Ops /\ Pending(o, s)
  BY BusyRequest DEF ControlInv, RegistryInv, Pending
<1>2. \A x \in Operators \ {o} : ~Pending(x, s)
  BY <1>1 DEF SensorInv, Serial
<1>3. op \in {"stop", "remove"} => activeStreams[s] = NoTimer
  BY <1>1 DEF SensorInv, Serial, OnCourse, StopsStream
<1>4. op = "override" => activeStreams[s] = NoTimer
  <2>1. CASE req[o].streaming
    BY <1>1, <2>1 DEF SensorInv, Serial, OnCourse, StopsStream
  <2>2. CASE ~req[o].streaming
    BY <1>1, <2>2 DEF SensorInv, Serial, OnCourse, Streaming
  <2> QED
    BY <2>1, <2>2
<1>5. op = "start" => activeStreams[s] = NoTimer
  BY <1>1 DEF SensorInv, NoDuplicates, Starting
<1> QED
  BY <1>1, <1>2, <1>3, <1>4, <1>5 DEF Ops

(* The UPDATE of a request changes who feeds the sensor after the interval *)
(* has gone, or before it comes.                                           *)
LEMMA CommitKeeps ==
    ASSUME ControlInv, NEW o \in Operators, NEW s \in Sensors, req[o].sensor = s,
           Commit(o)
    PROVE  SensorInv(s)'
<1> USE DEF control, history
<1> DEFINE op == req[o].op
<1>1. /\ RegistryInv /\ TypeOK /\ s \in Sensors /\ SensorInv(s)
      /\ req[o] \in Request \ {IdleRequest} /\ op \in Ops
  BY BusyRequest DEF ControlInv, RegistryInv, Commit
<1>2. /\ req[o].stage = "write" /\ Live(s) /\ Pending(o, s)
      /\ \A other \in Operators \ {o} : req'[other] = req[other]
      /\ row'[s] = Updated(row[s], op)
      /\ cut'[s] = (cut[s] /\ op = "clear")
      /\ UNCHANGED <<activeStreams, interval, overlap>>
  BY <1>1 DEF Commit, TypeOK, Pending
<1>3. \/ /\ op = "start" /\ Starting(o, s)' /\ Starting(o, s) /\ req'[o].stage = "wrote"
         /\ req'[o].op = "start"
      \/ op # "start" /\ ~Pending(o, s)'
  BY <1>1, <1>2 DEF Commit, AfterWrite, TypeOK, Request, Pending, Starting, IdleRequest
<1>4. NoDuplicates(s)'
  BY <1>1, <1>2, <1>3 DEF SensorInv, NoDuplicates, Starting, Pending
<1>5. /\ op = "start" => /\ row'[s].active /\ row'[s].mode = "STREAM"
                         /\ row'[s].status = row[s].status
      /\ op = "clear" => row'[s].active = row[s].active /\ row'[s].status = row[s].status
      /\ op \in {"stop", "override"} => ~row'[s].active
      /\ op = "remove" => row'[s].status = "deleted"
  BY <1>1, <1>2 DEF Updated, TypeOK, Row, NoRow, Live
<1>6. ASSUME overlap[s] = "none"
      PROVE  /\ \A x \in Operators \ {o} : ~Pending(x, s) /\ ~Pending(x, s)'
             /\ activeStreams[s] # NoTimer => op = "clear"
  BY <1>2, <1>6, CommitAlone DEF Pending
<1>7. Serial(s)'
  <2>1. SUFFICES ASSUME overlap[s] = "none"
                 PROVE  /\ \A o1, o2 \in Operators : Pending(o1, s)' /\ Pending(o2, s)' => o1 = o2
                        /\ \A x \in Operators : Pending(x, s)' => OnCourse(x, s)'
                        /\ activeStreams[s] # NoTimer => Streaming(s)'
    BY <1>2 DEF Serial
  <2>2. activeStreams[s] # NoTimer => Streaming(s)'
    BY <1>1, <1>2, <1>5, <1>6, <2>1 DEF SensorInv, Serial, Streaming, Live
  <2>3. Pending(o, s)' => OnCourse(o, s)'
    BY <1>2, <1>3, <1>5 DEF OnCourse, StopsStream, Streaming, Live
  <2> QED
    BY <1>6, <2>1, <2>2, <2>3
<1>8. Attended(s)'
  <2>1. SUFFICES ASSUME overlap[s] = "none", ~cut'[s], Streaming(s)', activeStreams[s] = NoTimer
                 PROVE  \E x \in Operators : Resumes(x, s)'
    BY <1>2 DEF Attended
  <2>2. op \in {"start", "clear"}
    BY <1>1, <1>5, <2>1 DEF Ops, Streaming, Live
  <2>3. CASE op = "start"
    BY <1>3, <2>3 DEF Resumes, Starting
  <2>4. CASE op = "clear"
    <3>1. ~cut[s] /\ Streaming(s)
      BY <1>1, <1>2, <1>5, <2>1, <2>4 DEF Streaming, Live
    <3>2. PICK x \in Operators : Resumes(x, s)
      BY <1>1, <2>1, <3>1 DEF SensorInv, Attended
    <3>3. x = o
      BY <1>6, <2>1, <3>2 DEF Resumes
    <3> QED
      BY <2>4, <3>2, <3>3 DEF Resumes
  <2> QED
    BY <2>2, <2>3, <2>4
<1> QED
  BY <1>4, <1>7, <1>8 DEF SensorInv

(* A start that resumes after its UPDATE runs the one interval the Map     *)
(* then holds.                                                             *)
LEMMA ArmKeeps ==
    ASSUME ControlInv, NEW o \in Operators, NEW s \in Sensors, req[o].sensor = s,
           Arm(o)
    PROVE  SensorInv(s)'
<1> USE DEF control, history
<1> DEFINE t == req[o].timer
<1>1. /\ RegistryInv /\ TypeOK /\ s \in Sensors /\ SensorInv(s)
      /\ req[o].op = "start" /\ t \in Timers /\ interval[t] = NoSensor
  BY BusyRequest DEF ControlInv, RegistryInv, RequestShape, HandlesFresh, Arm
<1>2. /\ req[o].stage = "wrote" /\ Starting(o, s) /\ ~Pending(o, s)'
      /\ \A other \in Operators \ {o} : req'[other] = req[other]
      /\ activeStreams'[s] = t /\ t # NoTimer
      /\ \A u \in Timers \ {t} : interval'[u] = interval[u]
      /\ UNCHANGED <<row, overlap, cut>>
  BY <1>1 DEF Arm, TypeOK, Pending, Starting, IdleRequest
<1>3. \A x \in Operators \ {o} : Pending(x, s)' <=> Pending(x, s)
  BY <1>2 DEF Pending
<1>4. NoDuplicates(s)'
  <2>1. ASSUME overlap[s] # "starts", NEW u \in Timers \ {t}
        PROVE  interval[u] # s
    BY <1>1, <1>2, <2>1 DEF SensorInv, NoDuplicates, TypeOK
  <2>2. ASSUME overlap[s] # "starts", NEW x \in Operators PROVE ~Starting(x, s)'
    BY <1>1, <1>2, <1>3, <2>2 DEF SensorInv, NoDuplicates, Starting
  <2> QED
    BY <1>2, <2>1, <2>2 DEF NoDuplicates
<1>5. Serial(s)'
  <2>1. ASSUME overlap[s] = "none"
        PROVE  Streaming(s)' /\ \A x \in Operators : ~Pending(x, s)'
    BY <1>1, <1>2, <1>3, <2>1 DEF SensorInv, Serial, OnCourse, Starting, Streaming, Live
  <2> QED
    BY <1>2, <2>1 DEF Serial
<1>6. Attended(s)'
  BY <1>2 DEF Attended
<1> QED
  BY <1>4, <1>5, <1>6 DEF SensorInv

(* A request that ends, well or not, leaves a streaming row without        *)
(* interval only behind a mark in cut.                                     *)
LEMMA EndKeeps ==
    ASSUME ControlInv, NEW o \in Operators, NEW s \in Sensors, req[o].sensor = s,
           Finish(o) \/ Abort(o)
    PROVE  SensorInv(s)'
<1> USE DEF control, history
<1>1. TypeOK /\ SensorInv(s) /\ req[o].stage # "idle"
  BY BusyRequest DEF ControlInv, RegistryInv, Finish, Abort
<1>2. /\ ~Pending(o, s)'
      /\ \A other \in Operators \ {o} : req'[other] = req[other]
      /\ UNCHANGED <<row, activeStreams, interval, overlap>>
      /\ cut[s] => cut'[s]
      /\ Resumes(o, s) => cut'[s]
  <2>1. /\ ~Pending(o, s)'
        /\ \A other \in Operators \ {o} : req'[other] = req[other]
    BY <1>1 DEF Finish, Abort, TypeOK, Pending, IdleRequest
  <2>2. CASE Finish(o)
    BY <2>1, <2>2 DEF Finish, Resumes, Pending
  <2>3. CASE Abort(o)
    BY <1>1, <2>1, <2>3 DEF Abort, TypeOK, Resumes, Stopped
  <2> QED
    BY <2>2, <2>3
<1>3. \A x \in Operators \ {o} : Pending(x, s)' <=> Pending(x, s)
  BY <1>2 DEF Pending
<1>4. NoDuplicates(s)'
  BY <1>1, <1>2, <1>3 DEF SensorInv, NoDuplicates, Starting
<1>5. Serial(s)'
  BY <1>1, <1>2, <1>3 DEF SensorInv, Serial, OnCourse, StopsStream, Streaming, Live
<1>6. Attended(s)'
  <2>1. \A x \in Operators : Resumes(x, s) => cut'[s] \/ Resumes(x, s)'
    BY <1>2, <1>3 DEF Resumes
  <2> QED
    BY <1>1, <1>2, <2>1 DEF SensorInv, Attended, Streaming, Live
<1> QED
  BY <1>4, <1>5, <1>6 DEF SensorInv

(* A new row claims no stream.                                             *)
LEMMA CreateKeeps ==
    ASSUME ControlInv, NEW s \in Sensors, Create(s), NEW z \in Sensors
    PROVE  SensorInv(z)'
<1> USE DEF control, history
<1>1. TypeOK /\ SensorInv(z)
  BY DEF ControlInv, RegistryInv
<1>2. /\ row'[z] = row[z] \/ (~Live(z) /\ row[z].active = FALSE /\ row'[z].active = FALSE)
      /\ UNCHANGED <<activeStreams, interval, req, overlap, cut>>
  BY <1>1 DEF Create, TypeOK, Live, NewRow, Row, NoRow
<1>3. \A x \in Operators : /\ Pending(x, z)' <=> Pending(x, z)
                           /\ Resumes(x, z)' <=> Resumes(x, z)
  BY <1>2 DEF Pending, Resumes
<1>4. NoDuplicates(z)'
  BY <1>1, <1>2, <1>3 DEF SensorInv, NoDuplicates, Starting
<1>5. Serial(z)'
  <2>1. Streaming(z) => Streaming(z)' /\ row'[z] = row[z]
    BY <1>2 DEF Streaming, Live
  <2>2. row'[z].active = row[z].active
    <3>1. row[z].active \in BOOLEAN /\ (row'[z] = row[z] \/ row'[z].active \in BOOLEAN)
      BY <1>1, <1>2, RowActive DEF TypeOK
    <3> QED
      BY <1>2, <3>1
  <2>3. ASSUME NEW x \in Operators, OnCourse(x, z) PROVE OnCourse(x, z)'
    BY <1>2, <2>1, <2>2, <2>3 DEF OnCourse, StopsStream
  <2> QED
    BY <1>1, <1>2, <1>3, <2>1, <2>3 DEF SensorInv, Serial
<1>6. Attended(z)'
  BY <1>1, <1>2, <1>3 DEF SensorInv, Attended, Streaming, Live
<1> QED
  BY <1>4, <1>5, <1>6 DEF SensorInv

(* Each action keeps the inductive invariant.                              *)
LEMMA ControlStep == ControlInv /\ [Next]_vars => ControlInv'
<1> SUFFICES ASSUME ControlInv, [Next]_vars, NEW z \in Sensors PROVE SensorInv(z)'
  BY RegistryStep DEF ControlInv
<1>0. TypeOK /\ SensorInv(z)
  BY DEF ControlInv, RegistryInv
<1>1. ASSUME NEW s \in Sensors, Create(s) PROVE SensorInv(z)'
  BY <1>1, CreateKeeps
<1>2. ASSUME NEW o \in Operators, NEW s \in Sensors, BeginStart(o, s) PROVE SensorInv(z)'
  BY <1>2, BeginStartKeeps
<1>3. ASSUME NEW o \in Operators, NEW s \in Sensors, NEW op \in Ops \ {"start"}, Begin(o, s, op)
      PROVE  SensorInv(z)'
  BY <1>3, BeginKeeps
<1>4. ASSUME NEW o \in Operators,
             Found(o) \/ Proceed(o) \/ Commit(o) \/ Arm(o) \/ Finish(o) \/ Abort(o)
      PROVE  SensorInv(z)'
  <2>1. CASE req[o].sensor # z
    BY <1>4, <2>1, OtherSensors
  <2>2. CASE req[o].sensor = z
    BY <1>4, <2>2, FoundKeeps, ProceedKeeps, CommitKeeps, ArmKeeps, EndKeeps
  <2> QED
    BY <2>1, <2>2
<1>5. CASE UNCHANGED <<row, activeStreams, interval, req, crashes, overlap, cut>>
  <2>1. Frame(z)
    BY <1>5 DEF Frame
  <2> QED
    BY <1>0, <2>1, FrameKeeps
<1>6. CASE Restart
  <2>1. /\ activeStreams'[z] = NoTimer /\ cut'[z] = TRUE
        /\ \A t \in Timers : interval'[t] = NoSensor
        /\ \A o \in Operators : ~Pending(o, z)'
    BY <1>6 DEF Restart, Pending, IdleRequest
  <2> QED
    BY <2>1 DEF SensorInv, NoDuplicates, Starting, Serial, Attended
<1>7. CASE UNCHANGED vars
  BY <1>5, <1>7 DEF vars
<1> QED
  BY <1>1, <1>2, <1>3, <1>4, <1>5, <1>6, <1>7, NextCases

(* It holds before the first sensor is created.                            *)
LEMMA ControlInit == Init => ControlInv
<1> SUFFICES ASSUME Init PROVE ControlInv
  OBVIOUS
<1>1. RegistryInv
  BY DEF Init, RegistryInv, TypeOK, Row, NoRow, Request, Point, Modes, Overlaps, RegistrySound,
         RequestShape, HandlesFresh, IdleRequest
<1>2. ASSUME NEW s \in Sensors PROVE SensorInv(s)
  <2>1. /\ activeStreams[s] = NoTimer /\ row[s].active = FALSE
        /\ \A t \in Timers : interval[t] = NoSensor
        /\ \A o \in Operators : ~Pending(o, s)
    BY DEF Init, NoRow, IdleRequest, Pending
  <2> QED
    BY <2>1 DEF SensorInv, NoDuplicates, Starting, Serial, Attended, Streaming
<1> QED
  BY <1>1, <1>2 DEF ControlInv

(* It holds in every reachable state.                                      *)
LEMMA ControlInvariant == Spec => []ControlInv
  BY ControlInit, ControlStep, PTL DEF Spec

(* As long as no start begins while another is on its way, every interval  *)
(* that runs for a sensor is the one the Map holds, so that there is at    *)
(* most one, whatever stops, overrides and removals overlap the starts.    *)
THEOREM NoDuplicatesCorrect == Spec => []NoDuplicateStreams
<1>1. ControlInv => NoDuplicateStreams
  BY DEF ControlInv, SensorInv, NoDuplicates, NoDuplicateStreams
<1> QED
  BY <1>1, ControlInvariant, PTL

(* With control requests one after the other an interval runs only for a   *)
(* row that exists and says streamActive.                                  *)
THEOREM TimerRowCorrect == Spec => []TimerHasActiveRow
<1>1. ControlInv => TimerHasActiveRow
  BY DEF ControlInv, SensorInv, Serial, TimerHasActiveRow
<1> QED
  BY <1>1, ControlInvariant, PTL

(* ... and, restarts and failures apart, a row that says streamActive has  *)
(* its interval whenever no request is changing the sensor.                *)
THEOREM RowTimerCorrect == Spec => []StreamingRowHasTimer
<1>1. ControlInv => StreamingRowHasTimer
  BY DEF ControlInv, SensorInv, Attended, Resumes, Quiet, StreamingRowHasTimer
<1> QED
  BY <1>1, ControlInvariant, PTL

-----------------------------------------------------------------------------
(***************************************************************************)
(* The columns of a row agree after every UPDATE, in any order.            *)
(***************************************************************************)
Agrees(r) == /\ r.mode = "STREAM" => r.active /\ ~r.manual
             /\ r.mode = "MANUAL" => r.manual /\ ~r.active
             /\ r.mode = "REAL" => ~r.manual

(* Each UPDATE of a live row leaves its columns in agreement.              *)
LEMMA UpdateAgrees ==
    ASSUME NEW r \in Row, r.status = "live", Agrees(r), NEW op
    PROVE  Agrees(Updated(r, op))
<1>1. r \in [status : {"live", "deleted"}, mode : Modes, manual : BOOLEAN, active : BOOLEAN]
  BY DEF Row, NoRow
<1> QED
  BY <1>1 DEF Agrees, Updated, Modes

(* Mode, manualValue and streamActive of a row agree in every reachable    *)
(* state, whatever UPDATEs of concurrent requests hit it in whatever       *)
(* order.                                                                  *)
THEOREM RowConsistentCorrect == Spec => []RowConsistent
<1>1. Init => RowConsistent
  <2>1. Agrees(NoRow)
    BY DEF Agrees, NoRow
  <2> QED
    BY <2>1 DEF Init, RowConsistent, Agrees
<1>2. TypeOK /\ RowConsistent /\ [Next]_vars => RowConsistent'
  <2> SUFFICES ASSUME TypeOK, RowConsistent, [Next]_vars, NEW z \in Sensors
               PROVE  Agrees(row'[z])
    BY DEF RowConsistent, Agrees
  <2> USE DEF control, history
  <2>0. Agrees(row[z]) /\ row \in [Sensors -> Row]
    BY DEF TypeOK, RowConsistent, Agrees
  <2>1. ASSUME NEW s \in Sensors, Create(s) PROVE Agrees(row'[z])
    BY <2>0, <2>1 DEF Create, Agrees, NewRow
  <2>2. ASSUME NEW o \in Operators, Commit(o) PROVE Agrees(row'[z])
    BY <2>0, <2>2, UpdateAgrees DEF Commit, Live
  <2>3. CASE UNCHANGED row
    BY <2>0, <2>3
  <2> QED
    BY <2>1, <2>2, <2>3, NextCases
    DEF BeginStart, Begin, Found, Proceed, Arm, Finish, Abort, Restart, vars
<1> QED
  BY <1>1, <1>2, TypeCorrect, PTL DEF Spec

-----------------------------------------------------------------------------
(***************************************************************************)
(* Refinement.  With at most one control request in flight no request      *)
(* meets another, and the two services implement StreamLifecycle.          *)
(***************************************************************************)
OneOperator == \A o1, o2 \in Operators : o1 = o2

Alone == ControlInv /\ \A s \in Sensors : overlap[s] = "none"

(* With one request at a time no two ever overlap.                         *)
LEMMA AloneStep == OneOperator /\ Alone /\ [Next]_vars => Alone'
<1> SUFFICES ASSUME OneOperator, Alone, [Next]_vars, NEW z \in Sensors
             PROVE  overlap'[z] = "none"
  BY ControlStep DEF Alone
<1> USE DEF control, history
<1>0. TypeOK /\ overlap[z] = "none"
  BY DEF Alone, ControlInv, RegistryInv
<1>1. ASSUME NEW o \in Operators, NEW s \in Sensors, NEW op, req[o].stage = "idle"
      PROVE  OverlapWith(op, s) = overlap[s]
  <2>1. \A x \in Operators : ~Pending(x, s)
    BY <1>1 DEF OneOperator, Pending
  <2> QED
    BY <2>1 DEF OverlapWith, Quiet
<1>2. ASSUME NEW o \in Operators, NEW s \in Sensors, BeginStart(o, s) PROVE overlap'[z] = "none"
  <2>1. OverlapWith("start", s) = overlap[s] /\ overlap' = [overlap EXCEPT ![s] = OverlapWith("start", s)]
    BY <1>1, <1>2 DEF BeginStart
  <2> QED
    BY <1>0, <2>1 DEF Alone, TypeOK
<1>3. ASSUME NEW o \in Operators, NEW s \in Sensors, NEW op \in Ops \ {"start"}, Begin(o, s, op)
      PROVE  overlap'[z] = "none"
  <2>1. OverlapWith(op, s) = overlap[s] /\ overlap' = [overlap EXCEPT ![s] = OverlapWith(op, s)]
    BY <1>1, <1>3 DEF Begin
  <2> QED
    BY <1>0, <2>1 DEF Alone, TypeOK
<1>4. CASE UNCHANGED overlap
  BY <1>0, <1>4
<1>5. CASE Restart
  BY <1>5 DEF Restart
<1> QED
  BY <1>2, <1>3, <1>4, <1>5, NextCases
  DEF Create, Found, Proceed, Commit, Arm, Finish, Abort, vars

(* Then an interval runs for s exactly when the Map holds one.             *)
MapTellsAll == \A s \in Sensors : Running(s) <=> activeStreams[s] # NoTimer

(* With one request at a time the Map tells which sensors have an          *)
(* interval.                                                               *)
LEMMA RunningIsRegistered == Alone => MapTellsAll
<1> SUFFICES ASSUME Alone, NEW s \in Sensors
             PROVE  Running(s) <=> activeStreams[s] # NoTimer
  BY DEF MapTellsAll
<1>1. TypeOK /\ RegistrySound /\ NoDuplicates(s) /\ overlap[s] = "none"
  BY DEF Alone, ControlInv, RegistryInv, SensorInv
<1>2. activeStreams[s] # NoTimer => activeStreams[s] \in Timers /\ interval[activeStreams[s]] = s
  BY <1>1 DEF TypeOK, RegistrySound
<1>3. \A t \in Timers : interval[t] = s => activeStreams[s] = t
  BY <1>1 DEF NoDuplicates
<1> QED
  BY <1>2, <1>3 DEF Running

(* What a step does to one sensor's mode and phase, by the changes it      *)
(* makes to the row and to the Map.                                        *)
LEMMA ViewOf ==
    ASSUME Alone, NEW s \in Sensors
    PROVE  /\ activeStreams[s] # NoTimer => PhaseOf(s) = "running" /\ Streaming(s)
           /\ activeStreams[s] = NoTimer =>
                 PhaseOf(s) = IF Streaming(s) THEN "armed" ELSE "idle"
           /\ ModeOf(s) \in Lifecycle!InService <=> Live(s)
           /\ ModeOf(s) = "NEW" <=> row[s].status = "absent"
           /\ Live(s) => ModeOf(s) = row[s].mode
<1>1. SensorInv(s) /\ overlap[s] = "none" /\ row[s] \in Row
  BY DEF Alone, ControlInv, RegistryInv, TypeOK
<1>2. activeStreams[s] # NoTimer => Streaming(s)
  BY <1>1 DEF SensorInv, Serial
<1>3. row[s].status \in {"absent", "live", "deleted"} /\ (Live(s) => row[s].mode \in Modes)
  BY <1>1 DEF Row, NoRow, Live
<1> QED
  BY <1>2, <1>3, RunningIsRegistered DEF MapTellsAll, PhaseOf, ModeOf, Modes, Live, Lifecycle!InService

(* The same of the next state.                                             *)
LEMMA RunningNext == Alone' => MapTellsAll'
  BY RunningIsRegistered, PTL

(* A step that changes neither its row nor whether the Map holds it leaves *)
(* the abstract state of a sensor alone.                                   *)
LEMMA SameView ==
    ASSUME Alone, Alone', NEW z \in Sensors, row'[z] = row[z],
           activeStreams'[z] = NoTimer <=> activeStreams[z] = NoTimer
    PROVE  ModeOf(z)' = ModeOf(z) /\ PhaseOf(z)' = PhaseOf(z)
<1>1. Streaming(z)' <=> Streaming(z)
  BY DEF Streaming, Live
<1>2. Running(z)' <=> Running(z)
  BY RunningIsRegistered, RunningNext DEF MapTellsAll
<1> QED
  BY <1>1, <1>2 DEF ModeOf, PhaseOf

(* The abstract step, from its effect on one sensor.                       *)
LEMMA MoveOf ==
    ASSUME NEW s \in Sensors, NEW m, NEW p,
           \A z \in Sensors \ {s} : ModeOf(z)' = ModeOf(z) /\ PhaseOf(z)' = PhaseOf(z),
           ModeOf(s)' = m, PhaseOf(s)' = p
    PROVE  Lifecycle!Move(s, m, p)
  BY DEF Lifecycle!Move

(* Nothing moves in the abstract state when no sensor's mode or phase      *)
(* does.                                                                   *)
LEMMA Unmoved ==
    ASSUME \A z \in Sensors : ModeOf(z)' = ModeOf(z) /\ PhaseOf(z)' = PhaseOf(z)
    PROVE  UNCHANGED Lifecycle!svars
  BY DEF Lifecycle!svars

(* The phase, after a step, of a sensor the Map no longer holds.           *)
LEMMA ViewNext ==
    ASSUME Alone', NEW s \in Sensors, activeStreams'[s] = NoTimer
    PROVE  PhaseOf(s)' = IF Streaming(s)' THEN "armed" ELSE "idle"
<1>1. ~Running(s)'
  BY RunningNext DEF MapTellsAll
<1> QED
  BY <1>1 DEF PhaseOf

(* A request that stops the stream of s takes it from running to armed,    *)
(* or changes nothing there.                                               *)
LEMMA StopRefines ==
    ASSUME Alone, Alone', NEW s \in Sensors, StopStreamInternal(s), UNCHANGED row
    PROVE  [Lifecycle!Next]_(Lifecycle!svars)
<1>1. RegistryInv /\ TypeOK
  BY DEF Alone, ControlInv, RegistryInv
<1>2. /\ activeStreams'[s] = NoTimer
      /\ \A z \in Sensors \ {s} : activeStreams'[z] = activeStreams[z]
  BY <1>1, StopSound
<1>3. \A z \in Sensors \ {s} : ModeOf(z)' = ModeOf(z) /\ PhaseOf(z)' = PhaseOf(z)
  BY <1>2, SameView
<1>4. CASE activeStreams[s] = NoTimer
  BY <1>2, <1>3, <1>4, SameView, Unmoved
<1>5. CASE activeStreams[s] # NoTimer
  <2>1. PhaseOf(s) = "running" /\ Streaming(s)
    BY <1>5, ViewOf
  <2>2. PhaseOf(s)' = "armed" /\ ModeOf(s)' = ModeOf(s)
    BY <1>2, <2>1, ViewNext DEF Streaming, Live, ModeOf
  <2>3. Lifecycle!Move(s, ModeOf(s), "armed")
    BY <1>3, <2>2, MoveOf
  <2>4. Lifecycle!Halt(s)
    BY <2>1, <2>3 DEF Lifecycle!Halt
  <2> QED
    BY <2>4 DEF Lifecycle!Next
<1> QED
  BY <1>4, <1>5

(* create is the abstract Create.                                          *)
LEMMA CreateRefines ==
    ASSUME Alone, Alone', NEW s \in Sensors, Create(s)
    PROVE  Lifecycle!Create(s)
<1> USE DEF control, history
<1>1. TypeOK /\ row'[s] = NewRow /\ row[s].status = "absent" /\ UNCHANGED activeStreams
      /\ \A z \in Sensors \ {s} : row'[z] = row[z]
  BY DEF Alone, ControlInv, RegistryInv, TypeOK, Create
<1>2. \A z \in Sensors \ {s} : ModeOf(z)' = ModeOf(z) /\ PhaseOf(z)' = PhaseOf(z)
  BY <1>1, SameView
<1>3. ModeOf(s) = "NEW" /\ activeStreams[s] = NoTimer
  BY <1>1, ViewOf DEF ModeOf, Streaming, Live
<1>4. ModeOf(s)' = "REAL" /\ Streaming(s)' = FALSE
  BY <1>1 DEF ModeOf, Streaming, NewRow
<1>5. PhaseOf(s)' = "idle"
  BY <1>1, <1>3, <1>4, ViewNext
<1>6. Lifecycle!Move(s, "REAL", "idle")
  BY <1>2, <1>4, <1>5, MoveOf
<1> QED
  BY <1>3, <1>6 DEF Lifecycle!Create

(* The UPDATE or DELETE of each request is one abstract step.              *)
LEMMA CommitRefines ==
    ASSUME Alone, Alone', NEW o \in Operators, Commit(o)
    PROVE  Lifecycle!Next
<1> USE DEF control, history
<1> SUFFICES ASSUME NEW s \in Sensors, req[o].sensor = s PROVE Lifecycle!Next
  BY BusyRequest DEF Alone, ControlInv, RegistryInv, Commit
<1> DEFINE op == req[o].op
<1>1. /\ ControlInv /\ TypeOK /\ op \in Ops /\ row[s] \in Row
      /\ overlap[s] = "none"
  BY BusyRequest DEF Alone, ControlInv, RegistryInv, TypeOK, Commit
<1>2. /\ Live(s) /\ row'[s] = Updated(row[s], op) /\ UNCHANGED activeStreams
      /\ \A z \in Sensors \ {s} : row'[z] = row[z]
  BY <1>1 DEF Commit, TypeOK
<1>3. \A z \in Sensors \ {s} : ModeOf(z)' = ModeOf(z) /\ PhaseOf(z)' = PhaseOf(z)
  BY <1>2, SameView
<1>4. activeStreams[s] # NoTimer => op = "clear"
  BY <1>1, CommitAlone DEF Commit
<1>5. ModeOf(s) \in Lifecycle!InService
  BY <1>2, ViewOf
<1>6. row[s] \in [status : {"live", "deleted"}, mode : Modes, manual : BOOLEAN, active : BOOLEAN]
  BY <1>1, <1>2 DEF Row, NoRow, Live
<1>7. CASE op = "clear"
  <2>1. /\ row'[s].mode = "REAL" /\ row'[s].status = "live"
        /\ row'[s].active = row[s].active
    BY <1>2, <1>6, <1>7 DEF Updated, Live
  <2>2. Streaming(s)' <=> Streaming(s)
    BY <1>2, <2>1 DEF Streaming, Live
  <2>3. Running(s)' <=> Running(s)
    BY <1>2, RunningIsRegistered, RunningNext DEF MapTellsAll
  <2>4. PhaseOf(s)' = PhaseOf(s)
    BY <2>2, <2>3 DEF PhaseOf
  <2>5. ModeOf(s)' = "REAL"
    BY <2>1 DEF ModeOf
  <2>6. Lifecycle!Move(s, "REAL", PhaseOf(s))
    BY <1>3, <2>4, <2>5, MoveOf
  <2> QED
    BY <1>5, <2>6 DEF Lifecycle!Clear, Lifecycle!Next
<1>8. CASE op # "clear"
  <2>1. activeStreams[s] = NoTimer /\ activeStreams'[s] = NoTimer /\ PhaseOf(s) # "running"
    BY <1>2, <1>4, <1>8, ViewOf
  <2>2. CASE op = "start"
    <3>1. row'[s].mode = "STREAM" /\ row'[s].status = "live" /\ row'[s].active
      BY <1>2, <1>6, <2>2 DEF Updated, Live
    <3>2. ModeOf(s)' = "STREAM" /\ Streaming(s)'
      BY <3>1 DEF ModeOf, Streaming, Live
    <3>3. Lifecycle!Move(s, "STREAM", "armed")
      BY <1>3, <2>1, <3>2, ViewNext, MoveOf
    <3> QED
      BY <1>5, <2>1, <3>3 DEF Lifecycle!Announce, Lifecycle!Next
  <2>3. CASE op # "start"
    <3>1. \/ /\ row'[s].mode \in {"REAL", "MANUAL"}
             /\ row'[s].status = "live" /\ ~row'[s].active
          \/ row'[s].status = "deleted"
      BY <1>1, <1>2, <1>6, <1>8, <2>3 DEF Updated, Live, Ops
    <3>2. ModeOf(s)' \in {"REAL", "MANUAL", "GONE"} /\ ~Streaming(s)'
      BY <3>1 DEF ModeOf, Streaming, Live
    <3>3. Lifecycle!Move(s, ModeOf(s)', "idle")
      BY <1>3, <2>1, <3>2, ViewNext, MoveOf
    <3> QED
      BY <1>5, <2>1, <3>2, <3>3 DEF Lifecycle!Release, Lifecycle!Next
  <2> QED
    BY <2>2, <2>3
<1> QED
  BY <1>7, <1>8

(* setInterval starts what the row has announced.                          *)
LEMMA ArmRefines ==
    ASSUME Alone, Alone', NEW o \in Operators, Arm(o)
    PROVE  Lifecycle!Next
<1> USE DEF control, history
<1> SUFFICES ASSUME NEW s \in Sensors, req[o].sensor = s PROVE Lifecycle!Next
  BY BusyRequest DEF Alone, ControlInv, RegistryInv, Arm
<1>1. /\ TypeOK /\ SensorInv(s) /\ overlap[s] = "none" /\ Starting(o, s)
      /\ req[o].timer \in Timers
  BY DEF Alone, ControlInv, RegistryInv, RequestShape, Arm, Starting, Pending
<1>2. /\ activeStreams'[s] # NoTimer /\ UNCHANGED row
      /\ \A z \in Sensors \ {s} : activeStreams'[z] = activeStreams[z]
  BY <1>1 DEF Arm, TypeOK
<1>3. \A z \in Sensors \ {s} : ModeOf(z)' = ModeOf(z) /\ PhaseOf(z)' = PhaseOf(z)
  BY <1>2, SameView
<1>4. Streaming(s) /\ row[s].mode = "STREAM" /\ activeStreams[s] = NoTimer
  BY <1>1 DEF SensorInv, Serial, OnCourse, NoDuplicates, Starting, Arm
<1>5. ModeOf(s) = "STREAM" /\ PhaseOf(s) = "armed"
  BY <1>4, ViewOf DEF Streaming
<1>6. ModeOf(s)' = "STREAM" /\ PhaseOf(s)' = "running"
  <2>1. ModeOf(s)' = ModeOf(s)
    BY <1>2 DEF ModeOf
  <2>2. Running(s)'
    BY <1>2, RunningNext DEF MapTellsAll
  <2> QED
    BY <1>5, <2>1, <2>2 DEF PhaseOf
<1>7. Lifecycle!Move(s, "STREAM", "running")
  BY <1>3, <1>6, MoveOf
<1> QED
  BY <1>5, <1>7 DEF Lifecycle!Run, Lifecycle!Next

(* A restart is the abstract Restart, for all sensors at once.             *)
LEMMA RestartRefines ==
    ASSUME Alone, Alone', Restart
    PROVE  Lifecycle!Next
<1>1. \A s \in Sensors : ModeOf(s)' = ModeOf(s) /\ (Streaming(s)' <=> Streaming(s))
  BY DEF Restart, ModeOf, Streaming, Live
<1>2. ASSUME NEW s \in Sensors
      PROVE  PhaseOf(s)' = IF PhaseOf(s) = "running" THEN "armed" ELSE PhaseOf(s)
  <2>1. PhaseOf(s)' = IF Streaming(s) THEN "armed" ELSE "idle"
    BY <1>1, ViewNext DEF Restart
  <2> QED
    BY <2>1, ViewOf
<1>3. Lifecycle!Restart
  BY <1>1, <1>2 DEF Lifecycle!Restart
<1> QED
  BY <1>3 DEF Lifecycle!Next

(* With one control request at a time, every step of the two services is   *)
(* a step of the sensor's life cycle or invisible there: a stream is       *)
(* announced in the row before it runs, and stopped before the row drops   *)
(* it, through failures, rejections and restarts.                          *)
THEOREM LifecycleRefined == OneOperator => (Spec => ImplementsLifecycle)
<1> SUFFICES ASSUME OneOperator PROVE Spec => ImplementsLifecycle
  OBVIOUS
<1>1. Init => Lifecycle!Init
  <2> SUFFICES ASSUME Init, NEW s \in Sensors PROVE ModeOf(s) = "NEW" /\ PhaseOf(s) = "idle"
    BY DEF Lifecycle!Init
  <2> QED
    BY DEF Init, NoRow, ModeOf, PhaseOf, Running, Streaming, Live
<1>2. Init => Alone
  BY ControlInit DEF Alone, Init
<1>3. Alone /\ [Next]_vars => Alone'
  BY AloneStep
<1>4. Alone /\ Alone' /\ [Next]_vars => [Lifecycle!Next]_(Lifecycle!svars)
  <2> SUFFICES ASSUME Alone, Alone', [Next]_vars PROVE [Lifecycle!Next]_(Lifecycle!svars)
    OBVIOUS
  <2> USE DEF control, history
  <2>1. ASSUME NEW s \in Sensors, Create(s) PROVE Lifecycle!Next
    BY <2>1, CreateRefines DEF Lifecycle!Next
  <2>2. ASSUME NEW o \in Operators, NEW s \in Sensors, BeginStart(o, s)
        PROVE  [Lifecycle!Next]_(Lifecycle!svars)
    BY <2>2, StopRefines DEF BeginStart
  <2>3. ASSUME NEW o \in Operators, Proceed(o), StopsStream(o)
        PROVE  [Lifecycle!Next]_(Lifecycle!svars)
    <3>1. req[o].sensor \in Sensors
      BY <2>3, BusyRequest DEF Alone, ControlInv, RegistryInv, Proceed
    <3> QED
      BY <2>3, <3>1, StopRefines DEF Proceed
  <2>4. CASE UNCHANGED <<row, activeStreams>>
    BY <2>4, SameView, Unmoved
  <2>5. ASSUME NEW o \in Operators, Commit(o) \/ Arm(o) PROVE Lifecycle!Next
    BY <2>5, CommitRefines, ArmRefines
  <2>6. CASE Restart
    BY <2>6, RestartRefines
  <2> QED
    BY <2>1, <2>2, <2>3, <2>4, <2>5, <2>6, NextCases
    DEF Begin, Found, Proceed, Finish, Abort, vars
<1> QED
  BY <1>1, <1>2, <1>3, <1>4, PTL DEF Spec, ImplementsLifecycle, Lifecycle!Spec
=============================================================================
