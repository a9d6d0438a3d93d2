--------------------------- MODULE SensorControl ---------------------------
(***************************************************************************)
(* Who feeds a sensor: SensorsService and SensorStreamService.             *)
(*                                                                         *)
(* A sensor has a row in PostgreSQL (its mode REAL, MANUAL or STREAM) and, *)
(* while a simulated stream runs, a JavaScript interval that the Map       *)
(* activeStreams remembers.  Nothing ties the two together: a handler      *)
(* changes the Map between awaits and the row through an UPDATE of its     *)
(* own.  Node runs one callback at a time, so a step here is either the    *)
(* code between two awaits or the database executing one statement.        *)
(*                                                                         *)
(* Left out: names and units, the values themselves, the stream's pattern, *)
(* interval, min and max columns (written by exactly the statements that   *)
(* write streamActive), and what follows the storing of a value: its       *)
(* publication and the threshold check ("tail", "announce").               *)
(***************************************************************************)
EXTENDS Naturals

CONSTANTS
    Sensors,     \* sensor ids
    Timers,      \* bound: handles setInterval may return
    Operators,   \* control requests in flight at the same time
    Writers,     \* bound: data points (ticks, ingestions) in flight at once
    NoSensor,
    NoTimer,
    MaxCrashes   \* bound: restarts of the process

ASSUME ControlAssumption ==
    /\ NoSensor \notin Sensors
    /\ NoTimer \notin Timers
    /\ MaxCrashes \in Nat

VARIABLES
    row,            \* row[s]: the sensor's row
    activeStreams,  \* activeStreams[s]: the interval the Map holds for s
    interval,       \* interval[t]: the sensor a live interval works for
    req,            \* req[o]: the control request o is serving
    point,          \* point[w]: the data point w is carrying
    crashes,
    overlap,        \* history: did control requests on s ever overlap?
    cut             \* history: was s's stream stopped by a crash or a failure?

control == <<row, activeStreams, interval>>
history == <<overlap, cut>>
vars == <<row, activeStreams, interval, req, point, crashes, overlap, cut>>

-----------------------------------------------------------------------------
Modes == {"REAL", "MANUAL", "STREAM"}
Ops == {"start", "stop", "override", "clear", "remove"}

(* Mutation: the schema lost the default of mode.                          *)
NewRowNoMode == [status |-> "live", mode |-> "UNSET", manual |-> FALSE, active |-> FALSE]

NewRow == [status |-> "live", mode |-> "REAL", manual |-> FALSE, active |-> FALSE]
NoRow == [status |-> "absent", mode |-> "REAL", manual |-> FALSE, active |-> FALSE]
Row == {NoRow} \cup [status : {"live", "deleted"},
                     mode   : Modes,
                     manual : BOOLEAN,     \* manualValue is not null
                     active : BOOLEAN]     \* streamActive

IdleRequest == [op |-> "none", sensor |-> NoSensor, stage |-> "idle",
                streaming |-> FALSE, timer |-> NoTimer]
Request == {IdleRequest}
           \cup [op        : Ops,
                 sensor    : Sensors,
                 stage     : {"find", "found", "write", "wrote", "tail"},
                 streaming : BOOLEAN,               \* streamActive, as the read saw it
                 timer     : Timers \cup {NoTimer}] \* the handle a start will get

IdlePoint == [source |-> "none", sensor |-> NoSensor, stage |-> "idle"]
Point == {IdlePoint}
         \cup [source : {"stream", "real"},
               sensor : Sensors,
               stage  : {"find", "insert", "announce"}]

(* History values: a start met another start, or only other requests met.  *)
Overlaps == {"none", "controls", "starts"}

TypeOK ==
    /\ row \in [Sensors -> Row]
    /\ activeStreams \in [Sensors -> Timers \cup {NoTimer}]
    /\ interval \in [Timers -> Sensors \cup {NoSensor}]
    /\ req \in [Operators -> Request]
    /\ point \in [Writers -> Point]
    /\ crashes \in 0..MaxCrashes
    /\ overlap \in [Sensors -> Overlaps]
    /\ cut \in [Sensors -> BOOLEAN]

Init ==
    /\ row = [s \in Sensors |-> NoRow]
    /\ activeStreams = [s \in Sensors |-> NoTimer]
    /\ interval = [t \in Timers |-> NoSensor]
    /\ req = [o \in Operators |-> IdleRequest]
    /\ point = [w \in Writers |-> IdlePoint]
    /\ crashes = 0
    /\ overlap = [s \in Sensors |-> "none"]
    /\ cut = [s \in Sensors |-> FALSE]

-----------------------------------------------------------------------------
Live(s) == row[s].status = "live"
Streaming(s) == Live(s) /\ row[s].active
(* o serves a request on s that has not finished changing the control state. *)
Pending(o, s) == req[o].sensor = s /\ req[o].stage \in {"find", "found", "write", "wrote"}
Quiet(s) == \A o \in Operators : ~Pending(o, s)
Running(s) == \E t \in Timers : interval[t] = s

(* Mutation: clearInterval without activeStreams.delete.                   *)
StopWithoutDelete(s) ==
    /\ interval' = [t \in Timers |-> IF t = activeStreams[s] THEN NoSensor
                                                             ELSE interval[t]]
    /\ UNCHANGED activeStreams

(* stopStreamInternal(s): clear the interval the Map holds, forget it.     *)
StopStreamInternal(s) ==
    /\ activeStreams' = [activeStreams EXCEPT ![s] = NoTimer]
    /\ interval' = [t \in Timers |-> IF t = activeStreams[s] THEN NoSensor
                                                             ELSE interval[t]]

(* A handle setInterval has not given out, nor will give to another start. *)
Fresh(t) == interval[t] = NoSensor /\ \A o \in Operators : req[o].timer # t

(* The overlap history after a request of kind op begins on s.             *)
OverlapWith(op, s) ==
    CASE op = "start" /\ (\E o \in Operators : Pending(o, s) /\ req[o].op = "start")
           -> "starts"
      [] Quiet(s) -> overlap[s]
      [] OTHER -> IF overlap[s] = "starts" THEN "starts" ELSE "controls"

-----------------------------------------------------------------------------
(* create: a row with the schema's defaults.                               *)
Create(s) ==
    /\ row[s].status = "absent"
    /\ row' = [row EXCEPT ![s] = NewRow]
    /\ UNCHANGED <<activeStreams, interval, req, point, crashes, history>>

(* Mutation: startStream without its "prevent duplicate streams".          *)
BeginStartUnchecked(o, s) ==
    /\ req[o].stage = "idle"
    /\ row[s].status # "absent"
    /\ \E t \in Timers :
         /\ Fresh(t)
         /\ req' = [req EXCEPT ![o] = [op |-> "start", sensor |-> s, stage |-> "find",
                                       streaming |-> FALSE, timer |-> t]]
    /\ overlap' = [overlap EXCEPT ![s] = OverlapWith("start", s)]
    /\ UNCHANGED <<control, point, crashes, cut>>

(* POST /sensors/:id/stream.  The running stream is stopped before the     *)
(* sensor is even looked up.                                               *)
BeginStart(o, s) ==
    /\ req[o].stage = "idle"
    /\ row[s].status # "absent"
    /\ \E t \in Timers :
         /\ Fresh(t)
         /\ req' = [req EXCEPT ![o] = [op |-> "start", sensor |-> s, stage |-> "find",
                                       streaming |-> FALSE, timer |-> t]]
    /\ StopStreamInternal(s)
    /\ overlap' = [overlap EXCEPT ![s] = OverlapWith("start", s)]
    /\ UNCHANGED <<row, point, crashes, cut>>

(* Every other control request opens with the look-up.                     *)
Begin(o, s, op) ==
    /\ req[o].stage = "idle"
    /\ row[s].status # "absent"
    /\ req' = [req EXCEPT ![o] = [op |-> op, sensor |-> s, stage |-> "find",
                                  streaming |-> FALSE, timer |-> NoTimer]]
    /\ overlap' = [overlap EXCEPT ![s] = OverlapWith(op, s)]
    /\ UNCHANGED <<control, point, crashes, cut>>

(* Mutation: the look-up selects no streamActive.                          *)
FoundBlind(o) ==
    /\ req[o].stage = "find"
    /\ Live(req[o].sensor)
    /\ req' = [req EXCEPT ![o].stage = "found"]
    /\ UNCHANGED <<control, point, crashes, history>>

(* The SELECT finds the row and remembers its streamActive.                *)
Found(o) ==
    LET s == req[o].sensor IN
    /\ req[o].stage = "find"
    /\ Live(s)
    /\ req' = [req EXCEPT ![o].stage = "found", ![o].streaming = row[s].active]
    /\ UNCHANGED <<control, point, crashes, history>>

(* The request ends early: the row is gone or belongs to another tenant    *)
(* (NotFoundException), or a statement failed, or its answer was lost.  A  *)
(* stream the handler stopped on its way stays stopped.                    *)
Stopped(o) == req[o].op = "start" \/ (req[o].stage = "write" /\ req[o].op # "clear")

Abort(o) ==
    LET s == req[o].sensor IN
    /\ req[o].stage \in {"find", "write", "wrote", "tail"}
    /\ req' = [req EXCEPT ![o] = IdleRequest]
    /\ cut' = [cut EXCEPT ![s] = @ \/ Stopped(o)]
    /\ UNCHANGED <<control, point, crashes, overlap>>

(* Mutation: setOverride leaves a running stream alone.                    *)
StopsStreamNotOverride(o) == req[o].op \in {"stop", "remove"}

(* The code between the look-up and the write.                             *)
StopsStream(o) == \/ req[o].op \in {"stop", "remove"}
                  \/ req[o].op = "override" /\ req[o].streaming

Proceed(o) ==
    /\ req[o].stage = "found"
    /\ req' = [req EXCEPT ![o].stage = "write"]
    /\ IF StopsStream(o)
         THEN StopStreamInternal(req[o].sensor)
         ELSE UNCHANGED <<activeStreams, interval>>
    /\ UNCHANGED <<row, point, crashes, history>>

(* Mutation: setOverride does not reset streamActive.                      *)
UpdatedKeepingActive(r, op) ==
    CASE op = "start"    -> [r EXCEPT !.mode = "STREAM", !.manual = FALSE, !.active = TRUE]
      [] op = "stop"     -> [r EXCEPT !.mode = "REAL",   !.manual = FALSE, !.active = FALSE]
      [] op = "override" -> [r EXCEPT !.mode = "MANUAL", !.manual = TRUE]
      [] op = "clear"    -> [r EXCEPT !.mode = "REAL",   !.manual = FALSE]
      [] op = "remove"   -> [r EXCEPT !.status = "deleted"]
      [] OTHER           -> r

(* The UPDATE of each request, and the DELETE of remove.                   *)
Updated(r, op) ==
    CASE op = "start"    -> [r EXCEPT !.mode = "STREAM", !.manual = FALSE, !.active = TRUE]
      [] op = "stop"     -> [r EXCEPT !.mode = "REAL",   !.manual = FALSE, !.active = FALSE]
      [] op = "override" -> [r EXCEPT !.mode = "MANUAL", !.manual = TRUE,  !.active = FALSE]
      [] op = "clear"    -> [r EXCEPT !.mode = "REAL",   !.manual = FALSE]
      [] op = "remove"   -> [r EXCEPT !.status = "deleted"]
      [] OTHER           -> r

(* What the handler still has to do once its UPDATE is in.                 *)
AfterWrite(r) ==
    CASE r.op = "start"    -> [r EXCEPT !.stage = "wrote"]
      [] r.op = "override" -> [r EXCEPT !.stage = "tail"]
      [] OTHER             -> IdleRequest

Commit(o) ==
    LET s == req[o].sensor IN
    /\ req[o].stage = "write"
    /\ Live(s)
    /\ row' = [row EXCEPT ![s] = Updated(@, req[o].op)]
    /\ req' = [req EXCEPT ![o] = AfterWrite(@)]
    /\ cut' = [cut EXCEPT ![s] = @ /\ req[o].op = "clear"]
    /\ UNCHANGED <<activeStreams, interval, point, crashes, overlap>>

(* Mutation: setInterval without activeStreams.set.                        *)
ArmUnregistered(o) ==
    /\ req[o].stage = "wrote"
    /\ interval' = [interval EXCEPT ![req[o].timer] = req[o].sensor]
    /\ req' = [req EXCEPT ![o] = IdleRequest]
    /\ UNCHANGED <<row, activeStreams, point, crashes, history>>

(* startStream resumes: setInterval, then activeStreams.set.               *)
Arm(o) ==
    LET s == req[o].sensor  t == req[o].timer IN
    /\ req[o].stage = "wrote"
    /\ interval' = [interval EXCEPT ![t] = s]
    /\ activeStreams' = [activeStreams EXCEPT ![s] = t]
    /\ req' = [req EXCEPT ![o] = IdleRequest]
    /\ UNCHANGED <<row, point, crashes, history>>

(* setOverride has stored and published its value, checked the thresholds. *)
Finish(o) ==
    /\ req[o].stage = "tail"
    /\ req' = [req EXCEPT ![o] = IdleRequest]
    /\ UNCHANGED <<control, point, crashes, history>>

-----------------------------------------------------------------------------
(* Mutation: the callback does not look into the Map.                      *)
TickUnchecked(t, w) ==
    /\ interval[t] # NoSensor
    /\ point[w].stage = "idle"
    /\ point' = [point EXCEPT ![w] = [source |-> "stream", sensor |-> interval[t],
                                      stage |-> "insert"]]
    /\ UNCHANGED <<control, req, crashes, history>>

(* An interval fires.  The callback looks its SENSOR up in the Map, not    *)
(* itself; when the Map has nothing for the sensor it returns.             *)
Tick(t, w) ==
    LET s == interval[t] IN
    /\ s # NoSensor
    /\ activeStreams[s] # NoTimer
    /\ point[w].stage = "idle"
    /\ point' = [point EXCEPT ![w] = [source |-> "stream", sensor |-> s, stage |-> "insert"]]
    /\ UNCHANGED <<control, req, crashes, history>>

(* ingestData: a real value arrives over HTTP or MQTT.                     *)
Ingest(w, s) ==
    /\ point[w].stage = "idle"
    /\ point' = [point EXCEPT ![w] = [source |-> "real", sensor |-> s, stage |-> "find"]]
    /\ UNCHANGED <<control, req, crashes, history>>

(* Mutation: ingestData rejects in STREAM mode only.                       *)
AdmitManual(w) ==
    LET s == point[w].sensor IN
    /\ point[w].stage = "find"
    /\ point' = [point EXCEPT ![w] = IF Live(s) /\ row[s].mode # "STREAM"
                                       THEN [@ EXCEPT !.stage = "insert"]
                                       ELSE IdlePoint]
    /\ UNCHANGED <<control, req, crashes, history>>

(* findUnique answers; an unknown sensor, or one in MANUAL or STREAM mode, *)
(* rejects the value.                                                      *)
Admit(w) ==
    LET s == point[w].sensor IN
    /\ point[w].stage = "find"
    /\ point' = [point EXCEPT ![w] = IF Live(s) /\ row[s].mode = "REAL"
                                       THEN [@ EXCEPT !.stage = "insert"]
                                       ELSE IdlePoint]
    /\ UNCHANGED <<control, req, crashes, history>>

(* insertSensorData appends to sensor_data, which no handler here reads    *)
(* and which has no foreign key to sensors: the row may be gone by now.    *)
Insert(w) ==
    /\ point[w].stage = "insert"
    /\ point' = [point EXCEPT ![w].stage = "announce"]
    /\ UNCHANGED <<control, req, crashes, history>>

(* The point has been published (and checked), or a statement has failed   *)
(* and the error was logged (tick) or returned (ingestion).                *)
Drop(w) ==
    /\ point[w].stage # "idle"
    /\ point' = [point EXCEPT ![w] = IdlePoint]
    /\ UNCHANGED <<control, req, crashes, history>>

-----------------------------------------------------------------------------
(* The process dies and is restarted (or shuts down: onModuleDestroy).     *)
(* Intervals, the Map and the requests are gone; onModuleInit resumes no   *)
(* stream, whatever the rows say.                                          *)
Restart ==
    /\ crashes < MaxCrashes
    /\ crashes' = crashes + 1
    /\ activeStreams' = [s \in Sensors |-> NoTimer]
    /\ interval' = [t \in Timers |-> NoSensor]
    /\ req' = [o \in Operators |-> IdleRequest]
    /\ point' = [w \in Writers |-> IdlePoint]
    /\ overlap' = [s \in Sensors |-> "none"]
    /\ cut' = [s \in Sensors |-> TRUE]
    /\ UNCHANGED row

(* The part of a request that goes on by itself once it is in flight.      *)
Advance(o) == Found(o) \/ Proceed(o) \/ Commit(o) \/ Arm(o) \/ Finish(o) \/ Abort(o)
Carry(w) == Admit(w) \/ Insert(w) \/ Drop(w)

Next ==
    \/ \E s \in Sensors : Create(s)
    \/ \E o \in Operators, s \in Sensors : BeginStart(o, s)
    \/ \E o \in Operators, s \in Sensors, op \in Ops \ {"start"} : Begin(o, s, op)
    \/ \E o \in Operators : Advance(o)
    \/ \E t \in Timers, w \in Writers : Tick(t, w)
    \/ \E w \in Writers, s \in Sensors : Ingest(w, s)
    \/ \E w \in Writers : Carry(w)
    \/ Restart

Spec == Init /\ [][Next]_vars

(* The database answers and the event loop runs the continuations.         *)
Fairness == /\ \A o \in Operators : WF_vars(Advance(o))
            /\ \A w \in Writers : WF_vars(Carry(w))
FairSpec == Spec /\ Fairness

-----------------------------------------------------------------------------
(* The Map never holds a dead or a stranger's interval: stopStreamInternal *)
(* can only clear what really runs for that sensor, however many control   *)
(* requests and restarts interleave.                                       *)
RegistrySound ==
    \A s \in Sensors : activeStreams[s] # NoTimer => interval[activeStreams[s]] = s

(* Four columns say who feeds the sensor.  Whatever UPDATEs of concurrent  *)
(* requests hit the row, and in whatever order, they agree with the mode,  *)
(* except that a REAL row may keep streamActive (clearOverride).           *)
RowConsistent ==
    \A s \in Sensors :
        /\ row[s].mode = "STREAM" => row[s].active /\ ~row[s].manual
        /\ row[s].mode = "MANUAL" => row[s].manual /\ ~row[s].active
        /\ row[s].mode = "REAL" => ~row[s].manual

(* "Prevent duplicate streams" holds as long as no startStream begins on a *)
(* sensor while another is between its check of the Map and its            *)
(* activeStreams.set: then every live interval is the one the Map holds.   *)
(* Stops, overrides, clears and removals may overlap the start freely.     *)
NoDuplicateStreams ==
    \A s \in Sensors, t \in Timers :
        overlap[s] # "starts" /\ interval[t] = s => activeStreams[s] = t

(* With control requests on a sensor one after the other, an interval runs *)
(* only for a row that exists and says streamActive: stopping comes before *)
(* the UPDATE that ends the stream, starting after the one that begins it. *)
TimerHasActiveRow ==
    \A s \in Sensors :
        overlap[s] = "none" /\ activeStreams[s] # NoTimer => Streaming(s)

(* Conversely, between requests a row that says streamActive has its       *)
(* interval, unless a restart, a failed statement or a rejected request    *)
(* cut the stream off since the last successful start, stop or override.   *)
StreamingRowHasTimer ==
    \A s \in Sensors :
        overlap[s] = "none" /\ ~cut[s] /\ Quiet(s) /\ Streaming(s)
            => activeStreams[s] # NoTimer

(* Once a sensor stays out of the Map, its stream falls silent, the        *)
(* intervals no stop could clear (duplicates) included: their callbacks    *)
(* find nothing in the Map, and the points in flight drain.                *)
QuietAfterStop ==
    \A s \in Sensors :
        <>[](activeStreams[s] = NoTimer)
            => <>[](\A w \in Writers : ~(point[w].source = "stream" /\ point[w].sensor = s))

(* A value from the field is refused once the row stays out of REAL mode:  *)
(* after the ingestions that were admitted earlier have drained, none is   *)
(* on its way into sensor_data.                                            *)
RejectsEventually ==
    \A s \in Sensors :
        <>[](row[s].mode # "REAL")
            => <>[](\A w \in Writers : ~(/\ point[w].source = "real"
                                         /\ point[w].sensor = s
                                         /\ point[w].stage # "find"))

(* With one control request at a time the two services implement           *)
(* StreamLifecycle: the phase of a sensor is what its row and its          *)
(* intervals say together.                                                 *)
ModeOf(s) == CASE row[s].status = "absent" -> "NEW"
               [] row[s].status = "deleted" -> "GONE"
               [] OTHER -> row[s].mode
PhaseOf(s) == IF Running(s) THEN "running" ELSE IF Streaming(s) THEN "armed" ELSE "idle"

Lifecycle == INSTANCE StreamLifecycle WITH mode <- [s \in Sensors |-> ModeOf(s)],
                                           phase <- [s \in Sensors |-> PhaseOf(s)]
ImplementsLifecycle == Lifecycle!Spec

-----------------------------------------------------------------------------
(* What the documentation says and the code does not keep.                 *)

(* "Duplicate streams per sensor are prevented": at most one interval ever *)
(* works for a sensor.                                                     *)
DuplicatesPrevented ==
    \A t1, t2 \in Timers : interval[t1] = interval[t2] /\ interval[t1] # NoSensor => t1 = t2

(* "Only one mode active at a time": while nobody is changing the sensor,  *)
(* an interval runs only in STREAM mode.                                   *)
OneModeAtATime ==
    \A s \in Sensors : Quiet(s) /\ Running(s) => row[s].mode = "STREAM"

(* "MANUAL mode rejects external ingestion" (STREAM too): a real value is  *)
(* stored only while the sensor is in REAL mode.                           *)
StoresRealOnlyInRealMode ==
    [][\A w \in Writers :
         point[w].source = "real" /\ point[w].stage = "insert" /\ point'[w].stage = "announce"
             => row[point[w].sensor].mode = "REAL"]_vars
=============================================================================
