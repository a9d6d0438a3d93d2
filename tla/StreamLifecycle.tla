-------------------------- MODULE StreamLifecycle --------------------------
(***************************************************************************)
(* What SensorsService and SensorStreamService promise about one source of *)
(* truth per sensor, in one state machine without requests, rows or timers *)
(* to look up.  A sensor has a mode (NEW and GONE: not yet created, and    *)
(* deleted) and its stream a phase:                                        *)
(*                                                                         *)
(*     idle     the row does not claim a stream, nothing generates         *)
(*     armed    the row claims a stream, nothing generates                 *)
(*     running  the row claims a stream, an interval generates             *)
(*                                                                         *)
(* A stream is announced before it runs and runs no longer when the row    *)
(* drops it: no step leads from idle to running, or from running to idle.  *)
(***************************************************************************)
CONSTANT Sensors

VARIABLES mode, phase

svars == <<mode, phase>>

InService == {"REAL", "MANUAL", "STREAM"}

Init == /\ mode = [s \in Sensors |-> "NEW"]
        /\ phase = [s \in Sensors |-> "idle"]

Move(s, m, p) == /\ mode' = [mode EXCEPT ![s] = m]
                 /\ phase' = [phase EXCEPT ![s] = p]

Create(s) == mode[s] = "NEW" /\ Move(s, "REAL", "idle")

(* startStream's UPDATE, then its setInterval.                             *)
Announce(s) == mode[s] \in InService /\ phase[s] # "running" /\ Move(s, "STREAM", "armed")
Run(s) == mode[s] = "STREAM" /\ phase[s] = "armed" /\ Move(s, "STREAM", "running")

(* stopStreamInternal, in whichever request.                               *)
Halt(s) == phase[s] = "running" /\ Move(s, mode[s], "armed")

(* The UPDATE of stopStream and of setOverride, the DELETE of remove.      *)
Release(s) == /\ mode[s] \in InService
              /\ phase[s] # "running"
              /\ \E m \in {"REAL", "MANUAL", "GONE"} : Move(s, m, "idle")

(* clearOverride reverts the mode of a sensor and leaves its stream alone. *)
Clear(s) == mode[s] \in InService /\ Move(s, "REAL", phase[s])

(* A restart stops every interval and changes no row.                      *)
Restart == /\ phase' = [s \in Sensors |-> IF phase[s] = "running" THEN "armed" ELSE phase[s]]
           /\ UNCHANGED mode

Next == \/ \E s \in Sensors : \/ Create(s) \/ Announce(s) \/ Run(s)
                              \/ Halt(s) \/ Release(s) \/ Clear(s)
        \/ Restart

Spec == Init /\ [][Next]_svars
=============================================================================
