-------------------------- MODULE MCSensorAlerts --------------------------
(* SensorAlerts on small instances.                                       *)
EXTENDS SensorAlerts
=============================================================================
