-------------------------- MODULE MCSensorControl --------------------------
(* SensorControl on small instances: the constants get their values in the *)
(* configurations.                                                         *)
EXTENDS SensorControl
=============================================================================
