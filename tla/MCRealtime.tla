---------------------------- MODULE MCRealtime -----------------------------
(* Realtime on small instances.                                            *)
EXTENDS Realtime
=============================================================================
