----------------------------- MODULE MCEventBox -----------------------------
(* Model-checking instance of EventBox: three event types of the coordinator's *)
(* box, two payloads.                                                          *)
EXTENDS EventBox

MCEvents == {"EvtReadNew", "EvtReadFin", "EvtSearchNew"}
=============================================================================
