----------------------------- MODULE MCPushHub -----------------------------
(***************************************************************************)
(* TLC instance of PushHub: telegrams of three chunks, in turn a long list *)
(* of two objects, one of them in it twice, and a short one of one object; *)
(* three sensors, one of them not published.  MinGap is the shortest that  *)
(* Timing allows.                                                          *)
(***************************************************************************)
EXTENDS PushHub

Sensor(obis, publish) == [obis |-> obis, publish |-> publish]

MCSensors == <<Sensor(1, TRUE), Sensor(2, FALSE), Sensor(2, TRUE)>>
MCObjects == <<2, 1, 2, 1, 1, 1>>

ASSUME MCTiming == Timing
=============================================================================
