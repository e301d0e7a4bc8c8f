---------------------------- MODULE MCDlmsCosem ----------------------------
(***************************************************************************)
(* TLC instances of DlmsCosem: this hub, alone with its meter or with one  *)
(* other hub on the same UART.                                             *)
(***************************************************************************)
EXTENDS DlmsCosem

CONSTANTS hub_1, hub_2, bus_1

MCSelf == hub_1
MCOthers == {hub_2}
MCUarts == {bus_1}
MCParent == [h \in Others \cup {Self} |-> bus_1]
MCNone == {}

Sensor(obis, type, class, publish) ==
    [obis |-> obis, type |-> type, class |-> class, publish |-> publish]

\* A register whose unit is asked for, two sensors of one object, a clock.
MCSensors == <<Sensor(1, "SENSOR", "REGISTER", TRUE),
               Sensor(2, "TEXT_SENSOR", "DATA", TRUE),
               Sensor(2, "SENSOR", "DATA", TRUE),
               Sensor(3, "TEXT_SENSOR", "CLOCK", TRUE)>>

\* One register.
MCRegister == <<Sensor(1, "SENSOR", "REGISTER", TRUE)>>

\* A register that is not published, and two objects cosem_init() refuses.
MCRough == <<Sensor(1, "SENSOR", "REGISTER", FALSE),
             Sensor(2, "SENSOR", "REGISTER", TRUE),
             Sensor(3, "TEXT_SENSOR", "CLOCK", TRUE)>>
MCRoughUnknown == {2, 3}
=============================================================================
