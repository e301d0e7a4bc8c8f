--------------------------- MODULE MCSensorValues ---------------------------
(***************************************************************************)
(* Bytes of four values: every number of up to 32 bits, the 64-bit ones    *)
(* around each power; lengths below 16, texts clipped to four and longer   *)
(* than the lengths; date-times with every field specified and not.        *)
(***************************************************************************)
EXTENDS SensorValues

Near(type) ==
    LET powers == {ByteValues ^ e : e \in 0..8}
        corners == powers \cup {p \div 2 : p \in powers} \cup {3 * p : p \in powers}
    IN  {c + d : c \in corners \cup {-c : c \in corners}, d \in -2..2} \cap TypeValues(type)

Numbers ==
    UNION { [type : {t}, value : IF Widths[t] = 8 THEN Near(t) ELSE TypeValues(t),
             scaler : {0, -1}] : t \in NumberTypes }

\* The registers of a meter's energy, read without a scaler.
Counters == {o \in Numbers : o.type = "UINT32" /\ o.scaler = 0}

Texts == [type : {"STRING"}, value : UNION {[1..n -> {NUL, 1, 2}] : n \in 0..5}, scaler : {0}]
           \cup [type : {"STRING"}, value : UNION {[1..n -> {1}] : n \in 6..18}, scaler : {0}]
           \cup [type : {"BIT_STRING"}, value : {<<1, 0, 2>>}, scaler : {0}]

DateTimes ==
    { [type |-> "DATETIME", value |-> <<y, m, d, 255, h, n, n, c, v, 0>>, scaler |-> 0] :
        y \in {1, 2026, 65535}, m \in {1, 12, 253, 255}, d \in {1, 31, 254, 255},
        h \in {0, 23, 255}, n \in {0, 59, 255}, c \in {0, 99, 255},
        v \in {0, 59, 60, 720, 32768, 65536 - 1, 65536 - 90, 65536 - 720} }

MCObjects == Numbers \cup Texts \cup DateTimes
=============================================================================
