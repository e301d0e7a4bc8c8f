---------------------------- MODULE SensorValues ----------------------------
(***************************************************************************)
(* From the bytes of an object to what its sensors show: the conversions   *)
(* of dlms_cosem_helpers.cpp for a telegram that is pushed, and the two    *)
(* halves of set_sensor_value() that use the library's value when the      *)
(* object is polled.  A number is shown as value * 10^scale, before the    *)
(* sensor's multiplier; a text is the sequence of what it is made of: its  *)
(* bytes, the fields of a date-time, or the one integer it prints.         *)
(***************************************************************************)
EXTENDS Integers, SequencesExt

CONSTANTS ByteValues,     \* 256: the values of a byte of a number
          LengthValues,   \* 256: the values of a length kept in a uint8_t
          TextClip,       \* 128: the text buffer that is clipped to
          FloatBits,      \* 24: the significant bits of a float
          Objects         \* what a meter may hold: [type, value, scaler]

Widths == [BOOLEAN |-> 1, UINT8 |-> 1, INT8 |-> 1, UINT16 |-> 2, INT16 |-> 2,
           UINT32 |-> 4, INT32 |-> 4, UINT64 |-> 8, INT64 |-> 8, FLOAT32 |-> 4,
           FLOAT64 |-> 8]
SignedTypes == {"INT8", "INT16", "INT32", "INT64"}
FloatTypes == {"FLOAT32", "FLOAT64"}
NumberTypes == DOMAIN Widths
IntegerTypes == NumberTypes \ FloatTypes
TextTypes == {"STRING", "BIT_STRING"}
NUL == 0

\* How many values so many bytes have.
Span(width) ==
    LET two == ByteValues * ByteValues
        four == two * two
    IN  CASE width = 1 -> ByteValues
          [] width = 2 -> two
          [] width = 4 -> four
          [] width = 8 -> four * four

\* The values of a type; a float is its bits.
TypeValues(type) ==
    LET all == Span(Widths[type])
    IN  IF type \in SignedTypes THEN (-(all \div 2))..(all \div 2 - 1) ELSE 0..(all - 1)

\* The values of the 16 bits of a year and of a deviation.
WordValues == 65536

\* A date-time: year, month, day, day of the week, hour, minute, second,
\* hundredths, deviation and status.  All ones, and two values more for a month
\* and a day, stand for what is not specified.
IsDateTime(f) ==
    /\ f \in Seq(Nat) /\ Len(f) = 10
    /\ f[1] \in 1..(WordValues - 1)
    /\ f[2] \in 1..12 \cup 253..255 /\ f[3] \in 1..31 \cup 253..255
    /\ f[5] \in 0..23 \cup {255} /\ f[6] \in 0..59 \cup {255}
    /\ f[7] \in 0..59 \cup {255} /\ f[8] \in 0..99 \cup {255}
    /\ f[9] \in 0..(WordValues - 1)

ASSUME ValuesAssumption ==
    /\ {ByteValues, LengthValues, TextClip, FloatBits} \subseteq Nat \ {0}
    /\ ByteValues % 2 = 0
    /\ TextClip < LengthValues
    /\ \A o \in Objects :
        /\ o.type \in NumberTypes \cup TextTypes \cup {"DATETIME"}
        /\ o.type \in NumberTypes => o.value \in TypeValues(o.type) /\ o.scaler \in Int
        /\ o.type \in TextTypes => o.value \in Seq(Nat)
        /\ o.type = "DATETIME" => IsDateTime(o.value)

VARIABLES object,         \* what the meter holds
          number,         \* value_ of a numeric sensor in a hub of each mode:
                          \* <<value, scale>>, or None before it has_value_
          text            \* value_ of a text sensor: <<text>>, or None
vars == <<object, number, text>>

Modes == {"PUSH", "POLL"}
None == <<>>

-----------------------------------------------------------------------------
(* The meter's encoding: big-endian, negative numbers in two's complement; *)
(* the bits of a float stand for the float.                                *)

Bytes1(v) == <<v % ByteValues>>
Bytes2(v) == Bytes1(v \div ByteValues) \o Bytes1(v)
Bytes4(v) == Bytes2(v \div Span(2)) \o Bytes2(v)
Bytes8(v) == Bytes4(v \div Span(4)) \o Bytes4(v)

Encode(value, width) ==
    CASE width = 1 -> Bytes1(value)
      [] width = 2 -> Bytes2(value)
      [] width = 4 -> Bytes4(value)
      [] width = 8 -> Bytes8(value)

Payload(o) == IF o.type \in NumberTypes THEN Encode(o.value, Widths[o.type]) ELSE o.value

\* A float has FloatBits significant bits: ties go to the even neighbour.
ToFloat(value) ==
    LET size == IF value < 0 THEN -value ELSE value
        unit == CHOOSE u \in {2 ^ e : e \in 0..30} :
                    /\ size < u * 2 ^ FloatBits
                    /\ u = 1 \/ size >= (u \div 2) * 2 ^ FloatBits
        low == size \div unit
        rest == 2 * (size % unit)
        near == IF rest > unit \/ (rest = unit /\ low % 2 = 1) THEN low + 1 ELSE low
    IN  IF value < 0 THEN -(near * unit) ELSE near * unit

-----------------------------------------------------------------------------
(* dlms_data_as_float() and dlms_data_as_string().                         *)

be16(p, k) == p[k] * ByteValues + p[k + 1]
be32(p, k) == be16(p, k) * Span(2) + be16(p, k + 2)
be64(p) == be32(p, 1) * Span(4) + be32(p, 5)

BigEndian(p, width) ==
    CASE width = 1 -> p[1]
      [] width = 2 -> be16(p, 1)
      [] width = 4 -> be32(p, 1)
      [] width = 8 -> be64(p)

\* Without the cast.
CastUnsigned(type, unsigned) == unsigned

\* The cast to the signed type of the same width.
Cast(type, unsigned) ==
    LET all == Span(Widths[type])
    IN  IF type \in SignedTypes /\ unsigned >= all \div 2 THEN unsigned - all ELSE unsigned

\* The integer of the leading bytes, 0 when they are too few.
Decode(type, bytes) ==
    IF Len(bytes) < Widths[type] THEN 0
    ELSE Cast(type, BigEndian(bytes, Widths[type]))

\* memcpy() puts a FLOAT64 in the order of the processor, a FLOAT32 is put in
\* order by be32() first.
DataAsFloat(type, bytes) ==
    CASE type \in IntegerTypes -> ToFloat(Decode(type, bytes))
      [] type = "FLOAT32" -> Decode(type, bytes)
      [] type = "FLOAT64" -> be64(Reverse(SubSeq(bytes, 1, 8)))
      [] OTHER -> 0

\* The fields of a date-time; a field in Unknown is printed as question marks,
\* such hundredths are left out, and so is a deviation that is not specified.
Unknown == -1

DateTimeAsString(f) ==
    LET shown(ok, field) == IF ok THEN field ELSE Unknown
        half == WordValues \div 2
        deviation == IF f[9] >= half THEN f[9] - WordValues ELSE f[9]
        minutes == IF deviation < 0 THEN -deviation ELSE deviation
    IN  << shown(f[1] \notin {0, WordValues - 1}, f[1]),
           shown(f[2] \in 1..12, f[2]), shown(f[3] \in 1..31, f[3]),
           shown(f[5] <= 23, f[5]), shown(f[6] <= 59, f[6]),
           shown(f[7] <= 59, f[7]), shown(f[8] <= 99, f[8]),
           IF deviation = -half THEN <<>>
           ELSE << IF deviation < 0 THEN "-" ELSE "+", minutes \div 60, minutes % 60 >> >>

DataAsString(type, bytes) ==
    CASE type \in IntegerTypes /\ Len(bytes) < Widths[type] -> <<>>
      [] type \in IntegerTypes /\ Len(bytes) >= Widths[type] -> <<Decode(type, bytes)>>
      [] type \in FloatTypes -> <<DataAsFloat(type, bytes)>>
      [] type \in TextTypes -> bytes
      [] type = "DATETIME" -> DateTimeAsString(bytes)

\* set_value(const char *) takes a text of bytes up to its first NUL.
CString(bytes) ==
    IF NUL \in ToSet(bytes)
    THEN SubSeq(bytes, 1, (CHOOSE k \in DOMAIN bytes :
                               /\ bytes[k] = NUL
                               /\ \A j \in 1..(k - 1) : bytes[j] # NUL) - 1)
    ELSE bytes

AsSet(type, string) == IF type = "STRING" THEN CString(string) ELSE string

-----------------------------------------------------------------------------
(* The two set_sensor_value().                                             *)

Init == /\ object \in Objects
        /\ number = [m \in Modes |-> None]
        /\ text = [m \in Modes |-> None]

\* A telegram with the object, its scaler applied; the parser gives lengths
\* below LengthValues only.
Push ==
    LET bytes == Payload(object)
    IN  /\ Len(bytes) < LengthValues
        /\ number' = [number EXCEPT !["PUSH"] =
               <<DataAsFloat(object.type, bytes), object.scaler>>]
        /\ text' = [text EXCEPT !["PUSH"] =
               <<AsSet(object.type, DataAsString(object.type, bytes))>>]
        /\ UNCHANGED object

\* var_toInteger() returns an int.
ToInteger(value) == Cast("INT32", value % Span(4))

\* The scaler that DATA_ENQ has read is shown in the log only.
PollNumber ==
    /\ object.type \in NumberTypes
    /\ number' = [number EXCEPT !["POLL"] =
           << IF object.type \in FloatTypes THEN object.value
              ELSE ToFloat(ToInteger(object.value)), 0 >>]
    /\ UNCHANGED <<object, text>>

\* Clipped when it is longer than the clip and its end.
EndedLate(bytes) ==
    LET data == Append(bytes, NUL)
    IN  IF Len(data) > TextClip + 1 THEN [data EXCEPT ![TextClip] = NUL] ELSE data

\* bb_setInt8() ends the text, a longer one is ended at the clip.
Ended(bytes) ==
    LET data == Append(bytes, NUL)
    IN  IF Len(data) > TextClip THEN [data EXCEPT ![TextClip] = NUL] ELSE data

\* The size is passed on as a uint8_t.
PollText ==
    LET data == Ended(object.value)
        size == Len(data) % LengthValues
    IN  /\ object.type = "STRING"
        /\ object.value # <<>>
        /\ text' = [text EXCEPT !["POLL"] =
               <<CString(DataAsString("STRING", SubSeq(data, 1, size)))>>]
        /\ UNCHANGED <<object, number>>

Next == Push \/ PollNumber \/ PollText
Spec == Init /\ [][Next]_vars

-----------------------------------------------------------------------------
(* Properties.                                                             *)

\* The date-time a reader should see: each field the meter has specified.
Specified(f, shown) ==
    /\ shown[1] = IF f[1] = WordValues - 1 THEN Unknown ELSE f[1]
    /\ \A k \in 2..7 :
        LET field == f[IF k <= 3 THEN k ELSE k + 1]
        IN  shown[k] = IF field > 252 THEN Unknown ELSE field

\* The minutes that a printed deviation stands for are the meter's, in two's
\* complement; none is printed only where the meter gives none.
DeviationShown(f, shown) ==
    LET d == shown[8]
        minutes == d[2] * 60 + d[3]
    IN  IF f[9] = WordValues \div 2 THEN d = <<>>
        ELSE f[9] = (IF d[1] = "-" THEN -minutes ELSE minutes) % WordValues

\* What a telegram says is what the sensors are set to, at both ends of the
\* range of each type: an integer to a float's precision and with its scaler,
\* and in full as a text; the bits of a FLOAT32; and a date-time whose year is
\* not 0, field by field.  Nothing is said of the other types: a FLOAT64 is read
\* in the processor's byte order, so its number is another one; a BCD, whose
\* number is 0, is not among the types of the module; texts are handed on.
PushedAsSent ==
    number["PUSH"] # None =>
        /\ object.type \in IntegerTypes =>
              /\ number["PUSH"] = <<ToFloat(object.value), object.scaler>>
              /\ text["PUSH"] = << <<object.value>> >>
        /\ object.type = "FLOAT32" => number["PUSH"] = <<object.value, object.scaler>>
        /\ object.type = "DATETIME" =>
              /\ Specified(object.value, text["PUSH"][1])
              /\ DeviationShown(object.value, text["PUSH"][1])

\* A polled text is the meter's own, from its start, without the NUL that ends
\* it and at most TextClip - 1 bytes of it; no shorter, but for a NUL of the
\* meter's, as long as its size fits a uint8_t.
PolledText ==
    \A k \in DOMAIN text["POLL"] :
        LET shown == text["POLL"][k]
        IN  /\ IsPrefix(shown, object.value)
            /\ Len(shown) < TextClip
            /\ Len(object.value) < LengthValues - 1 /\ NUL \notin ToSet(object.value) =>
                   shown = object.value \/ Len(shown) = TextClip - 1

\* README.en.md:205: the configuration of sensors "in polling and passive
\* (Push) modes is identical".  One configuration then shows one number.
ModesAgree ==
    number["PUSH"] # None /\ number["POLL"] # None => number["PUSH"] = number["POLL"]
=============================================================================
