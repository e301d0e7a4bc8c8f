-------------------------- MODULE AxdrParserProofs --------------------------
(***************************************************************************)
(* Proofs about AxdrParser, for any patterns and any bytes: types, that    *)
(* nothing outside the buffer is read or reported, that the objects        *)
(* reported share no byte, and that every step leaves less to do.          *)
(***************************************************************************)
EXTENDS AxdrParser, TLAPS, WellFoundedInduction

ObjectInside(o, n) ==
    /\ o.from <= o.to /\ o.to <= n
    /\ PointInside(o.captures, o.from, o.to)

\* The inductive strengthening of InsideBuffer and ObjectsDisjoint.
PlaceInv ==
    /\ position <= Size
    /\ loop_ = "MATCH" => saved <= position /\ PointInside(cap, saved, position)
    /\ loop_ = "WAITING" => found = <<>>
    /\ \A i \in DOMAIN found : ObjectInside(found[i], Reached)
    /\ ObjectsDisjoint

SafeInv == TypeOK /\ PlaceInv

----------------------------------------------------------------------------
\* What reading returns.

Objects == [captures : Captures, from : Nat, to : Nat]
Levels == [count : Byte \ {NoByte}, consumed : Byte]

LEMMA SeqOf ==
    ASSUME NEW S, NEW s \in Seq(S)
    PROVE  /\ Len(s) \in Nat /\ DOMAIN s = 1..Len(s)
           /\ \A i \in DOMAIN s : s[i] \in S
OBVIOUS

LEMMA AppendOf ==
    ASSUME NEW S, NEW s \in Seq(S), NEW e \in S
    PROVE  /\ Append(s, e) \in Seq(S) /\ Append(s, e) # <<>>
           /\ DOMAIN Append(s, e) = 1..(Len(s) + 1)
           /\ \A i \in DOMAIN s : Append(s, e)[i] = s[i]
           /\ Append(s, e)[Len(s) + 1] = e
<1>1. Append(s, e) \in Seq(S) /\ Len(Append(s, e)) = Len(s) + 1 /\ Len(s) \in Nat
  OBVIOUS
<1>2. Append(s, e) # <<>>
  <2> SUFFICES ASSUME Append(s, e) = <<>> PROVE FALSE
    OBVIOUS
  <2>1. Len(Append(s, e)) = 0
    OBVIOUS
  <2> QED
    BY <1>1, <2>1
<1> QED
  BY <1>1, <1>2

LEMMA FrontOf ==
    ASSUME NEW S, NEW s \in Seq(S), s # <<>>, Len(s) # 1
    PROVE  LET front == SubSeq(s, 1, Len(s) - 1)
           IN  front \in Seq(S) /\ front # <<>> /\ Len(front) = Len(s) - 1
<1> DEFINE front == SubSeq(s, 1, Len(s) - 1)
<1>1. Len(s) \in Nat /\ Len(s) # 0 /\ DOMAIN s = 1..Len(s)
  OBVIOUS
<1>2. \A i \in 1..(Len(s) - 1) : s[i] \in S
  BY <1>1
<1>3. front \in Seq(S) /\ Len(front) = Len(s) - 1
  BY <1>1, <1>2
<1>4. front # <<>>
  <2> SUFFICES ASSUME front = <<>> PROVE FALSE
    OBVIOUS
  <2>1. Len(<<>>) = 0
    OBVIOUS
  <2> HIDE DEF front
  <2>2. Len(s) - 1 = 0
    BY <1>3, <2>1
  <2>3. \A n \in Nat : n - 1 = 0 => n = 1
    OBVIOUS
  <2> QED
    BY <1>1, <2>2, <2>3, Zenon
<1> QED
  BY <1>3, <1>4

LEMMA ObjectTypes ==
    ASSUME TypeOK
    PROVE  /\ found \in Seq(Objects)
           /\ \A i \in DOMAIN found :
                  found[i] \in Objects /\ found[i].from \in Nat /\ found[i].to \in Nat
<1>1. found \in Seq(Objects)
  BY DEF TypeOK, Objects
<1>2. \A i \in DOMAIN found : found[i] \in Objects
  BY <1>1, SeqOf
<1>3. \A o \in Objects : o.from \in Nat /\ o.to \in Nat
  BY DEF Objects
<1> QED
  BY <1>1, <1>2, <1>3

LEMMA BytesRead ==
    ASSUME TypeOK
    PROVE  /\ Size \in Nat
           /\ \A p \in Nat : At(p) \in Byte
           /\ \A k \in Nat : Peek(k) \in Byte
<1>1. data \in Seq(Byte) /\ position \in Nat
  BY DEF TypeOK
<1>2. Size \in Nat /\ \A i \in 1..Size : data[i] \in Byte
  BY <1>1 DEF Size
<1>3. NoByte \in Byte
  BY DEF NoByte, Byte
<1>4. ASSUME NEW p \in Nat PROVE At(p) \in Byte
  BY <1>2, <1>3 DEF At
<1> QED
  BY <1>1, <1>2, <1>4 DEF Peek

LEMMA StopInside ==
    ASSUME TypeOK, NEW p \in Nat
    PROVE  /\ Stop(p) \in Nat /\ Stop(p) <= Size
           /\ p <= Size => Stop(p) = p
BY BytesRead DEF Stop

LEMMA ForwardInside ==
    ASSUME TypeOK, position <= Size, NEW n \in Nat
    PROVE  /\ Forward(n) \in Nat /\ Forward(n) <= Size /\ position <= Forward(n)
           /\ Fits(n) => Forward(n) = position + n
<1>1. position \in Nat /\ Size \in Nat
  BY BytesRead DEF TypeOK
<1> QED
  BY <1>1 DEF Forward, Stop, Fits

LEMMA DataLenNat ==
    ASSUME TypeOK, NEW type \in Byte
    PROVE  DataLen(type) \in Nat /\ HeaderLen(type) \in {1, 2}
<1> USE DEF HeaderLen
<1>1. CASE IsFixed(type)
  <2>1. FixedSize(type) \in FixedSizes
    BY <1>1 DEF IsFixed, FixedSize
  <2> QED
    BY <1>1, <2>1 DEF DataLen, FixedSizes
<1>2. CASE ~IsFixed(type)
  BY <1>2, BytesRead DEF DataLen, Byte
<1> QED
  BY <1>1, <1>2

----------------------------------------------------------------------------
\* Steps that report nothing and do not go back keep the places.
LEMMA PlaceKept ==
    ASSUME SafeInv, TypeOK', UNCHANGED <<telegram, found>>,
           loop_ # "WAITING", loop_' # "WAITING",
           position' <= Size,
           Reached <= Reached',
           loop_' = "MATCH" => saved' <= position' /\ PointInside(cap', saved', position')
    PROVE  PlaceInv'
<1>1. Size' = Size /\ data' = data
  BY DEF Size, data
<1>2. \A i \in DOMAIN found : found[i].to \in Nat
  BY ObjectTypes DEF SafeInv
<1>3. Reached \in Nat /\ Reached' \in Nat
  BY DEF Reached, SafeInv, TypeOK
<1>4. \A i \in DOMAIN found : ObjectInside(found[i], Reached')
  <2> SUFFICES ASSUME NEW i \in DOMAIN found PROVE ObjectInside(found[i], Reached')
    OBVIOUS
  <2>1. ObjectInside(found[i], Reached)
    BY DEF SafeInv, PlaceInv
  <2> QED
    BY <1>2, <1>3, <2>1 DEF ObjectInside
<1>5. ObjectsDisjoint'
  BY DEF SafeInv, PlaceInv, ObjectsDisjoint
<1> QED
  BY <1>1, <1>4, <1>5 DEF PlaceInv

LEMMA ReturnsKeep ==
    ASSUME SafeInv, NEW n, ParseReturns(n, before, position'),
           UNCHANGED <<telegram, matchVars, foundVars>>,
           loop_ \in {"PARSE", "SEQUENCE", "ELEMENT", "MATCH"},
           before' \in Nat, position' \in Nat, Reached <= position', position' <= Size
    PROVE  SafeInv'
<1>1. TypeOK'
  BY DEF SafeInv, TypeOK, ParseReturns, matchVars, foundVars, data
<1>2. loop_' \in {"PARSE", "DONE"}
  BY DEF ParseReturns
<1>3. PlaceInv'
  BY <1>1, <1>2, PlaceKept DEF Reached, foundVars
<1> QED
  BY <1>1, <1>3 DEF SafeInv

\* A step of a pattern that reads n bytes and captures c.
LEMMA AcceptKeeps ==
    ASSUME SafeInv, loop_ = "MATCH",
           NEW fits, NEW n \in Nat, NEW c, NEW counts, AcceptIf(fits, n, c, counts),
           fits => c \in Captures /\ PointInside(c, saved, Forward(n))
    PROVE  SafeInv'
<1>1. /\ position \in Nat /\ position <= Size /\ saved \in Nat /\ saved <= position
      /\ pattern \in Nat \ {0} /\ step \in Nat \ {0} /\ Size \in Nat
      /\ elements_consumed_at_level \in Nat
  BY BytesRead DEF SafeInv, TypeOK, PlaceInv
<1>2. /\ Forward(n) \in Nat /\ Forward(n) <= Size /\ position <= Forward(n)
  BY <1>1, ForwardInside DEF SafeInv
<1>3. /\ position' \in Nat /\ position' <= Size /\ saved' <= position'
      /\ pattern' \in Nat \ {0} /\ step' \in Nat \ {0}
      /\ cap' \in Captures /\ PointInside(cap', saved', position')
      /\ upper_level' \in BOOLEAN /\ elements_consumed_at_level' \in Nat
  <2>1. CASE fits
    BY <2>1, <1>1, <1>2 DEF AcceptIf, Accept, SafeInv, TypeOK
  <2>2. CASE ~fits
    <3>1. NoCaptures \in Captures /\ PointInside(NoCaptures, saved, saved)
      BY DEF NoCaptures, Captures, PointInside, NullPtr, NONE, Byte, MAX_CLASS_ID
    <3> QED
      BY <2>2, <3>1, <1>1 DEF AcceptIf, Reject, Rollback, TryPattern
  <2> QED
    BY <2>1, <2>2
<1>4. UNCHANGED <<loop_, telegram, before, stack, saved, foundVars>>
  BY DEF AcceptIf
<1>5. TypeOK'
  BY <1>3, <1>4 DEF SafeInv, TypeOK, foundVars, data
<1>6. Reached' = Reached
  BY <1>4 DEF Reached
<1>7. Reached <= Reached'
  BY <1>6, <1>1 DEF Reached
<1>8. PlaceInv'
  BY <1>3, <1>4, <1>5, <1>7, PlaceKept DEF foundVars
<1> QED
  BY <1>5, <1>8 DEF SafeInv

LEMMA MatchStepKeeps ==
    ASSUME SafeInv, MatchStep
    PROVE  SafeInv'
<1>1. /\ loop_ = "MATCH" /\ position \in Nat /\ position <= Size /\ Size \in Nat
      /\ saved \in Nat /\ saved <= position
      /\ cap \in Captures /\ PointInside(cap, saved, position)
  BY BytesRead DEF SafeInv, TypeOK, PlaceInv, MatchStep, ExpectToBeFirst,
     ExpectTypeExact, ExpectTypeUI8, ExpectClassIdUntagged, ExpectObis6Tagged,
     ExpectObis6Untagged, ExpectAttr8Untagged, ExpectValueGeneric,
     ExpectValueDtmAsOctetString, ExpectStructureN, ExpectScalerTagged,
     ExpectUnitEnumTagged, GoingDownOrUp, Matching
<1>2. \A n \in Nat : /\ Forward(n) \in Nat /\ position <= Forward(n)
                     /\ Fits(n) => Forward(n) = position + n
  BY <1>1, ForwardInside DEF SafeInv
<1>3. \A k \in Nat : Peek(k) \in Byte
  BY BytesRead DEF SafeInv
<1>4. \A n \in Nat : PointInside(cap, saved, Forward(n))
  <2>1. (cap.obis \in Nat \/ cap.obis = NullPtr) /\ (cap.value_ptr \in Nat \/ cap.value_ptr = NullPtr)
        /\ cap.value_len \in Nat
    BY <1>1 DEF Captures
  <2> QED
    BY <1>1, <1>2, <2>1 DEF PointInside
<1>5. CASE \/ ExpectToBeFirst \/ ExpectTypeExact \/ ExpectTypeUI8
           \/ ExpectAttr8Untagged \/ ExpectStructureN
  BY <1>1, <1>4, <1>5, AcceptKeeps DEF ExpectToBeFirst, ExpectTypeExact, ExpectTypeUI8,
     ExpectAttr8Untagged, ExpectStructureN
<1>6. CASE ExpectClassIdUntagged
  <2> DEFINE c == [cap EXCEPT !.class_id = ReadU16]
  <2>1. ReadU16 \in Nat
    <3>1. At(position) \in 0..255 /\ At(position + 1) \in 0..255
      BY <1>1, BytesRead DEF SafeInv, Byte
    <3>2. \A a, b \in 0..255 : a * 256 + b \in Nat
      OBVIOUS
    <3>3. U16(position) \in Nat
      BY <3>1, <3>2, Zenon DEF U16
    <3> QED
      BY <3>3 DEF ReadU16
  <2>2. ReadU16 <= MAX_CLASS_ID => c \in Captures /\ PointInside(c, saved, Forward(2))
    BY <1>1, <1>4, <2>1 DEF Captures, PointInside, MAX_CLASS_ID
  <2> QED
    BY <1>1, <1>6, <2>2, AcceptKeeps DEF ExpectClassIdUntagged
<1>7. CASE ExpectObis6Tagged
  <2> DEFINE c == [cap EXCEPT !.obis = position + 2]
  <2>1. Fits(8) => c \in Captures /\ PointInside(c, saved, Forward(8))
    BY <1>1, <1>2, <1>4 DEF Captures, PointInside
  <2> QED
    BY <1>1, <1>7, <2>1, AcceptKeeps DEF ExpectObis6Tagged
<1>8. CASE ExpectObis6Untagged
  <2> DEFINE c == [cap EXCEPT !.obis = position]
  <2>1. Fits(6) => c \in Captures /\ PointInside(c, saved, Forward(6))
    BY <1>1, <1>2, <1>4 DEF Captures, PointInside
  <2> QED
    BY <1>1, <1>8, <2>1, AcceptKeeps DEF ExpectObis6Untagged
<1>9. CASE ExpectScalerTagged
  <2> DEFINE c == [cap EXCEPT !.scaler = Peek(1), !.has_scaler_unit = TRUE]
  <2>1. c \in Captures /\ PointInside(c, saved, Forward(2))
    BY <1>1, <1>3, <1>4 DEF Captures, PointInside
  <2> QED
    BY <1>1, <1>9, <2>1, AcceptKeeps DEF ExpectScalerTagged
<1>10. CASE ExpectUnitEnumTagged
  <2> DEFINE c == [cap EXCEPT !.unit_enum = Peek(1), !.has_scaler_unit = TRUE]
  <2>1. c \in Captures /\ PointInside(c, saved, Forward(2))
    BY <1>1, <1>3, <1>4 DEF Captures, PointInside
  <2> QED
    BY <1>1, <1>10, <2>1, AcceptKeeps DEF ExpectUnitEnumTagged
<1>11. ASSUME NEW fits, NEW type \in Byte, CaptureGenericValue(fits, type)
       PROVE  SafeInv'
  <2> DEFINE header == HeaderLen(Peek(0))
             len == DataLen(Peek(0))
             ptr == IF Peek(0) = NONE THEN NullPtr ELSE position + header
             c == [cap EXCEPT !.value_type = type, !.value_ptr = ptr, !.value_len = len]
  <2>1. len \in Nat /\ header \in {1, 2}
    BY <1>3, DataLenNat DEF SafeInv
  <2>2. DataFits(Peek(0)) => Fits(header + len)
    BY DEF DataFits
  <2>3. ptr \in Nat \cup {NullPtr}
    BY <1>1, <2>1
  <2>4. c \in Captures
    BY <1>1, <2>1, <2>3 DEF Captures
  <2>5. DataFits(Peek(0)) => PointInside(c, saved, Forward(header + len))
    <3>1. c.obis = cap.obis /\ c.value_ptr = ptr /\ c.value_len = len
      BY <1>1 DEF Captures
    <3>2. header + len \in Nat
      BY <2>1
    <3>3. PointInside(cap, saved, Forward(header + len))
      BY <1>4, <3>2
    <3>4. DataFits(Peek(0)) => Forward(header + len) = position + (header + len)
      BY <1>2, <2>2, <3>2
    <3> HIDE DEF c, header, len
    <3> QED
      BY <1>1, <2>1, <3>1, <3>3, <3>4 DEF PointInside
  <2>6. header + len \in Nat
    BY <2>1
  <2> QED
    BY <1>1, <1>11, <2>4, <2>5, <2>6, AcceptKeeps DEF CaptureGenericValue
<1>12. CASE ExpectValueGeneric \/ ExpectValueDtmAsOctetString
  <2>1. DATETIME \in Byte /\ Peek(0) \in Byte
    BY <1>3 DEF DATETIME, Byte
  <2> QED
    BY <1>11, <1>12, <2>1 DEF ExpectValueGeneric, ExpectValueDtmAsOctetString
<1>13. CASE GoingDownOrUp
  <2>1. /\ step' = step + 1 /\ upper_level' \in BOOLEAN
        /\ UNCHANGED <<loop_, telegram, position, before, stack, pattern, saved, cap,
                       elements_consumed_at_level, foundVars>>
    BY <1>13 DEF GoingDownOrUp
  <2>2. TypeOK'
    BY <2>1 DEF SafeInv, TypeOK, foundVars, data
  <2>3. Reached <= Reached' /\ saved <= position
    BY <1>1, <2>1 DEF Reached, SafeInv, PlaceInv, TypeOK
  <2>4. PlaceInv'
    BY <1>1, <2>1, <2>2, <2>3, PlaceKept DEF foundVars
  <2> QED
    BY <2>2, <2>4 DEF SafeInv
<1> QED
  BY <1>5, <1>6, <1>7, <1>8, <1>9, <1>10, <1>12, <1>13 DEF MatchStep

----------------------------------------------------------------------------
\* The steps around the patterns.

LEMMA InitSafe == Init => SafeInv
<1> SUFFICES ASSUME Init PROVE SafeInv
  OBVIOUS
<1>1. TypeOK
  <2>1. cap \in Captures
    BY DEF Init, NoCaptures, Captures, NullPtr, NONE, Byte, MAX_CLASS_ID
  <2>2. data = <<>> /\ data \in Seq(Byte)
    BY DEF Init, NoTelegram, data
  <2> QED
    BY <2>1, <2>2 DEF Init, TypeOK
<1>2. Size = 0
  BY DEF Init, NoTelegram, data, Size
<1>3. PlaceInv
  BY <1>2 DEF Init, PlaceInv, ObjectsDisjoint
<1> QED
  BY <1>1, <1>3 DEF SafeInv

LEMMA ProcessPushDataKeeps ==
    ASSUME SafeInv, NEW t \in Telegrams, ProcessPushData(t)
    PROVE  SafeInv'
<1>1. found' = <<>> /\ loop_' = "PARSE" /\ position' = 0 /\ loop_ = "WAITING"
  BY DEF ProcessPushData, SafeInv, PlaceInv, foundVars
<1>2. data' \in Seq(Byte)
  BY ParserAssumption DEF ProcessPushData, data
<1>3. TypeOK'
  BY <1>1, <1>2 DEF ProcessPushData, SafeInv, TypeOK, matchVars, foundVars
<1>4. Size' \in Nat
  BY <1>2, SeqOf DEF Size
<1>5. PlaceInv'
  BY <1>1, <1>4 DEF PlaceInv, ObjectsDisjoint
<1> QED
  BY <1>3, <1>5 DEF SafeInv

LEMMA ParseHeadKeeps ==
    ASSUME SafeInv, ParseHead
    PROVE  SafeInv'
<1>1. position \in Nat /\ Size \in Nat /\ position < Size /\ loop_ = "PARSE"
  BY BytesRead DEF SafeInv, TypeOK, ParseHead
<1>2. PICK flag \in position..Size :
        LET type == DataType(Stop(flag + 6))
        IN  \/ /\ At(type) \in {STRUCTURE, ARRAY}
               /\ position' = type + 1 /\ loop_' = "SEQUENCE" /\ UNCHANGED stack
            \/ position' = Stop(type + 1) /\ ParseReturns(0, before', position')
  BY DEF ParseHead
<1> DEFINE dateTime == Stop(flag + 6)
           type == DataType(dateTime)
<1>3. dateTime \in Nat /\ position <= dateTime /\ dateTime <= Size
  BY <1>1 DEF Stop
<1> HIDE DEF dateTime
<1>4. type \in Nat /\ position <= type /\ type <= Size
  <2>1. CASE dateTime + 12 <= Size /\ DateTime12(dateTime)
    BY <1>1, <1>3, <2>1 DEF DataType
  <2>2. CASE ~(dateTime + 12 <= Size /\ DateTime12(dateTime))
    BY <1>1, <1>3, <2>2 DEF DataType
  <2> QED
    BY <2>1, <2>2
<1>5. /\ before' = position
      /\ UNCHANGED <<telegram, matchVars, foundVars>>
      /\ \/ /\ At(type) \in {STRUCTURE, ARRAY}
            /\ position' = type + 1 /\ loop_' = "SEQUENCE" /\ UNCHANGED stack
         \/ position' = Stop(type + 1) /\ ParseReturns(0, before', position')
  BY <1>2 DEF ParseHead, dateTime
<1> HIDE DEF type
<1>6. Reached = position
  BY <1>1 DEF Reached
<1>7. CASE /\ At(type) \in {STRUCTURE, ARRAY}
           /\ position' = type + 1 /\ loop_' = "SEQUENCE" /\ UNCHANGED stack
  <2>1. type < Size
    BY <1>1, <1>4, <1>7 DEF At, NoByte, STRUCTURE, ARRAY
  <2>2. position' \in Nat /\ position' <= Size /\ position <= position'
    BY <1>1, <1>4, <1>7, <2>1
  <2>3. TypeOK'
    BY <1>1, <1>5, <1>7, <2>2 DEF SafeInv, TypeOK, matchVars, foundVars, data
  <2>4. Reached <= Reached'
    BY <1>6, <1>7, <2>2 DEF Reached
  <2>5. PlaceInv'
    BY <1>1, <1>5, <1>7, <2>2, <2>3, <2>4, PlaceKept DEF foundVars
  <2> QED
    BY <2>3, <2>5 DEF SafeInv
<1>8. CASE position' = Stop(type + 1) /\ ParseReturns(0, before', position')
  <2>1. position' \in Nat /\ position' <= Size /\ position <= position'
    BY <1>1, <1>4, <1>8 DEF Stop
  <2>2. TypeOK'
    BY <1>1, <1>5, <1>8, <2>1 DEF SafeInv, TypeOK, matchVars, foundVars, data, ParseReturns
  <2>3. loop_' \in {"PARSE", "DONE"}
    BY <1>8 DEF ParseReturns
  <2>4. Reached <= Reached'
    BY <1>6, <2>1, <2>3 DEF Reached
  <2>5. PlaceInv'
    BY <1>1, <1>5, <2>1, <2>2, <2>3, <2>4, PlaceKept DEF foundVars
  <2> QED
    BY <2>2, <2>5 DEF SafeInv
<1> QED
  BY <1>5, <1>7, <1>8

LEMMA ConsumeTypes ==
    ASSUME NEW levels \in Seq(Levels), levels # <<>>, NEW used \in Nat
    PROVE  Consume(levels, used) \in Seq(Levels) /\ Consume(levels, used) # <<>>
<1> DEFINE n == Len(levels)
           top == [levels[n] EXCEPT !.consumed = (@ + used) % 256]
<1>1. n \in Nat /\ n \in DOMAIN levels /\ DOMAIN levels = 1..n
  BY SeqOf
<1>2. levels[n] \in Levels
  BY <1>1, SeqOf
<1>3. \A a, b \in Nat : (a + b) % 256 \in 0..255
  OBVIOUS
<1>4. top \in Levels
  <2> SUFFICES ASSUME NEW l \in Levels
               PROVE  [l EXCEPT !.consumed = (@ + used) % 256] \in Levels
    BY <1>2
  <2>1. l.consumed \in 0..255 /\ l = [count |-> l.count, consumed |-> l.consumed]
        /\ l.count \in Byte \ {NoByte}
    BY DEF Levels, Byte
  <2>2. l.consumed \in Nat
    <3>1. \A x \in 0..255 : x \in Nat
      OBVIOUS
    <3> QED
      BY <2>1, <3>1, Zenon
  <2>3. (l.consumed + used) % 256 \in 0..255
    BY <1>3, <2>2, Zenon
  <2> QED
    BY <2>1, <2>3 DEF Levels, Byte
<1>5. Consume(levels, used) = [levels EXCEPT ![n] = top]
  BY <1>1 DEF Consume
<1> HIDE DEF top, n
<1>6. [levels EXCEPT ![n] = top] \in Seq(Levels)
  BY <1>1, <1>4
<1>7. Len([levels EXCEPT ![n] = top]) = Len(levels) /\ Len(levels) # 0
  BY <1>1
<1> QED
  BY <1>5, <1>6, <1>7

LEMMA StackTypes ==
    ASSUME TypeOK
    PROVE  stack \in Seq(Levels)
BY DEF TypeOK, Levels

LEMMA StackKeeps ==
    ASSUME TypeOK, NEW levels \in Seq(Levels), stack' = levels,
           loop_' \in {"PARSE", "SEQUENCE", "ELEMENT", "DONE"},
           loop_' = "ELEMENT" => levels # <<>>,
           position' \in Nat, before' \in Nat,
           UNCHANGED <<telegram, matchVars, foundVars>>
    PROVE  TypeOK'
<1>1. stack' \in Seq([count : Byte \ {NoByte}, consumed : Byte])
  BY DEF Levels
<1>2. loop_' # "MATCH"
  OBVIOUS
<1> QED
  BY <1>1, <1>2 DEF TypeOK, matchVars, foundVars, data

LEMMA LoopEndsKeeps ==
    ASSUME SafeInv, LoopEnds
    PROVE  SafeInv'
<1>1. TypeOK'
  BY DEF SafeInv, TypeOK, LoopEnds, matchVars, foundVars, data
<1>2. position \in Nat /\ position <= Size
  BY DEF SafeInv, TypeOK, PlaceInv
<1>3. Reached = position /\ Reached' = position
  BY DEF LoopEnds, Reached
<1>4. PlaceInv'
  BY <1>1, <1>2, <1>3, PlaceKept DEF LoopEnds, foundVars
<1> QED
  BY <1>1, <1>4 DEF SafeInv

LEMMA FailsKeeps ==
    ASSUME SafeInv, NEW p \in Nat, ParseFails(p), Reached <= p, p <= Size,
           loop_ \in {"PARSE", "SEQUENCE", "ELEMENT", "MATCH"},
           UNCHANGED <<telegram, before, matchVars, foundVars>>
    PROVE  SafeInv'
<1>1. position' = p /\ ParseReturns(objects_found_, before, position')
  BY DEF ParseFails, FailedAt
<1>2. before' \in Nat
  BY DEF SafeInv, TypeOK
<1> QED
  BY <1>1, <1>2, ReturnsKeep

LEMMA BeginSequenceKeeps ==
    ASSUME SafeInv, BeginSequence
    PROVE  SafeInv'
<1>1. loop_ = "SEQUENCE" /\ UNCHANGED <<telegram, before, matchVars, foundVars>>
  BY DEF BeginSequence
<1>2. position \in Nat /\ position <= Size /\ Size \in Nat /\ before \in Nat
  BY BytesRead DEF SafeInv, TypeOK, PlaceInv
<1>3. Forward(1) \in Nat /\ Forward(1) <= Size /\ position <= Forward(1)
  BY <1>2, ForwardInside DEF SafeInv
<1>4. Reached = position
  BY <1>1 DEF Reached
<1>5. CASE CountIsThere(Peek(0))
  <2> DEFINE level == [count |-> Peek(0), consumed |-> 0]
  <2>1. position' = Forward(1) /\ loop_' = "ELEMENT" /\ stack' = Append(stack, level)
    BY <1>5 DEF BeginSequence
  <2>2. level \in Levels
    <3>1. Peek(0) \in Byte /\ 0 \in Byte
      BY BytesRead DEF SafeInv, Byte
    <3> QED
      BY <1>5, <3>1 DEF Levels, CountIsThere
  <2>3. stack \in Seq(Levels)
    BY StackTypes DEF SafeInv
  <2> HIDE DEF level
  <2>4. Append(stack, level) \in Seq(Levels) /\ Append(stack, level) # <<>>
    BY <2>2, <2>3, AppendOf
  <2>5. TypeOK'
    BY <1>1, <1>2, <1>3, <2>1, <2>4, StackKeeps DEF SafeInv
  <2>6. Reached' = position'
    BY <2>1 DEF Reached
  <2>7. PlaceInv'
    BY <1>1, <1>3, <1>4, <2>1, <2>5, <2>6, PlaceKept DEF foundVars
  <2> QED
    BY <2>5, <2>7 DEF SafeInv
<1>6. CASE ~CountIsThere(Peek(0))
  <2>1. ParseFails(Forward(1))
    BY <1>6 DEF BeginSequence
  <2> QED
    BY <1>1, <1>3, <1>4, <2>1, FailsKeeps
<1> QED
  BY <1>5, <1>6

LEMMA EndSequenceKeeps ==
    ASSUME SafeInv, EndSequence
    PROVE  SafeInv'
<1>1. /\ loop_ = "ELEMENT"
      /\ UNCHANGED <<telegram, position, before, matchVars, foundVars>>
  BY DEF EndSequence
<1>2. position \in Nat /\ position <= Size /\ before \in Nat /\ stack # <<>>
  BY <1>1 DEF SafeInv, TypeOK, PlaceInv
<1>3. Reached = position
  BY <1>1 DEF Reached
<1>4. CASE Len(stack) = 1
  <2>1. ParseReturns(objects_found_, before, position')
    BY <1>1, <1>4 DEF EndSequence
  <2>2. Size' = Size
    BY <1>1 DEF Size, data
  <2> QED
    BY <1>1, <1>2, <1>3, <2>1, <2>2, ReturnsKeep
<1>5. CASE Len(stack) # 1
  <2> DEFINE outer == SubSeq(stack, 1, Len(stack) - 1)
  <2>1. stack' = Consume(outer, 1) /\ loop_' = "ELEMENT"
    BY <1>1, <1>5 DEF EndSequence
  <2>2. stack \in Seq(Levels)
    BY StackTypes DEF SafeInv
  <2>3. outer \in Seq(Levels) /\ outer # <<>>
    BY <1>2, <1>5, <2>2, FrontOf
  <2> HIDE DEF outer
  <2>6. Consume(outer, 1) \in Seq(Levels) /\ Consume(outer, 1) # <<>>
    BY <2>3, ConsumeTypes
  <2>7. TypeOK'
    BY <1>1, <1>2, <2>1, <2>6, StackKeeps DEF SafeInv
  <2>8. Reached' = position
    BY <1>1, <2>1 DEF Reached
  <2>9. PlaceInv'
    BY <1>1, <1>2, <1>3, <2>1, <2>7, <2>8, PlaceKept DEF foundVars
  <2> QED
    BY <2>7, <2>9 DEF SafeInv
<1> QED
  BY <1>4, <1>5

LEMMA TryMatchPatternsKeeps ==
    ASSUME SafeInv, TryMatchPatterns
    PROVE  SafeInv'
<1>1. /\ loop_ = "ELEMENT" /\ loop_' = "MATCH" /\ saved' = position
      /\ pattern' = 1 /\ step' = 1 /\ cap' = NoCaptures
      /\ upper_level' = TRUE /\ elements_consumed_at_level' = 0
      /\ UNCHANGED <<telegram, position, before, stack, foundVars>>
  BY DEF TryMatchPatterns, TryPattern, SavedPosition
<1>2. position \in Nat /\ position <= Size
  BY DEF SafeInv, TypeOK, PlaceInv
<1>3. cap' \in Captures /\ PointInside(cap', saved', position')
  BY <1>1 DEF NoCaptures, Captures, PointInside, NullPtr, NONE, Byte, MAX_CLASS_ID
<1>4. TypeOK'
  BY <1>1, <1>3 DEF SafeInv, TypeOK, foundVars, data
<1>5. Reached = position /\ Reached' = position
  BY <1>1 DEF Reached
<1>6. PlaceInv'
  BY <1>1, <1>2, <1>3, <1>4, <1>5, PlaceKept DEF foundVars
<1> QED
  BY <1>4, <1>6 DEF SafeInv

LEMMA ReadElementKeeps ==
    ASSUME SafeInv, ReadElement
    PROVE  SafeInv'
<1> DEFINE type == Peek(0)
           next == Forward(HeaderLen(type) + DataLen(type))
<1>1. /\ loop_ = "MATCH" /\ UNCHANGED <<telegram, before, matchVars, foundVars>>
  BY DEF ReadElement
<1>2. /\ position \in Nat /\ position <= Size /\ saved \in Nat /\ saved <= position
      /\ before \in Nat
  BY <1>1 DEF SafeInv, TypeOK, PlaceInv
<1>3. DataLen(type) \in Nat /\ HeaderLen(type) \in {1, 2}
  BY BytesRead, DataLenNat DEF SafeInv
<1>4. \A n \in Nat : Forward(n) \in Nat /\ Forward(n) <= Size /\ position <= Forward(n)
  BY <1>2, ForwardInside DEF SafeInv
<1>5. HeaderLen(type) \in Nat /\ HeaderLen(type) + DataLen(type) \in Nat
  BY <1>3
<1>6. Reached = saved
  BY <1>1 DEF Reached
<1>7. \/ ParseFails(position)
      \/ position' = Forward(1) /\ loop_' = "SEQUENCE" /\ stack' = stack
      \/ position' = next /\ loop_' = "ELEMENT" /\ stack' = Consume(stack, 1)
      \/ ParseFails(Forward(HeaderLen(type)))
  BY DEF ReadElement
<1> HIDE DEF type
<1>8. stack \in Seq(Levels) /\ stack # <<>>
  BY <1>1, StackTypes DEF SafeInv, TypeOK
<1>9. ASSUME NEW p \in Nat, p <= Size, position <= p, ParseFails(p)
      PROVE  SafeInv'
  <2>1. Reached <= p
    BY <1>2, <1>6, <1>9
  <2> QED
    BY <1>1, <1>9, <2>1, FailsKeeps
<1>10. ASSUME NEW p \in Nat, p <= Size, position <= p, position' = p,
              loop_' \in {"SEQUENCE", "ELEMENT"},
              stack' \in Seq(Levels), stack' # <<>>
       PROVE  SafeInv'
  <2>1. TypeOK'
    BY <1>1, <1>2, <1>10, StackKeeps DEF SafeInv
  <2>2. Reached' = p
    BY <1>10 DEF Reached
  <2>3. Reached <= Reached'
    BY <1>2, <1>6, <1>10, <2>2
  <2>4. PlaceInv'
    BY <1>1, <1>10, <2>1, <2>3, PlaceKept DEF foundVars
  <2> QED
    BY <2>1, <2>4 DEF SafeInv
<1>11. CASE ParseFails(position)
  BY <1>2, <1>9, <1>11
<1>12. CASE position' = Forward(1) /\ loop_' = "SEQUENCE" /\ stack' = stack
  BY <1>4, <1>8, <1>10, <1>12
<1>13. CASE position' = next /\ loop_' = "ELEMENT" /\ stack' = Consume(stack, 1)
  <2>1. stack' \in Seq(Levels) /\ stack' # <<>>
    BY <1>8, <1>13, ConsumeTypes
  <2>2. next \in Nat /\ next <= Size /\ position <= next
    BY <1>4, <1>5
  <2> HIDE DEF next
  <2> QED
    BY <1>10, <1>13, <2>1, <2>2
<1>14. CASE ParseFails(Forward(HeaderLen(type)))
  BY <1>4, <1>5, <1>9, <1>14
<1> QED
  BY <1>7, <1>11, <1>12, <1>13, <1>14

LEMMA PatternMatchedKeeps ==
    ASSUME SafeInv, PatternMatched
    PROVE  SafeInv'
<1>1. /\ loop_ = "MATCH" /\ loop_' = "ELEMENT" /\ stack' = Consume(stack, ElementsUsed)
      /\ UNCHANGED <<telegram, position, before, matchVars>>
  BY DEF PatternMatched
<1>2. /\ position \in Nat /\ position <= Size /\ saved \in Nat /\ saved <= position
      /\ cap \in Captures /\ PointInside(cap, saved, position)
      /\ elements_consumed_at_level \in Nat
  BY <1>1 DEF SafeInv, TypeOK, PlaceInv
<1>3. stack' \in Seq(Levels) /\ stack' # <<>>
  <2>1. ElementsUsed \in Nat
    BY <1>2 DEF ElementsUsed
  <2>2. stack \in Seq(Levels) /\ stack # <<>>
    BY <1>1, StackTypes DEF SafeInv, TypeOK
  <2> QED
    BY <1>1, <2>1, <2>2, ConsumeTypes
<1>4. data' = data /\ Size' = Size
  BY <1>1 DEF data, Size
<1>5. Reached = saved /\ Reached' = position
  BY <1>1 DEF Reached
<1> DEFINE o == [captures |-> cap, from |-> saved, to |-> position]
<1>6. o \in Objects /\ o.from = saved /\ o.to = position /\ ObjectInside(o, position)
  BY <1>2 DEF Objects, ObjectInside
<1>7. \/ UNCHANGED <<found, objects_found_>>
      \/ found' = Append(found, o) /\ objects_found_' = 1
  BY DEF PatternMatched, EmitObject, foundVars
<1> HIDE DEF o
<1>8. /\ found \in Seq(Objects) /\ Len(found) \in Nat /\ DOMAIN found = 1..Len(found)
      /\ \A i \in DOMAIN found : found[i].to \in Nat
  BY ObjectTypes, SeqOf DEF SafeInv
<1>9. found' \in Seq(Objects) /\ objects_found_' \in 0..1
  <2>1. objects_found_ \in 0..1
    BY DEF SafeInv, TypeOK
  <2>2. Append(found, o) \in Seq(Objects)
    BY <1>6, <1>8, AppendOf
  <2> QED
    BY <1>7, <1>8, <2>1, <2>2
<1>10. TypeOK'
  <2>1. stack' \in Seq([count : Byte \ {NoByte}, consumed : Byte])
    BY <1>3 DEF Levels
  <2>2. found' \in Seq([captures : Captures, from : Nat, to : Nat])
    BY <1>9 DEF Objects
  <2> QED
    BY <1>1, <1>3, <1>4, <1>9, <2>1, <2>2 DEF SafeInv, TypeOK, matchVars
<1>11. \A i \in DOMAIN found : ObjectInside(found[i], saved) /\ ObjectInside(found[i], position)
  <2> SUFFICES ASSUME NEW i \in DOMAIN found
               PROVE  ObjectInside(found[i], saved) /\ ObjectInside(found[i], position)
    OBVIOUS
  <2>1. ObjectInside(found[i], saved)
    BY <1>5 DEF SafeInv, PlaceInv
  <2> QED
    BY <1>2, <1>8, <2>1 DEF ObjectInside
<1>12. CASE UNCHANGED <<found, objects_found_>>
  <2>1. \A i \in DOMAIN found' : ObjectInside(found'[i], Reached')
    BY <1>5, <1>11, <1>12
  <2>2. ObjectsDisjoint'
    BY <1>12 DEF SafeInv, PlaceInv, ObjectsDisjoint
  <2>3. PlaceInv'
    BY <1>1, <1>2, <1>4, <2>1, <2>2 DEF PlaceInv
  <2> QED
    BY <1>10, <2>3 DEF SafeInv
<1>13. CASE found' = Append(found, o)
  <2>1. /\ DOMAIN found' = 1..(Len(found) + 1)
        /\ \A i \in DOMAIN found : found'[i] = found[i]
        /\ found'[Len(found) + 1] = o
    BY <1>6, <1>8, <1>13, AppendOf
  <2>2. \A i \in DOMAIN found' : ObjectInside(found'[i], Reached')
    <3> SUFFICES ASSUME NEW i \in DOMAIN found' PROVE ObjectInside(found'[i], position)
      BY <1>5
    <3>1. CASE i \in DOMAIN found
      BY <1>11, <2>1, <3>1
    <3>2. CASE i = Len(found) + 1
      BY <1>6, <2>1, <3>2
    <3> QED
      BY <1>8, <2>1, <3>1, <3>2
  <2>3. ASSUME NEW i \in DOMAIN found', i > 1
        PROVE  found'[i - 1].to <= found'[i].from
    <3>1. CASE i \in DOMAIN found
      <4>1. i - 1 \in DOMAIN found
        BY <1>8, <2>3, <3>1
      <4>2. found[i - 1].to <= found[i].from
        BY <2>3, <3>1 DEF SafeInv, PlaceInv, ObjectsDisjoint
      <4> QED
        BY <2>1, <3>1, <4>1, <4>2
    <3>2. CASE i = Len(found) + 1
      <4>1. i - 1 \in DOMAIN found /\ found'[i] = o
        BY <1>8, <2>1, <2>3, <3>2
      <4>2. found[i - 1].to <= saved
        BY <1>11, <4>1 DEF ObjectInside
      <4> QED
        BY <1>6, <2>1, <4>1, <4>2
    <3> QED
      BY <1>8, <2>1, <3>1, <3>2
  <2>4. ObjectsDisjoint'
    BY <2>3 DEF ObjectsDisjoint
  <2>5. PlaceInv'
    BY <1>1, <1>2, <1>4, <2>2, <2>4 DEF PlaceInv
  <2> QED
    BY <1>10, <2>5 DEF SafeInv
<1> QED
  BY <1>7, <1>12, <1>13

LEMMA ClearRxBuffersKeeps ==
    ASSUME SafeInv, ClearRxBuffers
    PROVE  SafeInv'
<1>1. data' \in Seq(Byte) /\ Size' = 0
  BY DEF ClearRxBuffers, NoTelegram, data, Size
<1>2. cap' \in Captures
  BY DEF ClearRxBuffers, NoCaptures, Captures, NullPtr, NONE, Byte, MAX_CLASS_ID
<1>3. TypeOK'
  BY <1>1, <1>2 DEF ClearRxBuffers, SafeInv, TypeOK
<1>4. PlaceInv'
  BY <1>1 DEF ClearRxBuffers, PlaceInv, ObjectsDisjoint
<1> QED
  BY <1>3, <1>4 DEF SafeInv

LEMMA StutterKeeps ==
    ASSUME SafeInv, UNCHANGED vars
    PROVE  SafeInv'
<1>1. TypeOK'
  BY DEF SafeInv, TypeOK, vars, matchVars, foundVars, data
<1>2. Reached' = Reached /\ Size' = Size
  BY DEF Reached, Size, data, vars, matchVars
<1>3. PlaceInv'
  BY <1>2 DEF SafeInv, PlaceInv, ObjectsDisjoint, vars, matchVars, foundVars
<1> QED
  BY <1>1, <1>3 DEF SafeInv

LEMMA NextKeeps ==
    ASSUME SafeInv, [Next]_vars
    PROVE  SafeInv'
<1>1. CASE Process
  BY <1>1, ParseHeadKeeps, LoopEndsKeeps, BeginSequenceKeeps, EndSequenceKeeps,
     TryMatchPatternsKeeps, MatchStepKeeps, PatternMatchedKeeps, ReadElementKeeps,
     ClearRxBuffersKeeps DEF Process
<1>2. CASE \E t \in Telegrams : ProcessPushData(t)
  BY <1>2, ProcessPushDataKeeps
<1>3. CASE UNCHANGED vars
  BY <1>3, StutterKeeps
<1> QED
  BY <1>1, <1>2, <1>3 DEF Next

LEMMA AlwaysSafe == SafeSpec => []SafeInv
BY InitSafe, NextKeeps, PTL DEF SafeSpec

\* For all patterns and all bytes a window may hold: what the parser keeps has
\* its type; in particular the bytes and lengths that capture_generic_value_()
\* and emit_object_() hand on are bytes and lengths.
THEOREM ParserTypeCorrect == SafeSpec => []TypeOK
<1>1. SafeInv => TypeOK
  BY DEF SafeInv
<1> QED
  BY <1>1, AlwaysSafe, PTL

\* For all patterns, custom ones included, and all bytes: process_push_data()
\* never goes past the end of buffers_.in, and the callback is never given a
\* pointer outside the bytes that its pattern has read.
THEOREM ParserStaysInside == SafeSpec => []InsideBuffer
<1>1. SafeInv => InsideBuffer
  <2> SUFFICES ASSUME SafeInv PROVE InsideBuffer
    OBVIOUS
  <2>1. position \in Nat /\ position <= Size /\ Size \in Nat
    BY BytesRead DEF SafeInv, PlaceInv, TypeOK
  <2>2. loop_ = "MATCH" => saved \in Nat /\ saved <= position
    BY DEF SafeInv, PlaceInv, TypeOK
  <2>3. Reached \in Nat /\ Reached <= Size
    BY <2>1, <2>2 DEF Reached
  <2>4. ASSUME NEW i \in DOMAIN found
        PROVE  /\ found[i].from <= found[i].to /\ found[i].to <= Size
               /\ PointInside(found[i].captures, found[i].from, found[i].to)
    <3>1. found[i].to \in Nat
      BY ObjectTypes DEF SafeInv
    <3>2. ObjectInside(found[i], Reached)
      BY DEF SafeInv, PlaceInv
    <3> QED
      BY <2>1, <2>3, <3>1, <3>2 DEF ObjectInside
  <2> QED
    BY <2>1, <2>4 DEF InsideBuffer
<1> QED
  BY <1>1, AlwaysSafe, PTL

\* For all patterns and all bytes: two objects reported of one window share no
\* byte, because a pattern starts no earlier than where the last one that was
\* reported ended, and one that fails goes back to where it started.
THEOREM ParserObjectsDisjoint == SafeSpec => []ObjectsDisjoint
<1>1. SafeInv => ObjectsDisjoint
  BY DEF SafeInv, PlaceInv
<1> QED
  BY <1>1, AlwaysSafe, PTL

----------------------------------------------------------------------------
\* Progress.

\* While patterns are tried there is an element for them, and one that has used
\* elements has read bytes.
MatchInv ==
    loop_ = "MATCH" =>
        /\ Top.consumed < Top.count
        /\ elements_consumed_at_level > 0 => saved < position

RankTypes ==
    /\ BytesLeft \in Nat /\ Len(stack) \in Nat /\ ElementsLeft \in Nat
    /\ CallsLeft \in Nat /\ PatternsLeft \in Nat /\ StepsLeft \in Nat

\* Below, without indices.
LessLeft ==
    \/ BytesLeft' < BytesLeft
    \/ /\ BytesLeft' = BytesLeft
       /\ \/ Len(stack') < Len(stack)
          \/ /\ Len(stack') = Len(stack)
             /\ \/ ElementsLeft' < ElementsLeft
                \/ /\ ElementsLeft' = ElementsLeft
                   /\ \/ CallsLeft' < CallsLeft
                      \/ /\ CallsLeft' = CallsLeft
                         /\ \/ PatternsLeft' < PatternsLeft
                            \/ PatternsLeft' = PatternsLeft /\ StepsLeft' < StepsLeft

LEMMA BelowIntro ==
    ASSUME RankTypes', LessLeft
    PROVE  Rank' \in [1..6 -> Nat] /\ Below(Rank', Rank)
<1>1. /\ Rank[1] = BytesLeft /\ Rank[2] = Len(stack) /\ Rank[3] = ElementsLeft
      /\ Rank[4] = CallsLeft /\ Rank[5] = PatternsLeft /\ Rank[6] = StepsLeft
  BY DEF Rank
<1>2. /\ Rank'[1] = BytesLeft' /\ Rank'[2] = Len(stack') /\ Rank'[3] = ElementsLeft'
      /\ Rank'[4] = CallsLeft' /\ Rank'[5] = PatternsLeft' /\ Rank'[6] = StepsLeft'
  BY DEF Rank
<1>3. Rank' \in [1..6 -> Nat]
  BY DEF Rank, RankTypes
<1>4. ASSUME NEW i \in 1..6, Rank'[i] < Rank[i], \A j \in 1..(i - 1) : Rank'[j] = Rank[j]
      PROVE  Below(Rank', Rank)
  <2>1. DOMAIN Rank = 1..6
    BY DEF Rank
  <2> QED
    BY <1>4, <2>1 DEF Below
<1>5. \/ BytesLeft' < BytesLeft
      \/ BytesLeft' = BytesLeft /\ Len(stack') < Len(stack)
      \/ BytesLeft' = BytesLeft /\ Len(stack') = Len(stack) /\ ElementsLeft' < ElementsLeft
      \/ /\ BytesLeft' = BytesLeft /\ Len(stack') = Len(stack)
         /\ ElementsLeft' = ElementsLeft /\ CallsLeft' < CallsLeft
      \/ /\ BytesLeft' = BytesLeft /\ Len(stack') = Len(stack)
         /\ ElementsLeft' = ElementsLeft /\ CallsLeft' = CallsLeft
         /\ PatternsLeft' < PatternsLeft
      \/ /\ BytesLeft' = BytesLeft /\ Len(stack') = Len(stack)
         /\ ElementsLeft' = ElementsLeft /\ CallsLeft' = CallsLeft
         /\ PatternsLeft' = PatternsLeft /\ StepsLeft' < StepsLeft
  BY DEF LessLeft
<1>6. Below(Rank', Rank)
  <2> HIDE DEF Rank, BytesLeft, ElementsLeft, CallsLeft, PatternsLeft, StepsLeft
  <2>1. CASE BytesLeft' < BytesLeft
    BY <1>1, <1>2, <1>4, <2>1
  <2>2. CASE BytesLeft' = BytesLeft /\ Len(stack') < Len(stack)
    <3>1. \A j \in 1..(2 - 1) : j = 1
      OBVIOUS
    <3> QED
      BY <1>1, <1>2, <1>4, <2>2, <3>1
  <2>3. CASE BytesLeft' = BytesLeft /\ Len(stack') = Len(stack) /\ ElementsLeft' < ElementsLeft
    <3>1. \A j \in 1..(3 - 1) : j = 1 \/ j = 2
      OBVIOUS
    <3> QED
      BY <1>1, <1>2, <1>4, <2>3, <3>1
  <2>4. CASE /\ BytesLeft' = BytesLeft /\ Len(stack') = Len(stack)
             /\ ElementsLeft' = ElementsLeft /\ CallsLeft' < CallsLeft
    <3>1. \A j \in 1..(4 - 1) : j = 1 \/ j = 2 \/ j = 3
      OBVIOUS
    <3> QED
      BY <1>1, <1>2, <1>4, <2>4, <3>1
  <2>5. CASE /\ BytesLeft' = BytesLeft /\ Len(stack') = Len(stack)
             /\ ElementsLeft' = ElementsLeft /\ CallsLeft' = CallsLeft
             /\ PatternsLeft' < PatternsLeft
    <3>1. \A j \in 1..(5 - 1) : j = 1 \/ j = 2 \/ j = 3 \/ j = 4
      OBVIOUS
    <3> QED
      BY <1>1, <1>2, <1>4, <2>5, <3>1
  <2>6. CASE /\ BytesLeft' = BytesLeft /\ Len(stack') = Len(stack)
             /\ ElementsLeft' = ElementsLeft /\ CallsLeft' = CallsLeft
             /\ PatternsLeft' = PatternsLeft /\ StepsLeft' < StepsLeft
    <3>1. \A j \in 1..(6 - 1) : j = 1 \/ j = 2 \/ j = 3 \/ j = 4 \/ j = 5
      OBVIOUS
    <3> QED
      BY <1>1, <1>2, <1>4, <2>6, <3>1
  <2> QED
    BY <1>5, <2>1, <2>2, <2>3, <2>4, <2>5, <2>6
<1> QED
  BY <1>3, <1>6

LEMMA TopTypes ==
    ASSUME TypeOK, stack # <<>>
    PROVE  /\ Top \in Levels /\ Top.count \in Nat /\ Top.consumed \in Nat
           /\ Len(stack) \in Nat /\ Len(stack) > 0
<1>1. stack \in Seq(Levels)
  BY StackTypes
<1>2. Len(stack) \in Nat /\ Len(stack) > 0 /\ Len(stack) \in DOMAIN stack
  BY <1>1
<1>3. Top \in Levels
  BY <1>1, <1>2, SeqOf DEF Top
<1>4. \A n \in 0..255 : n \in Nat
  OBVIOUS
<1>5. Top.count \in 0..255 /\ Top.consumed \in 0..255
  BY <1>3 DEF Levels, Byte
<1> QED
  BY <1>2, <1>3, <1>4, <1>5, Zenon

LEMMA PatternTypes ==
    /\ Len(Patterns) \in Nat
    /\ \A p \in 1..Len(Patterns) : /\ Len(Patterns[p].steps) \in Nat
                                   /\ DOMAIN Patterns[p].steps = 1..Len(Patterns[p].steps)
<1> DEFINE PatternSteps == Seq([type : StepTypes, param_u8_a : Byte])
           Entries == [priority : Int, steps : PatternSteps]
<1>1. Patterns \in Seq(Entries)
  BY ParserAssumption
<1>2. \A e \in Entries : e.steps \in PatternSteps
  OBVIOUS
<1>3. \A s \in PatternSteps : Len(s) \in Nat /\ DOMAIN s = 1..Len(s)
  OBVIOUS
<1> HIDE DEF PatternSteps, Entries
<1>4. Len(Patterns) \in Nat /\ \A p \in 1..Len(Patterns) : Patterns[p] \in Entries
  BY <1>1, SeqOf
<1> QED
  BY <1>2, <1>3, <1>4

LEMMA RankOf == SafeInv => RankTypes
<1> SUFFICES ASSUME SafeInv PROVE RankTypes
  OBVIOUS
<1>1. position \in Nat /\ saved \in Nat /\ position <= Size /\ Size \in Nat
      /\ pattern \in Nat /\ step \in Nat
  BY BytesRead DEF SafeInv, PlaceInv, TypeOK
<1>2. BytesLeft \in Nat
  <2>1. loop_ = "MATCH" => saved <= Size
    BY <1>1 DEF SafeInv, PlaceInv
  <2> QED
    BY <1>1, <2>1 DEF BytesLeft, Reached
<1>3. Len(stack) \in Nat
  BY StackTypes, SeqOf DEF SafeInv
<1>4. ElementsLeft \in Nat
  <2>1. CASE loop_ \in {"ELEMENT", "MATCH"}
    <3>1. Top.count \in Nat /\ Top.consumed \in Nat
      BY <2>1, TopTypes DEF SafeInv, TypeOK
    <3> QED
      BY <3>1 DEF ElementsLeft
  <2>2. CASE loop_ \notin {"ELEMENT", "MATCH"}
    BY <2>2 DEF ElementsLeft
  <2> QED
    BY <2>1, <2>2
<1>5. CallsLeft \in Nat
  BY DEF CallsLeft
<1>6. PatternsLeft \in Nat /\ StepsLeft \in Nat
  <2>1. CASE Matched
    <3>1. pattern \in 1..Len(Patterns)
      BY <2>1, PatternTypes DEF Matched, SafeInv, TypeOK
    <3>2. Len(Steps) \in Nat
      BY <3>1, PatternTypes DEF Steps
    <3> QED
      BY <1>1, <2>1, <3>1, <3>2, PatternTypes DEF PatternsLeft, StepsLeft
  <2>2. CASE ~Matched
    BY <2>2 DEF PatternsLeft, StepsLeft
  <2> QED
    BY <2>1, <2>2
<1> QED
  BY <1>2, <1>3, <1>4, <1>5, <1>6 DEF RankTypes

LEMMA PeekInside ==
    ASSUME TypeOK, Peek(0) # NoByte
    PROVE  position < Size
<1>1. position \in Nat /\ Size \in Nat
  BY BytesRead DEF TypeOK
<1> QED
  BY <1>1 DEF Peek, At

LEMMA ForwardMoves ==
    ASSUME TypeOK, position < Size, NEW n \in Nat, n > 0
    PROVE  position < Forward(n)
<1>1. position \in Nat /\ Size \in Nat
  BY BytesRead DEF TypeOK
<1> QED
  BY <1>1 DEF Forward, Stop

\* A step that moves on in the same window leaves fewer bytes.
LEMMA FewerBytes ==
    ASSUME SafeInv, SafeInv', telegram' = telegram, Reached < Reached'
    PROVE  LessLeft
<1>1. Size' = Size /\ Size \in Nat
  BY BytesRead DEF SafeInv, Size, data
<1>2. Reached \in Nat /\ Reached' \in Nat
  BY DEF SafeInv, TypeOK, Reached
<1>3. \A n, a, b \in Nat : a < b => n - b < n - a
  OBVIOUS
<1>4. BytesLeft' < BytesLeft
  BY <1>1, <1>2, <1>3, Zenon DEF BytesLeft
<1> QED
  BY <1>4 DEF LessLeft

\* One that does not go back may leave less of the rest.
LEMMA FewerCalls ==
    ASSUME SafeInv, SafeInv', telegram' = telegram, Reached <= Reached',
           \/ Len(stack') < Len(stack)
           \/ /\ Len(stack') = Len(stack)
              /\ \/ ElementsLeft' < ElementsLeft
                 \/ ElementsLeft' = ElementsLeft /\ CallsLeft' < CallsLeft
    PROVE  LessLeft
<1>1. Size' = Size /\ Size \in Nat
  BY BytesRead DEF SafeInv, Size, data
<1>2. Reached \in Nat /\ Reached' \in Nat
  BY DEF SafeInv, TypeOK, Reached
<1>3. BytesLeft' < BytesLeft \/ BytesLeft' = BytesLeft
  <2>1. \A n, a, b \in Nat : a <= b => n - b < n - a \/ n - b = n - a
    OBVIOUS
  <2> QED
    BY <1>1, <1>2, <2>1, Zenon DEF BytesLeft
<1> QED
  BY <1>3 DEF LessLeft

LEMMA ParseHeadLess ==
    ASSUME SafeInv, SafeInv', ParseHead
    PROVE  LessLeft
<1>1. position \in Nat /\ Size \in Nat /\ position < Size /\ loop_ = "PARSE"
      /\ telegram' = telegram
  BY BytesRead DEF SafeInv, TypeOK, ParseHead
<1>2. PICK flag \in position..Size :
        LET type == DataType(Stop(flag + 6))
        IN  position' \in {type + 1, Stop(type + 1)} /\ loop_' \in {"SEQUENCE", "PARSE", "DONE"}
  BY DEF ParseHead, ParseReturns
<1> DEFINE dateTime == Stop(flag + 6)
           type == DataType(dateTime)
<1>3. dateTime \in Nat /\ position < dateTime
  BY <1>1 DEF Stop
<1> HIDE DEF dateTime
<1>4. type \in Nat /\ position < type
  <2>1. CASE dateTime + 12 <= Size /\ DateTime12(dateTime)
    BY <1>1, <1>3, <2>1 DEF DataType
  <2>2. CASE ~(dateTime + 12 <= Size /\ DateTime12(dateTime))
    BY <1>1, <1>3, <2>2 DEF DataType
  <2> QED
    BY <2>1, <2>2
<1>5. position' \in {type + 1, Stop(type + 1)} /\ loop_' # "MATCH"
  BY <1>2 DEF dateTime
<1> HIDE DEF type
<1>6. position < position'
  BY <1>1, <1>4, <1>5 DEF Stop
<1>7. Reached = position /\ Reached' = position'
  BY <1>1, <1>5 DEF Reached
<1> QED
  BY <1>1, <1>6, <1>7, FewerBytes

LEMMA LoopEndsLess ==
    ASSUME SafeInv, SafeInv', LoopEnds
    PROVE  LessLeft
<1>1. Reached' = Reached /\ Reached \in Nat /\ telegram' = telegram
  BY DEF LoopEnds, Reached, SafeInv, TypeOK
<1>2. stack' = stack /\ ElementsLeft' = ElementsLeft /\ CallsLeft' < CallsLeft
  BY DEF LoopEnds, ElementsLeft, CallsLeft
<1> QED
  BY <1>1, <1>2, FewerCalls

LEMMA ClearRxBuffersLess ==
    ASSUME RankTypes, ClearRxBuffers
    PROVE  LessLeft
<1>1. BytesLeft' = 0 /\ BytesLeft \in Nat
  BY DEF ClearRxBuffers, BytesLeft, Reached, Size, data, NoTelegram, RankTypes
<1>2. stack' = stack /\ ElementsLeft' = ElementsLeft /\ CallsLeft' < CallsLeft
  BY DEF ClearRxBuffers, ElementsLeft, CallsLeft
<1> QED
  BY <1>1, <1>2 DEF LessLeft

LEMMA FailsLess ==
    ASSUME SafeInv, SafeInv', NEW p \in Nat, ParseFails(p), Reached <= p,
           loop_ \in {"SEQUENCE", "MATCH"}, telegram' = telegram
    PROVE  LessLeft
<1>1. position' = p /\ stack' = <<>> /\ loop_' \in {"PARSE", "DONE"}
  BY DEF ParseFails, FailedAt, ParseReturns
<1>2. Reached' = p /\ Reached <= Reached'
  BY <1>1 DEF Reached
<1>3. Len(stack') = 0 /\ Len(stack) \in Nat
  BY <1>1, StackTypes, SeqOf DEF SafeInv
<1>4. CASE stack = <<>>
  <2>1. loop_ = "SEQUENCE"
    BY <1>4 DEF SafeInv, TypeOK
  <2>2. Len(stack') = Len(stack)
    BY <1>1, <1>4
  <2>3. ElementsLeft' = ElementsLeft /\ CallsLeft' < CallsLeft
    BY <1>1, <2>1 DEF ElementsLeft, CallsLeft
  <2> QED
    BY <1>2, <2>2, <2>3, FewerCalls
<1>5. CASE stack # <<>>
  <2>1. Len(stack') < Len(stack)
    BY <1>3, <1>5, TopTypes DEF SafeInv
  <2> QED
    BY <1>2, <2>1, FewerCalls
<1> QED
  BY <1>4, <1>5

LEMMA BeginSequenceLess ==
    ASSUME SafeInv, SafeInv', BeginSequence
    PROVE  LessLeft
<1>1. loop_ = "SEQUENCE" /\ telegram' = telegram
  BY DEF BeginSequence
<1>2. Reached = position /\ position <= Size /\ position \in Nat
  BY <1>1 DEF Reached, SafeInv, PlaceInv, TypeOK
<1>3. CASE CountIsThere(Peek(0))
  <2>1. position' = Forward(1) /\ loop_' = "ELEMENT"
    BY <1>3 DEF BeginSequence
  <2>2. position < Forward(1)
    BY <1>2, <1>3, PeekInside, ForwardMoves DEF CountIsThere, SafeInv
  <2>3. Reached' = Forward(1)
    BY <2>1 DEF Reached
  <2> QED
    BY <1>1, <1>2, <2>2, <2>3, FewerBytes
<1>4. CASE ~CountIsThere(Peek(0))
  <2>1. ParseFails(Forward(1))
    BY <1>4 DEF BeginSequence
  <2>2. Forward(1) \in Nat /\ position <= Forward(1)
    BY <1>2, ForwardInside DEF SafeInv
  <2> QED
    BY <1>1, <1>2, <2>1, <2>2, FailsLess
<1> QED
  BY <1>3, <1>4

LEMMA ConsumeLen ==
    ASSUME NEW levels \in Seq(Levels), NEW used
    PROVE  Len(Consume(levels, used)) = Len(levels)
BY DEF Consume

LEMMA EndSequenceLess ==
    ASSUME SafeInv, SafeInv', EndSequence
    PROVE  LessLeft
<1>1. loop_ = "ELEMENT" /\ UNCHANGED <<telegram, position>> /\ loop_' # "MATCH"
  BY DEF EndSequence, ParseReturns
<1>2. Reached' = Reached /\ Reached \in Nat
  BY <1>1 DEF Reached, SafeInv, TypeOK
<1>3. stack \in Seq(Levels) /\ stack # <<>> /\ Len(stack) \in Nat
  BY <1>1, StackTypes, SeqOf DEF SafeInv, TypeOK
<1>4. Len(stack') < Len(stack)
  <2>1. CASE Len(stack) = 1
    <3>1. stack' = <<>>
      BY <2>1 DEF EndSequence, ParseReturns
    <3> QED
      BY <2>1, <3>1
  <2>2. CASE Len(stack) # 1
    <3> DEFINE outer == SubSeq(stack, 1, Len(stack) - 1)
    <3>1. stack' = Consume(outer, 1)
      BY <2>2 DEF EndSequence
    <3>2. outer \in Seq(Levels) /\ Len(outer) = Len(stack) - 1
      BY <1>3, <2>2, FrontOf
    <3> HIDE DEF outer
    <3>4. Len(stack') = Len(outer)
      BY <3>1, <3>2, ConsumeLen
    <3> QED
      BY <1>3, <3>2, <3>4
  <2> QED
    BY <2>1, <2>2
<1> QED
  BY <1>1, <1>2, <1>4, FewerCalls

LEMMA TryMatchPatternsLess ==
    ASSUME SafeInv, SafeInv', TryMatchPatterns
    PROVE  LessLeft
<1>1. /\ loop_ = "ELEMENT" /\ loop_' = "MATCH" /\ saved' = position
      /\ UNCHANGED <<telegram, stack>>
  BY DEF TryMatchPatterns, SavedPosition
<1>2. Reached' = Reached /\ Reached \in Nat
  BY <1>1 DEF Reached, SafeInv, TypeOK
<1>3. ElementsLeft' = ElementsLeft /\ CallsLeft' < CallsLeft
  BY <1>1 DEF ElementsLeft, CallsLeft, Top
<1> QED
  BY <1>1, <1>2, <1>3, FewerCalls

\* A step of a pattern leaves one step less, or one pattern less.
LEMMA AcceptMoves ==
    ASSUME NEW fits, NEW n, NEW c, NEW counts, AcceptIf(fits, n, c, counts)
    PROVE  /\ UNCHANGED <<loop_, telegram, stack, saved>>
           /\ \/ step' = step + 1 /\ pattern' = pattern
              \/ pattern' = pattern + 1
BY DEF AcceptIf, Accept, Reject, TryPattern

LEMMA MatchStepMoves ==
    ASSUME MatchStep
    PROVE  /\ loop_ = "MATCH" /\ pattern <= Len(Patterns) /\ step <= Len(Steps)
           /\ UNCHANGED <<loop_, telegram, stack, saved>>
           /\ \/ step' = step + 1 /\ pattern' = pattern
              \/ pattern' = pattern + 1
<1>1. CASE \/ ExpectToBeFirst \/ ExpectTypeExact \/ ExpectTypeUI8 \/ ExpectClassIdUntagged
           \/ ExpectObis6Tagged \/ ExpectObis6Untagged \/ ExpectAttr8Untagged
  BY <1>1, AcceptMoves, Zenon DEF ExpectToBeFirst, ExpectTypeExact, ExpectTypeUI8,
     ExpectClassIdUntagged, ExpectObis6Tagged, ExpectObis6Untagged, ExpectAttr8Untagged,
     Matching
<1>2. CASE ExpectStructureN \/ ExpectScalerTagged \/ ExpectUnitEnumTagged
  BY <1>2, AcceptMoves, Zenon DEF ExpectStructureN, ExpectScalerTagged,
     ExpectUnitEnumTagged, Matching
<1>3. CASE ExpectValueGeneric \/ ExpectValueDtmAsOctetString
  BY <1>3, AcceptMoves, Zenon DEF ExpectValueGeneric, ExpectValueDtmAsOctetString,
     CaptureGenericValue, Matching
<1>4. CASE GoingDownOrUp
  BY <1>4 DEF GoingDownOrUp, Matching
<1> QED
  BY <1>1, <1>2, <1>3, <1>4 DEF MatchStep

LEMMA MatchStepLess ==
    ASSUME SafeInv, SafeInv', MatchStep
    PROVE  LessLeft
<1>1. /\ loop_ = "MATCH" /\ pattern <= Len(Patterns) /\ step <= Len(Steps)
      /\ UNCHANGED <<loop_, telegram, stack, saved>>
      /\ \/ step' = step + 1 /\ pattern' = pattern
         \/ pattern' = pattern + 1
  BY MatchStepMoves
<1>2. BytesLeft' = BytesLeft /\ ElementsLeft' = ElementsLeft /\ CallsLeft' = CallsLeft
  BY <1>1 DEF BytesLeft, Reached, Size, data, ElementsLeft, CallsLeft, Top
<1>3. pattern \in 1..Len(Patterns) /\ step \in Nat /\ Len(Patterns) \in Nat
  BY <1>1, PatternTypes DEF SafeInv, TypeOK
<1>4. Len(Steps) \in Nat
  BY <1>3, PatternTypes DEF Steps
<1>5. Matched /\ PatternsLeft = Len(Patterns) + 1 - pattern
      /\ StepsLeft = Len(Steps) + 1 - step
  BY <1>1 DEF Matched, PatternsLeft, StepsLeft
<1>6. CASE pattern' = pattern + 1
  <2>1. PatternsLeft' < PatternsLeft
    BY <1>1, <1>3, <1>5, <1>6 DEF PatternsLeft, Matched
  <2> QED
    BY <1>1, <1>2, <2>1 DEF LessLeft
<1>7. CASE step' = step + 1 /\ pattern' = pattern
  <2>1. Matched' /\ PatternsLeft' = PatternsLeft /\ Steps' = Steps
    BY <1>1, <1>7 DEF PatternsLeft, Matched, Steps
  <2>2. StepsLeft' < StepsLeft
    BY <1>1, <1>3, <1>4, <1>5, <1>7, <2>1 DEF StepsLeft
  <2> QED
    BY <1>1, <1>2, <2>1, <2>2 DEF LessLeft
<1> QED
  BY <1>1, <1>6, <1>7

LEMMA ConsumeOne ==
    ASSUME NEW levels \in Seq(Levels), levels # <<>>,
           levels[Len(levels)].consumed < levels[Len(levels)].count
    PROVE  LET top == levels[Len(levels)]
               new == Consume(levels, 1)[Len(levels)]
           IN  new.count = top.count /\ new.consumed = top.consumed + 1
<1> DEFINE n == Len(levels)
           top == levels[n]
<1>1. n \in DOMAIN levels
  BY SeqOf
<1>2. top \in Levels
  BY <1>1, SeqOf
<1>3. top.count \in 0..254 /\ top.consumed \in 0..255
  BY <1>2 DEF Levels, Byte, NoByte
<1>4. (top.consumed + 1) % 256 = top.consumed + 1
  <2>1. \A k, l \in 0..255 : k < l => (k + 1) % 256 = k + 1
    OBVIOUS
  <2> HIDE DEF top
  <2>2. top.count \in 0..255 /\ top.consumed < top.count
    BY <1>3 DEF top
  <2> QED
    BY <1>3, <2>1, <2>2, Zenon
<1>5. Consume(levels, 1)[n] = [top EXCEPT !.consumed = (@ + 1) % 256]
  BY <1>1 DEF Consume
<1>6. [top EXCEPT !.consumed = (@ + 1) % 256].count = top.count
      /\ [top EXCEPT !.consumed = (@ + 1) % 256].consumed = (top.consumed + 1) % 256
  BY <1>2 DEF Levels
<1> QED
  BY <1>4, <1>5, <1>6

LEMMA PatternMatchedLess ==
    ASSUME SafeInv, SafeInv', MatchInv, PatternMatched
    PROVE  LessLeft
<1>1. /\ loop_ = "MATCH" /\ loop_' = "ELEMENT" /\ stack' = Consume(stack, ElementsUsed)
      /\ UNCHANGED <<telegram, position>>
  BY DEF PatternMatched, matchVars
<1>2. Reached = saved /\ Reached' = position
  BY <1>1 DEF Reached
<1>3. saved \in Nat /\ position \in Nat /\ saved <= position
      /\ elements_consumed_at_level \in Nat
  BY <1>1 DEF SafeInv, TypeOK, PlaceInv
<1>4. CASE saved < position
  BY <1>1, <1>2, <1>4, FewerBytes
<1>5. CASE saved = position
  <2>1. ElementsUsed = 1
    BY <1>1, <1>3, <1>5 DEF ElementsUsed, MatchInv
  <2>2. stack \in Seq(Levels) /\ stack # <<>>
    BY <1>1, StackTypes DEF SafeInv, TypeOK
  <2>3. Top.consumed < Top.count /\ Top.count \in Nat /\ Top.consumed \in Nat
    <3>1. Top.count \in Nat /\ Top.consumed \in Nat
      BY <2>2, TopTypes DEF SafeInv
    <3> QED
      BY <1>1, <3>1 DEF MatchInv
  <2>4. Len(stack') = Len(stack)
    BY <1>1, <2>2, ConsumeLen
  <2>5. Top'.count = Top.count /\ Top'.consumed = Top.consumed + 1
    BY <1>1, <2>1, <2>2, <2>3, <2>4, ConsumeOne DEF Top
  <2>6. ElementsLeft = Top.count - Top.consumed
    BY <1>1, <2>3 DEF ElementsLeft
  <2>7. ElementsLeft' < ElementsLeft
    BY <1>1, <2>3, <2>5, <2>6 DEF ElementsLeft
  <2> QED
    BY <1>1, <1>2, <1>3, <1>5, <2>4, <2>7, FewerCalls
<1> QED
  BY <1>3, <1>4, <1>5

LEMMA ReadElementLess ==
    ASSUME SafeInv, SafeInv', ReadElement
    PROVE  LessLeft
<1> DEFINE type == Peek(0)
           next == Forward(HeaderLen(type) + DataLen(type))
<1>1. loop_ = "MATCH" /\ telegram' = telegram
  BY DEF ReadElement
<1>2. /\ position \in Nat /\ position <= Size /\ saved \in Nat /\ saved <= position
      /\ Size \in Nat
  BY <1>1, BytesRead DEF SafeInv, TypeOK, PlaceInv
<1>3. DataLen(type) \in Nat /\ HeaderLen(type) \in {1, 2}
  BY BytesRead, DataLenNat DEF SafeInv
<1>4. Reached = saved
  BY <1>1 DEF Reached
<1>5. \/ ParseFails(position)
      \/ /\ position < Size
         /\ \/ position' = Forward(1) /\ loop_' = "SEQUENCE"
            \/ position' = next /\ loop_' = "ELEMENT"
      \/ ParseFails(Forward(HeaderLen(type)))
  BY <1>2 DEF ReadElement
<1> HIDE DEF type
<1>6. HeaderLen(type) \in Nat /\ HeaderLen(type) + DataLen(type) \in Nat
      /\ HeaderLen(type) + DataLen(type) > 0
  BY <1>3
<1>7. CASE ParseFails(position)
  BY <1>1, <1>2, <1>4, <1>7, FailsLess
<1>8. CASE ParseFails(Forward(HeaderLen(type)))
  <2>1. Forward(HeaderLen(type)) \in Nat /\ position <= Forward(HeaderLen(type))
    BY <1>2, <1>6, ForwardInside DEF SafeInv
  <2>2. saved <= Forward(HeaderLen(type))
    BY <1>2, <2>1
  <2> QED
    BY <1>1, <1>4, <1>8, <2>1, <2>2, FailsLess
<1>9. CASE /\ position < Size
           /\ \/ position' = Forward(1) /\ loop_' = "SEQUENCE"
              \/ position' = next /\ loop_' = "ELEMENT"
  <2>1. position < Forward(1) /\ position < next
    BY <1>2, <1>6, <1>9, ForwardMoves DEF SafeInv
  <2>2. Forward(1) \in Nat /\ next \in Nat
    BY <1>2, <1>6, ForwardInside DEF SafeInv
  <2> HIDE DEF next
  <2>3. Reached' = position' /\ position' \in Nat /\ position < position'
    BY <1>9, <2>1, <2>2 DEF Reached
  <2>4. Reached < Reached'
    BY <1>2, <1>4, <2>3
  <2> QED
    BY <1>1, <2>4, FewerBytes
<1> QED
  BY <1>5, <1>7, <1>8, <1>9

LEMMA NextLess ==
    ASSUME SafeInv, SafeInv', RankTypes, MatchInv, Next, loop_ # "WAITING"
    PROVE  LessLeft
<1>1. Process
  BY DEF Next, ProcessPushData
<1> QED
  BY <1>1, ParseHeadLess, LoopEndsLess, BeginSequenceLess, EndSequenceLess,
     TryMatchPatternsLess, MatchStepLess, PatternMatchedLess, ReadElementLess,
     ClearRxBuffersLess DEF Process

----------------------------------------------------------------------------
\* MatchInv is kept.

LEMMA NoByteHasNoType == ~IsValueDataType(NoByte)
<1>1. \A n \in FixedSizes : NoByte \notin FixedTypes(n)
  BY DEF FixedSizes, FixedTypes, NoByte, NONE, INT8, UINT8, ENUM, DATETIME
<1> QED
  BY <1>1 DEF IsValueDataType, IsFixed, NoByte, OCTET_STRING

LEMMA AcceptKeepsMatch ==
    ASSUME SafeInv, MatchInv, loop_ = "MATCH",
           NEW fits, NEW n \in Nat, NEW c, NEW counts, AcceptIf(fits, n, c, counts),
           fits /\ counts => n > 0 /\ Peek(0) # NoByte
    PROVE  MatchInv'
<1>1. /\ position \in Nat /\ position <= Size /\ saved \in Nat /\ saved <= position
      /\ elements_consumed_at_level \in Nat
  BY DEF SafeInv, TypeOK, PlaceInv
<1>2. Forward(n) \in Nat /\ position <= Forward(n)
  BY <1>1, ForwardInside DEF SafeInv
<1>3. UNCHANGED <<stack, saved>>
  BY DEF AcceptIf
<1>4. Top' = Top
  BY <1>3 DEF Top
<1>5. CASE fits
  <2>1. /\ position' = Forward(n)
        /\ elements_consumed_at_level' = elements_consumed_at_level
                                         + (IF counts /\ upper_level THEN 1 ELSE 0)
    BY <1>5 DEF AcceptIf, Accept
  <2>2. CASE counts /\ upper_level
    <3>1. position < Forward(n)
      BY <1>1, <1>5, <2>2, PeekInside, ForwardMoves DEF SafeInv
    <3> QED
      BY <1>1, <1>2, <1>3, <1>4, <2>1, <3>1 DEF MatchInv
  <2>3. CASE ~(counts /\ upper_level)
    BY <1>1, <1>2, <1>3, <1>4, <2>1, <2>3 DEF MatchInv
  <2> QED
    BY <2>2, <2>3
<1>6. CASE ~fits
  BY <1>4, <1>6 DEF AcceptIf, Reject, TryPattern, MatchInv
<1> QED
  BY <1>5, <1>6

LEMMA CountingKeepsMatch ==
    ASSUME SafeInv, MatchInv, loop_ = "MATCH",
           NEW fits, NEW n \in Nat, NEW c, AcceptIf(fits, n, c, TRUE),
           n > 0, fits => Peek(0) # NoByte
    PROVE  MatchInv'
BY AcceptKeepsMatch

LEMMA MatchStepKeepsMatch ==
    ASSUME TypesKnown, SafeInv, MatchInv, MatchStep
    PROVE  MatchInv'
<1>1. loop_ = "MATCH" /\ pattern <= Len(Patterns) /\ step <= Len(Steps)
  BY MatchStepMoves
<1>2. pattern \in DOMAIN Patterns /\ step \in DOMAIN Steps
  <2>1. pattern \in 1..Len(Patterns)
    BY <1>1, PatternTypes DEF SafeInv, TypeOK
  <2>2. step \in 1..Len(Steps) /\ DOMAIN Steps = 1..Len(Steps)
    BY <1>1, <2>1, PatternTypes DEF Steps, SafeInv, TypeOK
  <2>3. DOMAIN Patterns = 1..Len(Patterns)
    BY ParserAssumption
  <2> QED
    BY <2>1, <2>2, <2>3
<1>3. INT8 # NoByte /\ UINT8 # NoByte /\ OCTET_STRING # NoByte /\ STRUCTURE # NoByte
      /\ ENUM # NoByte /\ \A n \in {1, 2, 8} : n \in Nat /\ n > 0
  BY DEF INT8, UINT8, OCTET_STRING, STRUCTURE, ENUM, NoByte
<1>4. CASE ExpectToBeFirst \/ ExpectClassIdUntagged \/ ExpectObis6Untagged \/ ExpectAttr8Untagged
  BY <1>1, <1>4, AcceptKeepsMatch DEF ExpectToBeFirst, ExpectClassIdUntagged,
     ExpectObis6Untagged, ExpectAttr8Untagged
<1>5. CASE ExpectTypeExact
  <2>1. Current.param_u8_a # NoByte
    BY <1>2, <1>5 DEF ExpectTypeExact, Matching, TypesKnown, Current, Steps
  <2>2. \E fits, c : AcceptIf(fits, 1, c, TRUE) /\ (fits => Peek(0) # NoByte)
    BY <1>5, <2>1 DEF ExpectTypeExact
  <2> QED
    BY <1>1, <1>3, <2>2, CountingKeepsMatch, Zenon
<1>6. CASE ExpectTypeUI8
  <2>1. Peek(0) \in {INT8, UINT8} => Peek(0) # NoByte
    BY <1>3
  <2>2. \E fits, c : AcceptIf(fits, 1, c, TRUE) /\ (fits => Peek(0) # NoByte)
    BY <1>6, <2>1, Zenon DEF ExpectTypeUI8
  <2> QED
    BY <1>1, <1>3, <2>2, CountingKeepsMatch, Zenon
<1>7. CASE ExpectObis6Tagged
  <2>1. \E fits, c : AcceptIf(fits, 8, c, TRUE) /\ (fits => Peek(0) # NoByte)
    BY <1>3, <1>7 DEF ExpectObis6Tagged
  <2> QED
    BY <1>1, <1>3, <2>1, CountingKeepsMatch, Zenon
<1>8. CASE ExpectStructureN \/ ExpectScalerTagged \/ ExpectUnitEnumTagged
  <2>1. \E fits, c : AcceptIf(fits, 2, c, TRUE) /\ (fits => Peek(0) # NoByte)
    BY <1>3, <1>8 DEF ExpectStructureN, ExpectScalerTagged, ExpectUnitEnumTagged
  <2> QED
    BY <1>1, <1>3, <2>1, CountingKeepsMatch, Zenon
<1>9. CASE ExpectValueGeneric \/ ExpectValueDtmAsOctetString
  <2> DEFINE n == HeaderLen(Peek(0)) + DataLen(Peek(0))
  <2>1. DataLen(Peek(0)) \in Nat /\ HeaderLen(Peek(0)) \in {1, 2}
    BY BytesRead, DataLenNat DEF SafeInv
  <2>2. n \in Nat /\ n > 0
    BY <2>1
  <2>3. IsValueDataType(Peek(0)) => Peek(0) # NoByte
    BY NoByteHasNoType
  <2>4. PICK fits, type : CaptureGenericValue(fits, type)
    BY <1>9 DEF ExpectValueGeneric, ExpectValueDtmAsOctetString
  <2>5. \E c, ok : AcceptIf(ok, n, c, TRUE) /\ (ok => IsValueDataType(Peek(0)))
    BY <2>4 DEF CaptureGenericValue
  <2> HIDE DEF n
  <2> QED
    BY <1>1, <2>2, <2>3, <2>5, CountingKeepsMatch
<1>10. CASE GoingDownOrUp
  <2>1. UNCHANGED <<loop_, stack, position, saved, elements_consumed_at_level>>
    BY <1>10 DEF GoingDownOrUp
  <2> QED
    BY <2>1 DEF MatchInv, Top
<1> QED
  BY <1>4, <1>5, <1>6, <1>7, <1>8, <1>9, <1>10 DEF MatchStep

LEMMA MatchInvStep ==
    ASSUME TypesKnown, SafeInv, MatchInv, [Next]_vars
    PROVE  MatchInv'
<1>1. CASE MatchStep
  BY <1>1, MatchStepKeepsMatch
<1>2. CASE TryMatchPatterns
  <2>1. /\ Top.consumed < Top.count /\ stack' = stack
        /\ elements_consumed_at_level' = 0
    BY <1>2 DEF TryMatchPatterns, TryPattern
  <2> QED
    BY <2>1 DEF MatchInv, Top
<1>3. CASE UNCHANGED vars
  BY <1>3 DEF vars, matchVars, MatchInv, Top
<1>4. CASE \/ ParseHead \/ LoopEnds \/ BeginSequence \/ EndSequence
           \/ PatternMatched \/ ReadElement \/ ClearRxBuffers
           \/ \E t \in Telegrams : ProcessPushData(t)
  <2>1. loop_' # "MATCH"
    BY <1>4 DEF ParseHead, LoopEnds, BeginSequence, EndSequence, PatternMatched,
       ReadElement, ClearRxBuffers, ProcessPushData, ParseFails, ParseReturns
  <2> QED
    BY <2>1 DEF MatchInv
<1> QED
  BY <1>1, <1>2, <1>3, <1>4 DEF Next, Process

\* The order of ParseProgress has no infinite descent, whatever the number of
\* its places: steps each of which goes down in it come to an end.
THEOREM BelowDescends ==
    \A d \in Nat :
        ~ \E f \in [Nat -> [1..d -> Nat]] : \A n \in Nat : Below(f[n + 1], f[n])
<1> SUFFICES ASSUME NEW d \in Nat, NEW f \in [Nat -> [1..d -> Nat]],
                    \A n \in Nat : Below(f[n + 1], f[n])
             PROVE  FALSE
  OBVIOUS
<1> DEFINE less == OpToRel(<, Nat)
           order == LexProductOrdering(less, Nat, d)
<1>1. IsWellFoundedOn(order, [1..d -> Nat])
  <2>1. IsWellFoundedOn(less, Nat)
    BY NatLessThanWellFounded
  <2> HIDE DEF less
  <2> QED
    BY <2>1, WFLexProductOrdering
<1>2. \A k, l \in Nat : k < l => <<k, l>> \in less
  BY DEF OpToRel
<1> HIDE DEF less
<1>3. ASSUME NEW n \in Nat PROVE <<f[n + 1], f[n]>> \in order
  <2>1. f[n] \in [1..d -> Nat] /\ f[n + 1] \in [1..d -> Nat]
    <3>1. \A S : \A g \in [Nat -> S] : g[n] \in S /\ g[n + 1] \in S
      OBVIOUS
    <3> QED
      BY <3>1, Zenon
  <2>2. PICK i \in 1..d : /\ f[n + 1][i] < f[n][i]
                          /\ \A j \in 1..(i - 1) : f[n + 1][j] = f[n][j]
    BY DEF Below
  <2>3. <<f[n + 1][i], f[n][i]>> \in less
    BY <1>2, <2>1, <2>2
  <2> QED
    BY <2>1, <2>2, <2>3 DEF LexProductOrdering
<1> QED
  BY <1>1, <1>3 DEF IsWellFoundedOn

\* For all patterns that ask for a type that can be told from the end of the
\* buffer, custom ones included, and for all bytes: every step over a window
\* leaves less to do in an order without infinite descent (BelowDescends), so the
\* loop of process_push_data() cannot go on for ever.
THEOREM ParserProgress == TypesKnown => (SafeSpec => ParseProgress)
<1> SUFFICES ASSUME TypesKnown PROVE SafeSpec => ParseProgress
  OBVIOUS
<1>1. Init => MatchInv
  BY DEF Init, MatchInv
<1>2. SafeInv /\ MatchInv /\ [Next]_vars => MatchInv'
  BY MatchInvStep
<1>3. SafeInv /\ SafeInv' /\ RankTypes /\ RankTypes' /\ MatchInv /\ [Next]_vars
      => [loop_ # "WAITING" => Rank' \in [1..6 -> Nat] /\ Below(Rank', Rank)]_vars
  BY NextLess, BelowIntro
<1> QED
  BY <1>1, <1>2, <1>3, RankOf, AlwaysSafe, PTL DEF SafeSpec, ParseProgress
=============================================================================
