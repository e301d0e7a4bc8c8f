----------------------------- MODULE AxdrParser -----------------------------
(***************************************************************************)
(* AxdrStreamParser and the loop over it in process_push_data(): the       *)
(* objects of the telegrams in buffers_.in are searched by patterns.       *)
(* One action is one token of a pattern or one element of a sequence; the  *)
(* recursion of parse_element_() and parse_sequence_() is the stack.       *)
(* Positions count from 0, as in the code.                                 *)
(***************************************************************************)
EXTENDS Integers, Sequences, LexOrder

CONSTANTS Patterns,     \* the registry's patterns, in its order
          Telegrams     \* [data, objects, complete, kind]: the bytes of a
                        \* window, the objects that were sent in it and how
                        \* many of them lie in it as a whole, and "WHOLE",
                        \* "CUT" or "DAMAGED"

Byte == 0..255

\* DLMS_DATA_TYPE
NONE == 0
ARRAY == 1
STRUCTURE == 2
OCTET_STRING == 9
INT8 == 15
UINT8 == 17
ENUM == 22
DATETIME == 25

MAX_CLASS_ID == 255
NOTIFICATION_FLAG == 15
NoByte == 255           \* what read_byte_() returns at the end
NullPtr == -1

StepTypes ==
    {"EXPECT_TO_BE_FIRST", "EXPECT_TYPE_EXACT", "EXPECT_TYPE_U_I_8",
     "EXPECT_CLASS_ID_UNTAGGED", "EXPECT_OBIS6_TAGGED", "EXPECT_OBIS6_UNTAGGED",
     "EXPECT_ATTR8_UNTAGGED", "EXPECT_VALUE_GENERIC",
     "EXPECT_VALUE_DTM_AS_OCTET_STRING", "EXPECT_STRUCTURE_N",
     "EXPECT_SCALER_TAGGED", "EXPECT_UNIT_ENUM_TAGGED", "GOING_DOWN", "GOING_UP"}

ASSUME ParserAssumption ==
    /\ Patterns \in Seq([priority : Int,
                         steps : Seq([type : StepTypes, param_u8_a : Byte])])
    /\ \A t \in Telegrams : t.data \in Seq(Byte)

VARIABLES loop_,        \* where process_push_data() and parse() are
          telegram,     \* buffers_.in
          position,     \* buffers_.in.position
          before,       \* position at the last call of parse()
          objects_found_,   \* only compared with 0: 1 stands for any more
          stack,        \* sequences being parsed: [count, consumed]
          pattern,      \* index of the pattern being matched
          step,         \* index of its step
          saved,        \* position at which matching began
          cap,          \* AxdrCaptures
          upper_level,
          elements_consumed_at_level,
          found         \* objects of this buffer given to the callback

matchVars == <<pattern, step, saved, cap, upper_level, elements_consumed_at_level>>
foundVars == <<objects_found_, found>>
vars == <<loop_, telegram, position, before, stack, matchVars, foundVars>>

NoCaptures ==
    [class_id |-> 0, obis |-> NullPtr, value_type |-> NONE, value_ptr |-> NullPtr,
     value_len |-> 0, has_scaler_unit |-> FALSE, scaler |-> 0, unit_enum |-> 255]

NoTelegram == [data |-> <<>>, objects |-> <<>>, complete |-> 0, kind |-> "WHOLE"]

Init ==
    /\ loop_ = "WAITING"
    /\ telegram = NoTelegram
    /\ position = 0 /\ before = 0
    /\ objects_found_ = 0 /\ found = <<>>
    /\ stack = <<>>
    /\ pattern = 1 /\ step = 1 /\ saved = 0
    /\ cap = NoCaptures /\ upper_level = TRUE /\ elements_consumed_at_level = 0

----------------------------------------------------------------------------
\* Reading the buffer.

data == telegram.data
Size == Len(data)

At(p) == IF p < Size THEN data[p + 1] ELSE NoByte

\* Bytes to come, and the position after some of them were read one by one.
Peek(k) == At(position + k)
Stop(p) == IF p < Size THEN p ELSE Size
Forward(n) == Stop(position + n)

\* Mutant: what ends with the buffer does not fit.
FitsOneLess(n) == position + n < Size

\* Mutant: one byte too many fits.
FitsOneMore(n) == position + n <= Size + 1

Fits(n) == position + n <= Size

U16(p) == At(p) * 256 + At(p + 1)
ReadU16 == IF Fits(2) THEN U16(position) ELSE 65535
S16(p) == IF U16(p) >= 32768 THEN U16(p) - 65536 ELSE U16(p)

\* test_if_date_time_12b_()
DateTime12(p) ==
    LET in(k, range) == At(p + k) \in range \cup {255}
    IN  /\ U16(p) \in {0} \cup 1970..2100
        /\ in(2, 1..12) /\ in(3, 1..31) /\ in(4, 1..7)
        /\ in(5, 0..23) /\ in(6, 0..59) /\ in(7, 0..59) /\ in(8, 0..99)
        /\ S16(p + 9) \in {-32768} \cup -720..720

\* hlp_getDataTypeSize(): the types whose values are n bytes long
FixedTypes(n) ==
    CASE n = 0 -> {NONE}
      [] n = 1 -> {3, 13, INT8, UINT8, ENUM}    \* BOOLEAN, BCD
      [] n = 2 -> {16, 18}                      \* INT16, UINT16
      [] n = 4 -> {5, 6, 23, 27}                \* INT32, UINT32, FLOAT32, TIME
      [] n = 5 -> {26}                          \* DATE
      [] n = 8 -> {20, 21, 24}                  \* INT64, UINT64, FLOAT64
      [] n = 12 -> {DATETIME}

FixedSizes == {0, 1, 2, 4, 5, 8, 12}
IsFixed(type) == \E n \in FixedSizes : type \in FixedTypes(n)
FixedSize(type) == CHOOSE n \in FixedSizes : type \in FixedTypes(n)

\* hlp_isValueDataType(): fixed types, bit strings and strings
IsValueDataType(type) == IsFixed(type) \/ type \in {4, OCTET_STRING, 10, 12}

\* The length of the data after a type and whether it has a length byte.
HeaderLen(type) == IF IsFixed(type) THEN 1 ELSE 2
DataLen(type) == IF IsFixed(type) THEN FixedSize(type) ELSE Peek(1)
DataFits(type) ==
    /\ IsFixed(type) \/ Peek(1) # NoByte
    /\ Fits(HeaderLen(type) + DataLen(type))

----------------------------------------------------------------------------
\* parse() and the loop that calls it.

\* process_push_data() is called for a new window.
ProcessPushData(t) ==
    /\ loop_ = "WAITING"
    /\ loop_' = "PARSE"
    /\ telegram' = t
    /\ position' = 0
    /\ UNCHANGED <<before, stack, matchVars, foundVars>>

\* parse() has returned: the loop goes on unless nothing was found and
\* nothing was read.
ParseReturns(parsed_now, start, after) ==
    /\ loop_' = IF parsed_now = 0 /\ after = start THEN "DONE" ELSE "PARSE"
    /\ stack' = <<>>

\* The first notification flag from the position on, or the end.
IsNextFlag(flag) ==
    /\ flag < Size => At(flag) = NOTIFICATION_FLAG
    /\ \A p \in position..(flag - 1) : At(p) # NOTIFICATION_FLAG

\* The type of the data stands at p, or behind a date-time at p.
DataType(p) == IF p + 12 <= Size /\ DateTime12(p) THEN p + 12 ELSE p

\* parse() up to the type of the data: skips to the notification flag, the
\* four bytes of the invoke id, the length of the date-time, the date-time.
ParseHead ==
    /\ loop_ = "PARSE"
    /\ position < Size
    /\ before' = position
    /\ \E flag \in position..Size :
           /\ IsNextFlag(flag)
           /\ LET type == DataType(Stop(flag + 6))
              IN  IF At(type) \in {STRUCTURE, ARRAY}
                    THEN /\ position' = type + 1
                         /\ loop_' = "SEQUENCE"
                         /\ UNCHANGED stack
                    ELSE /\ position' = Stop(type + 1)
                         /\ ParseReturns(0, before', position')
    /\ UNCHANGED <<telegram, matchVars, foundVars>>

LoopEnds ==
    /\ loop_ = "PARSE"
    /\ position >= Size
    /\ loop_' = "DONE"
    /\ UNCHANGED <<telegram, position, before, stack, matchVars, foundVars>>

\* Mutant: a notification that cannot be parsed is put back as a whole.
FailedAtStart(p) == before

\* What was read of it stays read.
FailedAt(p) == p

\* parse_element_() returns false through all levels, and parse() returns.
ParseFails(p) ==
    /\ position' = FailedAt(p)
    /\ ParseReturns(objects_found_, before, position')

\* elements_consumed is a uint8_t
Consume(levels, used) ==
    LET n == Len(levels)
    IN  [levels EXCEPT ![n].consumed = (@ + used) % 256]

\* Mutant: the end of the buffer is a length too.
CountIsThereAlways(count) == TRUE

CountIsThere(count) == count # NoByte

\* parse_sequence_() reads the number of elements.
BeginSequence ==
    LET elements_count == Peek(0)
    IN  /\ loop_ = "SEQUENCE"
        /\ IF CountIsThere(elements_count)
             THEN /\ position' = Forward(1)
                  /\ loop_' = "ELEMENT"
                  /\ stack' = Append(stack, [count |-> elements_count, consumed |-> 0])
             ELSE ParseFails(Forward(1))
        /\ UNCHANGED <<telegram, before, matchVars, foundVars>>

Top == stack[Len(stack)]

\* The end of parse_sequence_(): one element of the sequence around it is
\* done, or parse() returns.
EndSequence ==
    /\ loop_ = "ELEMENT"
    /\ Top.consumed >= Top.count
    /\ IF Len(stack) = 1
         THEN ParseReturns(objects_found_, before, position)
         ELSE /\ stack' = Consume(SubSeq(stack, 1, Len(stack) - 1), 1)
              /\ UNCHANGED loop_
    /\ UNCHANGED <<telegram, position, before, matchVars, foundVars>>

\* match_pattern_() begins with the p-th pattern.
TryPattern(p) ==
    /\ pattern' = p /\ step' = 1
    /\ cap' = NoCaptures
    /\ upper_level' = TRUE /\ elements_consumed_at_level' = 0

\* Mutant: the place to go back to is not that of this element.
SavedAtParse == before

SavedPosition == position

\* try_match_patterns_()
TryMatchPatterns ==
    /\ loop_ = "ELEMENT"
    /\ Top.consumed < Top.count
    /\ loop_' = "MATCH"
    /\ saved' = SavedPosition
    /\ TryPattern(1)
    /\ UNCHANGED <<telegram, position, before, stack, foundVars>>

\* No pattern fits: parse_element_() for a sequence, or skip_data_().  The
\* test for no progress never fires, as the type has been read.
ReadElement ==
    LET type == Peek(0)
    IN  /\ loop_ = "MATCH"
        /\ pattern > Len(Patterns)
        /\ IF position >= Size
             THEN ParseFails(position)
           ELSE IF type \in {STRUCTURE, ARRAY}
             THEN position' = Forward(1) /\ loop_' = "SEQUENCE" /\ UNCHANGED stack
           ELSE IF DataFits(type)
             THEN /\ position' = Forward(HeaderLen(type) + DataLen(type))
                  /\ loop_' = "ELEMENT"
                  /\ stack' = Consume(stack, 1)
           ELSE ParseFails(Forward(HeaderLen(type)))
        /\ UNCHANGED <<telegram, before, matchVars, foundVars>>

----------------------------------------------------------------------------
\* match_pattern_(): one step of the pattern at a time.

Steps == Patterns[pattern].steps
Current == Steps[step]

Matching(type) ==
    /\ loop_ = "MATCH"
    /\ pattern <= Len(Patterns)
    /\ step <= Len(Steps)
    /\ Current.type = type

\* Mutant: a pattern that does not fit leaves the position where it gave up.
RollbackKept == UNCHANGED position

\* try_match_patterns_() restores the position.
Rollback == position' = saved

\* The step reads n bytes and captures c; with counts it is consume_one().
Accept(n, c, counts) ==
    /\ position' = Forward(n)
    /\ cap' = c
    /\ step' = step + 1
    /\ elements_consumed_at_level' = elements_consumed_at_level
                                     + (IF counts /\ upper_level THEN 1 ELSE 0)
    /\ UNCHANGED <<pattern, upper_level>>

Reject == Rollback /\ TryPattern(pattern + 1)

AcceptIf(fits, n, c, counts) ==
    /\ IF fits THEN Accept(n, c, counts) ELSE Reject
    /\ UNCHANGED <<loop_, telegram, before, stack, saved, foundVars>>

ExpectToBeFirst ==
    /\ Matching("EXPECT_TO_BE_FIRST")
    /\ AcceptIf(Top.consumed = 0, 0, cap, FALSE)

\* No pattern asks to put the byte back.
ExpectTypeExact ==
    /\ Matching("EXPECT_TYPE_EXACT")
    /\ AcceptIf(Peek(0) = Current.param_u8_a, 1, cap, TRUE)

ExpectTypeUI8 ==
    /\ Matching("EXPECT_TYPE_U_I_8")
    /\ AcceptIf(Peek(0) \in {INT8, UINT8}, 1, cap, TRUE)

ExpectClassIdUntagged ==
    /\ Matching("EXPECT_CLASS_ID_UNTAGGED")
    /\ AcceptIf(ReadU16 <= MAX_CLASS_ID, 2, [cap EXCEPT !.class_id = ReadU16], FALSE)

ExpectObis6Tagged ==
    /\ Matching("EXPECT_OBIS6_TAGGED")
    /\ AcceptIf(Peek(0) = OCTET_STRING /\ Peek(1) = 6 /\ Fits(8), 8,
                [cap EXCEPT !.obis = position + 2], TRUE)

ExpectObis6Untagged ==
    /\ Matching("EXPECT_OBIS6_UNTAGGED")
    /\ AcceptIf(Fits(6), 6, [cap EXCEPT !.obis = position], FALSE)

ExpectAttr8Untagged ==
    /\ Matching("EXPECT_ATTR8_UNTAGGED")
    /\ AcceptIf(Peek(0) # 0, 1, cap, FALSE)

\* capture_generic_value_()
CaptureGenericValue(fits, type) ==
    LET header == HeaderLen(Peek(0))
        len == DataLen(Peek(0))
    IN  AcceptIf(IsValueDataType(Peek(0)) /\ DataFits(Peek(0)) /\ fits, header + len,
                 [cap EXCEPT !.value_type = type,
                             !.value_ptr = IF Peek(0) = NONE THEN NullPtr
                                                             ELSE position + header,
                             !.value_len = len], TRUE)

ExpectValueGeneric ==
    LET isDateTime == Peek(0) = OCTET_STRING /\ Peek(1) = 12 /\ DateTime12(position + 2)
    IN  /\ Matching("EXPECT_VALUE_GENERIC")
        /\ CaptureGenericValue(TRUE, IF isDateTime THEN DATETIME ELSE Peek(0))

ExpectValueDtmAsOctetString ==
    /\ Matching("EXPECT_VALUE_DTM_AS_OCTET_STRING")
    /\ CaptureGenericValue(Peek(0) = OCTET_STRING /\ Peek(1) = 12, DATETIME)

ExpectStructureN ==
    /\ Matching("EXPECT_STRUCTURE_N")
    /\ AcceptIf(Peek(0) = STRUCTURE /\ Peek(1) = Current.param_u8_a, 2, cap, TRUE)

ExpectScalerTagged ==
    /\ Matching("EXPECT_SCALER_TAGGED")
    /\ AcceptIf(Peek(0) = INT8, 2,
                [cap EXCEPT !.scaler = Peek(1), !.has_scaler_unit = TRUE], TRUE)

ExpectUnitEnumTagged ==
    /\ Matching("EXPECT_UNIT_ENUM_TAGGED")
    /\ AcceptIf(Peek(0) = ENUM, 2,
                [cap EXCEPT !.unit_enum = Peek(1), !.has_scaler_unit = TRUE], TRUE)

\* GOING_DOWN and GOING_UP set a flag: a GOING_UP inside an S(...) returns to
\* the upper level at once.
GoingDownOrUp ==
    /\ \/ Matching("GOING_DOWN") /\ upper_level' = FALSE
       \/ Matching("GOING_UP") /\ upper_level' = TRUE
    /\ step' = step + 1
    /\ UNCHANGED <<loop_, telegram, position, before, stack, pattern, saved, cap,
                   elements_consumed_at_level, foundVars>>

\* emit_object_(): the callback is given pointers into the buffer.
EmitObject ==
    IF cap.obis = NullPtr
      THEN UNCHANGED foundVars
      ELSE /\ found' = Append(found, [captures |-> cap, from |-> saved, to |-> position])
           /\ objects_found_' = 1

\* Elements of its sequence that a pattern has used, one at least.
ElementsUsed ==
    IF elements_consumed_at_level = 0 THEN 1 ELSE elements_consumed_at_level

PatternMatched ==
    /\ loop_ = "MATCH"
    /\ pattern <= Len(Patterns)
    /\ step > Len(Steps)
    /\ EmitObject
    /\ stack' = Consume(stack, ElementsUsed)
    /\ loop_' = "ELEMENT"
    /\ UNCHANGED <<telegram, position, before, matchVars>>

\* handle_push_data_process_() goes on to clear_rx_buffers_(); what was local
\* to the calls is gone.
ClearRxBuffers ==
    /\ loop_ = "DONE"
    /\ loop_' = "WAITING"
    /\ telegram' = NoTelegram /\ position' = 0 /\ before' = 0
    /\ found' = <<>>
    /\ pattern' = 1 /\ step' = 1 /\ saved' = 0
    /\ cap' = NoCaptures /\ upper_level' = TRUE /\ elements_consumed_at_level' = 0
    /\ UNCHANGED <<stack, objects_found_>>

----------------------------------------------------------------------------
MatchStep ==
    \/ ExpectToBeFirst \/ ExpectTypeExact \/ ExpectTypeUI8 \/ ExpectClassIdUntagged
    \/ ExpectObis6Tagged \/ ExpectObis6Untagged \/ ExpectAttr8Untagged
    \/ ExpectValueGeneric \/ ExpectValueDtmAsOctetString \/ ExpectStructureN
    \/ ExpectScalerTagged \/ ExpectUnitEnumTagged \/ GoingDownOrUp

\* The call of process_push_data(), which nothing interrupts.
Process ==
    \/ ParseHead \/ LoopEnds \/ BeginSequence \/ EndSequence
    \/ TryMatchPatterns \/ MatchStep \/ PatternMatched \/ ReadElement
    \/ ClearRxBuffers

Next == Process \/ \E t \in Telegrams : ProcessPushData(t)

SafeSpec == Init /\ [][Next]_vars
Spec == SafeSpec /\ WF_vars(Process)

----------------------------------------------------------------------------
Captures ==
    [class_id : 0..MAX_CLASS_ID, obis : Nat \cup {NullPtr}, value_type : Byte,
     value_ptr : Nat \cup {NullPtr}, value_len : Nat,
     has_scaler_unit : BOOLEAN, scaler : Byte, unit_enum : Byte]

\* Types.
TypeOK ==
    /\ loop_ \in {"WAITING", "PARSE", "SEQUENCE", "ELEMENT", "MATCH", "DONE"}
    /\ data \in Seq(Byte)
    /\ position \in Nat /\ before \in Nat /\ saved \in Nat
    /\ objects_found_ \in 0..1
    /\ stack \in Seq([count : Byte \ {NoByte}, consumed : Byte])
    /\ loop_ \in {"ELEMENT", "MATCH"} => stack # <<>>
    /\ pattern \in Nat \ {0} /\ step \in Nat \ {0}
    /\ cap \in Captures
    /\ upper_level \in BOOLEAN /\ elements_consumed_at_level \in Nat
    /\ found \in Seq([captures : Captures, from : Nat, to : Nat])

\* The pointers of captures, with what they point to, stay between two places.
PointInside(c, from, to) ==
    /\ c.obis # NullPtr => from <= c.obis /\ c.obis + 6 <= to
    /\ c.value_ptr # NullPtr => from <= c.value_ptr /\ c.value_ptr + c.value_len <= to

\* Whatever the bytes are, cut or damaged: the position never passes the end
\* of the buffer, and the object handed to the callback lies between the place
\* where its pattern began and the position.
InsideBuffer ==
    /\ position <= Size
    /\ \A i \in DOMAIN found :
           /\ found[i].from <= found[i].to /\ found[i].to <= Size
           /\ PointInside(found[i].captures, found[i].from, found[i].to)

\* Whatever the bytes are: no byte is part of two objects, and objects are
\* reported in their order.  What a pattern that failed had captured, and where
\* it had come to, is given up with it.
ObjectsDisjoint ==
    \A i \in DOMAIN found :
        i > 1 => found[i - 1].to <= found[i].from

Slice(p, n) == SubSeq(data, p + 1, p + n)

\* What the callback, set_sensor_value(), uses of an object.
Reading(c) ==
    [obis |-> Slice(c.obis, 6),
     type |-> c.value_type,
     value |-> IF c.value_ptr = NullPtr THEN <<>> ELSE Slice(c.value_ptr, c.value_len),
     scaler |-> IF c.has_scaler_unit THEN c.scaler ELSE 0]

Readings == [i \in DOMAIN found |-> Reading(found[i].captures)]

\* The objects of a window are found: each once, in order, with its own value
\* and scaler, in every layout that a pattern describes and with other elements
\* between, also behind the header of an HDLC frame.  It depends on the header:
\* a byte of the notification flag's value can make the scan stop too early.
ObjectsFound ==
    loop_ = "DONE" /\ telegram.kind = "WHOLE" => Readings = telegram.objects

\* When the end of the window cuts a telegram, the objects before the cut are
\* found, the one that ends with it too, and nothing is made up of the rest.
CutIsPrefix ==
    telegram.kind \in {"WHOLE", "CUT"} =>
        /\ Len(found) <= Len(telegram.objects)
        /\ Readings = SubSeq(telegram.objects, 1, Len(found))
        /\ loop_ = "DONE" => Len(found) >= telegram.complete

\* The loop over a window ends, for all bytes, so that the hub goes on to
\* publish and to listen: each call of parse() reads on.
ParseTerminates == loop_ = "PARSE" ~> loop_ = "DONE"

\* No pattern asks for the type that read_byte_() returns at the end of the
\* buffer; those of register_pattern_dsl() ask for UINT16 only.
TypesKnown ==
    \A p \in DOMAIN Patterns : \A s \in DOMAIN Patterns[p].steps :
        Patterns[p].steps[s].type = "EXPECT_TYPE_EXACT" =>
            Patterns[p].steps[s].param_u8_a # NoByte

\* The place up to which the window is done with: a pattern that fails goes back
\* to where it began.
Reached == IF loop_ = "MATCH" THEN saved ELSE position

BytesLeft == Size - Reached

\* Of the innermost sequence.
ElementsLeft ==
    IF loop_ \in {"ELEMENT", "MATCH"} /\ Top.consumed < Top.count
      THEN Top.count - Top.consumed ELSE 0

\* Calls and returns on the way to the next byte.
CallsLeft ==
    CASE loop_ = "ELEMENT" -> 5
      [] loop_ = "MATCH" -> 4
      [] loop_ = "SEQUENCE" -> 3
      [] loop_ = "PARSE" -> 2
      [] loop_ = "DONE" -> 1
      [] OTHER -> 0

Matched == loop_ = "MATCH" /\ pattern <= Len(Patterns)
PatternsLeft == IF Matched THEN Len(Patterns) + 1 - pattern ELSE 0
StepsLeft == IF Matched /\ step <= Len(Steps) THEN Len(Steps) + 1 - step ELSE 0

\* What is left to do, most important first.
Rank == <<BytesLeft, Len(stack), ElementsLeft, CallsLeft, PatternsLeft, StepsLeft>>

\* Whatever the bytes are, each step over a window leaves less to do: elements
\* that stand for nothing, counts that a damaged byte has made too large, and
\* patterns that read bytes and give them back do not make the loop, or the
\* recursion of parse_sequence_(), go on for ever.
ParseProgress ==
    [][loop_ # "WAITING" => Rank' \in [1..6 -> Nat] /\ Below(Rank', Rank)]_vars
=============================================================================
