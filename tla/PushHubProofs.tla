--------------------------- MODULE PushHubProofs ---------------------------
(***************************************************************************)
(* For any sensors and any objects in the telegrams: types, and that no    *)
(* reading waits in a listening hub, whatever the line and the timing; and *)
(* with the times of Timing, that telegrams reach the sensors, whole and   *)
(* one at a time.                                                          *)
(***************************************************************************)
EXTENDS PushHub, WellFoundedInduction, TLAPS

\* The part of the state that publishing depends on.
PublishTypeOK ==
    /\ has_value \in [Positions -> BOOLEAN]
    /\ sensor_iter \in begin..end

\* A sensor that is not published is given nothing, and in PUBLISH those
\* before the position have nothing left.
PublishedBefore ==
    \A i \in Positions :
        has_value[i] => sensors_[i].publish /\ state_ = "PUBLISH" /\ sensor_iter <= i

PublishInv == PublishTypeOK /\ PublishedBefore

LEMMA PositionsType ==
    /\ Len(sensors_) \in Nat /\ Positions \subseteq Nat
    /\ begin \in begin..end
    /\ \A i \in Positions : begin <= i /\ i < end
    /\ \A i \in begin..end : i # end => i \in Positions /\ i + 1 \in begin..end
<1>1. Len(sensors_) \in Nat
  BY PushAssumption
<1> QED
  BY <1>1 DEF Positions, begin, end

LEMMA PublishInvInit == Init => PublishInv
BY PositionsType DEF Init, PublishInv, PublishTypeOK, PublishedBefore

LEMMA PublishInvStep == PublishInv /\ [Next]_vars => PublishInv'
<1> SUFFICES ASSUME PublishInv, [Next]_vars PROVE PublishInv'
  OBVIOUS
<1> USE DEF PublishInv, PublishTypeOK, PublishedBefore
<1>1. CASE Tick
  BY <1>1 DEF Tick, sensorVars
<1>2. CASE BootTimeout
  BY <1>2 DEF BootTimeout, sensorVars
<1>3. CASE Loop
  <2>1. CASE NotInitialized
    BY <2>1 DEF NotInitialized, sensorVars
  <2>2. CASE Idle
    BY <2>2 DEF Idle, sensorVars
  <2>3. CASE CommsRx
    BY <2>3 DEF CommsRx, sensorVars
  <2>4. CASE PushDataProcess
    <3>1. PICK other \in SUBSET {in[k] : k \in DOMAIN in} :
              SetSensorValues(Whole \cup other)
      BY <2>4 DEF PushDataProcess
    <3>2. has_value' = [i \in Positions |->
                           has_value[i] \/ Takes(i, Whole \cup other) # {}]
      BY <3>1 DEF SetSensorValues
    <3>3. \A i \in Positions : ~has_value[i]
      BY <2>4 DEF PushDataProcess
    <3>4. \A i \in Positions : Takes(i, Whole \cup other) # {} => sensors_[i].publish
      BY DEF Takes
    <3>5. has_value' \in [Positions -> BOOLEAN]
      BY <3>2
    <3>6. \A i \in Positions : has_value'[i] => sensors_[i].publish
      BY <3>2, <3>3, <3>4
    <3>7. state_' = "PUBLISH" /\ sensor_iter' = begin
      BY <2>4 DEF PushDataProcess
    <3> QED
      BY <3>5, <3>6, <3>7, PositionsType DEF begin
  <2>5. CASE PublishSensors
    <3>1. CASE HasNext
      <4>1. sensor_iter \in Positions /\ sensor_iter' = sensor_iter + 1
        BY <2>5, <3>1, PositionsType DEF PublishSensors, HasNext, NextSensor
      <4>2. state_' = "PUBLISH" /\ Publish(sensor_iter)
        BY <2>5, <3>1 DEF PublishSensors
      <4>3. has_value' = [has_value EXCEPT ![sensor_iter] = FALSE]
        BY <4>1, <4>2 DEF Publish
      <4> QED
        BY <2>5, <4>1, <4>2, <4>3, PositionsType DEF PublishSensors
    <3>2. CASE ~HasNext
      <4>1. has_value' = has_value /\ sensor_iter' = sensor_iter
        BY <2>5, <3>2 DEF PublishSensors, NextSensor
      <4>2. \A i \in Positions : ~has_value[i]
        BY <2>5, <3>2, PositionsType DEF PublishSensors, HasNext
      <4> QED
        BY <4>1, <4>2
    <3> QED
      BY <3>1, <3>2
  <2> QED
    BY <1>3, <2>1, <2>2, <2>3, <2>4, <2>5 DEF Loop
<1>4. CASE UNCHANGED vars
  BY <1>4 DEF vars, sensorVars
<1> QED
  BY <1>1, <1>2, <1>3, <1>4 DEF Next

\* No reading waits over into the next telegram, to be published with its
\* readings: PUBLISH passes over every sensor, and set_sensor_value() gives
\* nothing to those that do not publish.
THEOREM PushNoReadingKept == Spec => []NoReadingKept
<1>1. Init => PublishInv
  BY PublishInvInit
<1>2. PublishInv /\ [Next]_vars => PublishInv'
  BY PublishInvStep
<1>3. PublishInv => NoReadingKept
  BY DEF PublishInv, PublishedBefore, NoReadingKept
<1> QED
  BY <1>1, <1>2, <1>3, PTL DEF Spec, SafeSpec
----------------------------------------------------------------------------
\* Types.  TypeOK is taken in three parts; each action leaves most alone.

ControlTypes ==
    /\ state_ \in {"NOT_INITIALIZED", "IDLE", "COMMS_RX", "PUSH_DATA_PROCESS", "PUBLISH"}
    /\ millis \in 0..(MillisModulus - 1)
    /\ last_rx_time_ \in 0..(MillisModulus - 1)
    /\ indicate \in [connection : BOOLEAN, transmission : BOOLEAN]
    /\ connections_tried_ \in Nat
    /\ quiet \in 0..MinGap /\ since \in 0..LoopGap

ChunkTypes ==
    /\ in \in Seq(Chunks) /\ uart \in Seq(Chunks)
    /\ sent \in Chunks \cup {0} /\ deaf \in Chunks \cup {0}

SensorTypes ==
    /\ sensor_iter \in begin..end
    /\ has_value \in [Positions -> BOOLEAN]
    /\ value \in [Positions -> Chunks \cup {0}]
    /\ shown \in [Positions -> Chunks \cup {0}]

LEMMA TypeParts == TypeOK <=> ControlTypes /\ ChunkTypes /\ SensorTypes
BY DEF TypeOK, ControlTypes, ChunkTypes, SensorTypes

LEMMA PartsTyped == ControlTypes' /\ ChunkTypes' /\ SensorTypes' => TypeOK'
BY DEF TypeOK, ControlTypes, ChunkTypes, SensorTypes

LEMMA ChunksType == MaxTelegrams * Size \in Nat /\ Chunks \subseteq Nat
<1>1. MaxTelegrams \in Nat /\ Size \in Nat
  BY PushAssumption
<1>2. MaxTelegrams * Size \in Nat
  BY <1>1
<1> QED
  BY <1>2 DEF Chunks

LEMMA PushTypeInit == Init => TypeOK
<1> SUFFICES ASSUME Init PROVE TypeOK
  OBVIOUS
<1>1. 0 \in 0..(MillisModulus - 1) /\ 0 \in 0..MinGap /\ 0 \in 0..LoopGap
  BY PushAssumption
<1>2. ControlTypes
  BY <1>1 DEF Init, ControlTypes
<1>3. ChunkTypes
  BY DEF Init, ChunkTypes
<1>4. SensorTypes
  BY PositionsType DEF Init, SensorTypes
<1> QED
  BY <1>2, <1>3, <1>4, TypeParts

\* Any chunks that are found have a last one: the order of the naturals is
\* well-founded, and so is that of the distances to the end.
LEMMA LatestExists ==
    ASSUME NEW own, own \subseteq Chunks, own # {}
    PROVE  \E c \in own : \A d \in own : d <= c
<1> DEFINE N == MaxTelegrams * Size
           far == {N - c : c \in own}
<1>1. N \in Nat /\ \A c \in own : c \in Nat /\ c <= N
  BY ChunksType DEF Chunks
<1> HIDE DEF N
<1>2. far \subseteq Nat /\ far # {}
  BY <1>1
<1>3. \E x \in far : \A y \in far : ~ (<<y, x>> \in OpToRel(<, Nat))
  <2> HIDE DEF far
  <2> QED
    BY <1>2, NatLessThanWellFounded, WFMin
<1>4. PICK x \in far : \A y \in far : ~ (<<y, x>> \in OpToRel(<, Nat))
  BY <1>3
<1>5. \A y \in far : ~ (y < x)
  <2> SUFFICES ASSUME NEW y \in far, y < x PROVE FALSE
    OBVIOUS
  <2>1. <<y, x>> \in Nat \X Nat
    BY <1>2
  <2>2. <<y, x>>[1] < <<y, x>>[2]
    OBVIOUS
  <2> QED
    BY <1>4, <2>1, <2>2 DEF OpToRel
<1>6. PICK c \in own : x = N - c
  BY <1>4
<1>7. \A d \in own : N - d \in far
  OBVIOUS
<1>8. ASSUME NEW d \in own PROVE d <= c
  <2>1. ~ (N - d < N - c)
    BY <1>5, <1>6, <1>7
  <2>2. c \in Nat /\ d \in Nat
    BY <1>1
  <2> QED
    BY <1>1, <2>1, <2>2
<1> QED
  BY <1>6, <1>8

LEMMA SetSensorValuesType ==
    ASSUME SensorTypes, NEW found, found \subseteq Chunks, SetSensorValues(found)
    PROVE  /\ has_value' \in [Positions -> BOOLEAN]
           /\ value' \in [Positions -> Chunks \cup {0}]
<1> DEFINE Latest(own) == CHOOSE c \in own : \A d \in own : d <= c
<1>1. ASSUME NEW i \in Positions, Takes(i, found) # {}
      PROVE  Latest(Takes(i, found)) \in Chunks
  <2>1. Takes(i, found) \subseteq Chunks
    BY DEF Takes
  <2>2. \E c \in Takes(i, found) : \A d \in Takes(i, found) : d <= c
    BY <1>1, <2>1, LatestExists
  <2>3. Latest(Takes(i, found)) \in Takes(i, found)
    BY <2>2
  <2> QED
    BY <2>1, <2>3
<1>2. value' = [i \in Positions |-> IF Takes(i, found) = {} THEN value[i]
                                    ELSE Latest(Takes(i, found))]
  BY DEF SetSensorValues
<1>3. has_value' = [i \in Positions |-> has_value[i] \/ Takes(i, found) # {}]
  BY DEF SetSensorValues
<1> HIDE DEF Latest
<1>4. value' \in [Positions -> Chunks \cup {0}]
  BY <1>1, <1>2 DEF SensorTypes
<1>5. has_value' \in [Positions -> BOOLEAN]
  BY <1>3 DEF SensorTypes
<1> QED
  BY <1>4, <1>5

LEMMA ReceiveRawType ==
    ASSUME ChunkTypes, NEW buf \in Seq(Chunks), ReceiveRaw(buf)
    PROVE  in' \in Seq(Chunks) /\ uart' \in Seq(Chunks)
<1>1. PICK k \in 0..Len(uart) :
          /\ in' = buf \o SubSeq(uart, 1, k)
          /\ uart' = SubSeq(uart, k + 1, Len(uart))
  BY DEF ReceiveRaw
<1>2. uart \in Seq(Chunks)
  BY DEF ChunkTypes
<1>3. SubSeq(uart, 1, k) \in Seq(Chunks) /\ SubSeq(uart, k + 1, Len(uart)) \in Seq(Chunks)
  BY <1>2
<1> QED
  BY <1>1, <1>3

LEMMA TickType == TypeOK /\ Tick => TypeOK'
<1> SUFFICES ASSUME TypeOK, Tick PROVE TypeOK'
  OBVIOUS
<1>1. /\ since < LoopGap /\ since' = since + 1
      /\ millis' = (millis + 1) % MillisModulus
      /\ UNCHANGED <<state_, inputVars, sensorVars, deaf>>
  BY DEF Tick
<1>2. millis' \in 0..(MillisModulus - 1)
  <2>1. MillisModulus \in Nat \ {0} /\ millis + 1 \in Nat
    BY PushAssumption DEF TypeOK
  <2> QED
    BY <1>1, <2>1
<1>3. since' \in 0..LoopGap
  BY <1>1, PushAssumption DEF TypeOK
<1>4. quiet' \in 0..MinGap /\ uart' \in Seq(Chunks) /\ sent' \in Chunks \cup {0}
  <2>1. CASE ChunkArrives
    <3>1. sent + 1 \in Chunks
      BY <2>1, ChunksType DEF ChunkArrives, TypeOK, Chunks
    <3>2. uart \in Seq(Chunks)
      BY DEF TypeOK
    <3>3. Append(uart, sent + 1) \in Seq(Chunks)
      BY <3>1, <3>2
    <3> QED
      BY <2>1, <3>1, <3>2, <3>3, PushAssumption DEF ChunkArrives
  <2>2. CASE Silence
    <3>1. quiet \in 0..MinGap /\ MinGap \in Nat
      BY PushAssumption DEF TypeOK
    <3>2. quiet' \in 0..MinGap
      BY <2>2, <3>1 DEF Silence
    <3> QED
      BY <2>2, <3>2 DEF Silence, TypeOK
  <2> QED
    BY <2>1, <2>2 DEF Tick
<1>5. ControlTypes'
  BY <1>1, <1>2, <1>3, <1>4, TypeParts DEF ControlTypes, inputVars
<1>6. ChunkTypes'
  BY <1>1, <1>4, TypeParts DEF ChunkTypes, inputVars
<1>7. SensorTypes'
  BY <1>1, TypeParts DEF SensorTypes, sensorVars
<1> QED
  BY <1>5, <1>6, <1>7, PartsTyped

LEMMA LoopType == TypeOK /\ Loop => TypeOK'
<1> SUFFICES ASSUME TypeOK, Loop PROVE TypeOK'
  OBVIOUS
<1>1. ControlTypes /\ ChunkTypes /\ SensorTypes
  BY TypeParts
<1>2. since' = 0 /\ 0 \in 0..LoopGap /\ UNCHANGED <<millis, sent, quiet, deaf>>
  BY PushAssumption DEF Loop
<1>3. CASE NotInitialized
  BY <1>1, <1>2, <1>3, PartsTyped DEF NotInitialized, ControlTypes, ChunkTypes,
     SensorTypes, inputVars, sensorVars
<1>4. CASE Idle
  <2>1. ControlTypes'
    <3>1. /\ state_' \in {"IDLE", "COMMS_RX"}
          /\ last_rx_time_' = millis
          /\ connections_tried_' \in {connections_tried_, connections_tried_ + 1}
          /\ \/ indicate' = indicate
             \/ indicate' = [indicate EXCEPT !.transmission = TRUE]
      BY <1>4 DEF Idle
    <3>2. indicate' \in [connection : BOOLEAN, transmission : BOOLEAN]
      BY <1>1, <3>1 DEF ControlTypes
    <3>3. connections_tried_' \in Nat
      BY <1>1, <3>1 DEF ControlTypes
    <3> QED
      BY <1>1, <1>2, <3>1, <3>2, <3>3 DEF ControlTypes
  <2>2. in' \in Seq(Chunks) /\ uart' \in Seq(Chunks)
    <3>1. CASE UNCHANGED <<in, uart>>
      BY <1>1, <3>1 DEF ChunkTypes
    <3>2. CASE ReceiveRaw(<<>>)
      <4>1. <<>> \in Seq(Chunks)
        OBVIOUS
      <4> QED
        BY <1>1, <3>2, <4>1, ReceiveRawType
    <3> QED
      BY <1>4, <3>1, <3>2 DEF Idle
  <2>3. ChunkTypes'
    BY <1>1, <1>2, <2>2 DEF ChunkTypes
  <2>4. SensorTypes'
    BY <1>1, <1>4 DEF Idle, SensorTypes, sensorVars
  <2> QED
    BY <2>1, <2>3, <2>4, PartsTyped
<1>5. CASE CommsRx
  <2>1. ControlTypes'
    <3>1. /\ state_' \in {state_, "IDLE", "PUSH_DATA_PROCESS"}
          /\ indicate' \in {indicate, [connection |-> TRUE, transmission |-> FALSE]}
          /\ UNCHANGED <<last_rx_time_, connections_tried_>>
      BY <1>5 DEF CommsRx
    <3>2. [connection |-> TRUE, transmission |-> FALSE]
              \in [connection : BOOLEAN, transmission : BOOLEAN]
      OBVIOUS
    <3> QED
      BY <1>1, <1>2, <3>1, <3>2 DEF ControlTypes
  <2>2. in' \in Seq(Chunks) /\ uart' \in Seq(Chunks)
    BY <1>1, <1>5, ReceiveRawType DEF CommsRx, ChunkTypes
  <2>3. ChunkTypes'
    BY <1>1, <1>2, <2>2 DEF ChunkTypes
  <2>4. SensorTypes'
    BY <1>1, <1>5 DEF CommsRx, SensorTypes, sensorVars
  <2> QED
    BY <2>1, <2>3, <2>4, PartsTyped
<1>6. CASE PushDataProcess
  <2>1. PICK other \in SUBSET {in[k] : k \in DOMAIN in} : SetSensorValues(Whole \cup other)
    BY <1>6 DEF PushDataProcess
  <2>2. Whole \cup other \subseteq Chunks
    <3>1. in \in Seq(Chunks)
      BY DEF TypeOK
    <3>2. \A k \in DOMAIN in : in[k] \in Chunks
      BY <3>1
    <3>3. Whole \subseteq {in[k] : k \in DOMAIN in}
      BY DEF Whole
    <3> QED
      BY <3>2, <3>3
  <2>3. has_value' \in [Positions -> BOOLEAN] /\ value' \in [Positions -> Chunks \cup {0}]
    BY <1>1, <2>1, <2>2, SetSensorValuesType
  <2>4. SensorTypes'
    BY <1>1, <1>6, <2>3, PositionsType DEF PushDataProcess, SensorTypes
  <2>5. ChunkTypes'
    BY <1>1, <1>2, <1>6 DEF PushDataProcess, ClearRxBuffers, ChunkTypes
  <2>6. ControlTypes'
    BY <1>1, <1>2, <1>6 DEF PushDataProcess, ControlTypes
  <2> QED
    BY <2>4, <2>5, <2>6, PartsTyped
<1>7. CASE PublishSensors
  <2>1. ControlTypes'
    <3>1. state_' \in {state_, "IDLE"} /\ last_rx_time_' = millis
      BY <1>7 DEF PublishSensors
    <3> QED
      BY <1>1, <1>2, <1>7, <3>1 DEF PublishSensors, ControlTypes
  <2>2. ChunkTypes'
    BY <1>1, <1>2, <1>7 DEF PublishSensors, ChunkTypes
  <2>3. SensorTypes'
    <3>1. sensor_iter' \in begin..end /\ value' = value
      BY <1>1, <1>7, PositionsType DEF PublishSensors, NextSensor, HasNext, SensorTypes
    <3>2. has_value' \in [Positions -> BOOLEAN] /\ shown' \in [Positions -> Chunks \cup {0}]
      <4>1. CASE UNCHANGED <<has_value, shown>>
        BY <1>1, <4>1 DEF SensorTypes
      <4>2. CASE HasNext /\ has_value' = [has_value EXCEPT ![sensor_iter] = FALSE]
                         /\ shown' = [shown EXCEPT ![sensor_iter] = value[sensor_iter]]
        <5>1. sensor_iter \in Positions
          BY <1>1, <4>2, PositionsType DEF HasNext, SensorTypes
        <5> QED
          BY <1>1, <4>2, <5>1 DEF SensorTypes
      <4> QED
        BY <1>7, <4>1, <4>2 DEF PublishSensors, Publish
    <3> QED
      BY <1>1, <3>1, <3>2 DEF SensorTypes
  <2> QED
    BY <2>1, <2>2, <2>3, PartsTyped
<1> QED
  BY <1>3, <1>4, <1>5, <1>6, <1>7 DEF Loop

LEMMA PushTypeStep == TypeOK /\ [Next]_vars => TypeOK'
<1> SUFFICES ASSUME TypeOK, [Next]_vars PROVE TypeOK'
  OBVIOUS
<1>1. CASE BootTimeout
  <2>1. ControlTypes'
    BY <1>1, TypeParts DEF BootTimeout, ControlTypes
  <2>2. ChunkTypes'
    BY <1>1, TypeParts DEF BootTimeout, ChunkTypes
  <2>3. SensorTypes'
    BY <1>1, TypeParts DEF BootTimeout, SensorTypes, sensorVars
  <2> QED
    BY <2>1, <2>2, <2>3, PartsTyped
<1>2. CASE UNCHANGED vars
  BY <1>2, TypeParts, PartsTyped DEF vars, inputVars, lineVars, sensorVars, ControlTypes,
     ChunkTypes, SensorTypes
<1> QED
  BY <1>1, <1>2, TickType, LoopType DEF Next

\* Types are invariant: the clock and last_rx_time_ stay below the modulus, a
\* sensor holds and shows nothing but what came in.
THEOREM PushTypeCorrect == Spec => []TypeOK
BY PushTypeInit, PushTypeStep, PTL DEF Spec, SafeSpec
----------------------------------------------------------------------------
\* Numbers: chunks and telegrams.

LEMMA DivMod ==
    ASSUME NEW x \in Nat
    PROVE  /\ x \div Size \in Nat /\ x % Size \in 0..(Size - 1)
           /\ x = (x \div Size) * Size + (x % Size)
<1> Size \in Nat \ {0}
  BY PushAssumption
<1> QED
  OBVIOUS

LEMMA DivModUnique ==
    ASSUME NEW q \in Nat, NEW p \in Nat,
           NEW r \in 0..(Size - 1), NEW s \in 0..(Size - 1),
           q * Size + r = p * Size + s
    PROVE  q = p /\ r = s
<1> Size \in Nat \ {0}
  BY PushAssumption
<1>1. ASSUME NEW a \in Nat, NEW b \in Nat, a < b PROVE a * Size + Size <= b * Size
  <2>1. b >= a + 1 /\ (a + 1) * Size = a * Size + Size
    BY <1>1
  <2> QED
    BY <2>1
<1>2. ~ (q < p) /\ ~ (p < q)
  BY <1>1
<1> QED
  BY <1>2

LEMMA DivModIs ==
    ASSUME NEW x \in Nat, NEW q \in Nat, NEW r \in 0..(Size - 1), x = q * Size + r
    PROVE  x \div Size = q /\ x % Size = r
<1> DEFINE p == x \div Size
           s == x % Size
<1>1. p \in Nat /\ s \in 0..(Size - 1) /\ x = p * Size + s
  BY DivMod
<1> HIDE DEF p, s
<1>2. q * Size + r = p * Size + s
  BY <1>1
<1>3. q = p /\ r = s
  BY <1>1, <1>2, DivModUnique
<1> QED
  BY <1>3 DEF p, s

\* The chunks of telegram t + 1 are those behind the first t * Size.
LEMMA TelegramIs ==
    ASSUME NEW t \in Nat, NEW c \in Nat, t * Size < c, c <= t * Size + Size
    PROVE  TelegramOf(c) = t + 1
<1> Size \in Nat \ {0} /\ t * Size \in Nat
  BY PushAssumption
<1>1. c + Size - 1 = (t + 1) * Size + (c - t * Size - 1)
  OBVIOUS
<1>2. c - t * Size - 1 \in 0..(Size - 1) /\ c + Size - 1 \in Nat
  OBVIOUS
<1>3. (c + Size - 1) \div Size = t + 1
  BY <1>1, <1>2, DivModIs
<1> QED
  BY <1>3 DEF TelegramOf

\* Within a telegram only its start and its end are between telegrams.
LEMMA BoundaryIs ==
    ASSUME NEW t \in Nat, NEW c \in Nat, t * Size <= c, c <= t * Size + Size
    PROVE  c % Size = 0 <=> c = t * Size \/ c = t * Size + Size
<1> Size \in Nat \ {0} /\ t * Size \in Nat /\ (t + 1) * Size = t * Size + Size
  BY PushAssumption
<1>1. CASE c < t * Size + Size
  <2>1. c - t * Size \in 0..(Size - 1) /\ c = t * Size + (c - t * Size)
    BY <1>1
  <2>2. c % Size = c - t * Size
    BY <2>1, DivModIs
  <2> QED
    BY <1>1, <2>2
<1>2. CASE c = t * Size + Size
  <2>1. c = (t + 1) * Size + 0 /\ 0 \in 0..(Size - 1)
    BY <1>2
  <2>2. c % Size = 0
    BY <2>1, DivModIs
  <2> QED
    BY <1>2, <2>2
<1> QED
  BY <1>1, <1>2

\* Every count of chunks is in some telegram, and not at its end.
LEMMA TelegramExists ==
    ASSUME NEW c \in Nat
    PROVE  \E t \in Nat : t * Size <= c /\ c < t * Size + Size
<1>1. (c \div Size) * Size <= c /\ c < (c \div Size) * Size + Size
  BY DivMod, PushAssumption
<1> QED
  BY <1>1, DivMod

\* The distance of two moments, RxTimedOut's.
Elapsed == (millis + MillisModulus - last_rx_time_) % MillisModulus

LEMMA ElapsedIs ==
    ASSUME TypeOK
    PROVE  /\ Elapsed \in 0..(MillisModulus - 1)
           /\ last_rx_time_ <= millis => Elapsed = millis - last_rx_time_
           /\ last_rx_time_ > millis => Elapsed = millis + MillisModulus - last_rx_time_
<1> MillisModulus \in Nat \ {0} /\ millis \in 0..(MillisModulus - 1)
        /\ last_rx_time_ \in 0..(MillisModulus - 1)
  BY PushAssumption DEF TypeOK
<1> QED
  BY DEF Elapsed

LEMMA ElapsedTick ==
    ASSUME TypeOK, Elapsed + 1 < MillisModulus,
           millis' = (millis + 1) % MillisModulus, last_rx_time_' = last_rx_time_
    PROVE  Elapsed' = Elapsed + 1
<1> MillisModulus \in Nat \ {0} /\ millis \in 0..(MillisModulus - 1)
        /\ last_rx_time_ \in 0..(MillisModulus - 1)
  BY PushAssumption DEF TypeOK
<1>1. millis' = IF millis + 1 = MillisModulus THEN 0 ELSE millis + 1
  OBVIOUS
<1>2. Elapsed' = (millis' + MillisModulus - last_rx_time_) % MillisModulus
  BY DEF Elapsed
<1>3. millis' \in 0..(MillisModulus - 1)
  BY <1>1
<1>4. Elapsed' = IF last_rx_time_ <= millis' THEN millis' - last_rx_time_
                 ELSE millis' + MillisModulus - last_rx_time_
  BY <1>2, <1>3
<1> QED
  BY <1>1, <1>4, ElapsedIs

----------------------------------------------------------------------------
\* A telegram has one window to itself, under Timing.  What is pending, in the
\* buffers, is the end of what was sent, and all of it from one telegram.

Pending == Len(in) + Len(uart)
First == sent - Pending             \* chunks that came before those

\* Units of time since the first pending chunk came.
Waited == Pending + quiet

\* The longest time that the hub does not listen: a pass for each sensor, and
\* one for the end.  A telegram that the boot timeout falls into has not waited
\* for that.
Busy == (Len(sensors_) + 1) * LoopGap
Late == IF First % Size = 0 THEN Busy ELSE 0

\* Nothing is lost, and everything in its place.
Consecutive ==
    /\ Pending <= sent /\ deaf <= First
    /\ \A k \in 1..Len(in) : in[k] = First + k
    /\ \A k \in 1..Len(uart) : uart[k] = First + Len(in) + k

\* The hub cuts what it receives at the ends of telegrams, and at the boot
\* timeout.
OneTelegram ==
    /\ First % Size = 0 \/ (First = deaf /\ state_ # "PUBLISH")
    /\ Pending > 0 => \E t \in Nat : t * Size <= First /\ sent <= t * Size + Size

Buffers ==
    /\ state_ \in {"IDLE", "PUBLISH"} => in = <<>>
    /\ state_ \in {"COMMS_RX", "PUSH_DATA_PROCESS"} => in # <<>>
    /\ state_ = "PUSH_DATA_PROCESS" => uart = <<>> /\ sent % Size = 0

\* The time that publishing took before the current sensor.
Passes == (sensor_iter - 1) * LoopGap

\* How long chunks are left waiting in each state.
Punctual ==
    Pending > 0 =>
        /\ state_ = "PUBLISH" => Waited <= Passes + since
        /\ state_ = "IDLE" => Waited <= Late + since
        /\ state_ = "COMMS_RX" => Waited <= Late + LoopGap + Elapsed
        /\ state_ = "PUSH_DATA_PROCESS" =>
               Waited <= Late + 2 * LoopGap + receive_timeout_ms_ + since - 1

\* The window: it is open no longer than to the pass after the timeout, the
\* telegram began before it did, and either the hub keeps up with the line or
\* it has read a chunk for each unit of time.
Window ==
    state_ = "COMMS_RX" =>
        /\ Elapsed < receive_timeout_ms_ + since
        /\ Elapsed < Waited \/ quiet = MinGap
        /\ \/ uart = <<>>
           \/ Len(uart) + quiet <= since
           \/ Elapsed + LoopGap <= Len(in) + since
        /\ Len(uart) <= Busy + since

QuietBetween == quiet > 0 => sent % Size = 0

LineInv ==
    /\ QuietBetween
    /\ state_ # "NOT_INITIALIZED" =>
           Consecutive /\ OneTelegram /\ Buffers /\ Punctual /\ Window

\* What the steps use of the types.
LEMMA LineTypes ==
    ASSUME TypeOK
    PROVE  /\ Len(in) \in Nat /\ Len(uart) \in Nat /\ Pending \in Nat
           /\ sent \in Nat /\ deaf \in Nat /\ quiet \in Nat /\ since \in Nat
           /\ quiet <= MinGap /\ since <= LoopGap /\ Waited \in Nat
           /\ Elapsed \in Nat /\ Elapsed < MillisModulus
<1>1. in \in Seq(Chunks) /\ uart \in Seq(Chunks) /\ sent \in Nat /\ deaf \in Nat
      /\ quiet \in 0..MinGap /\ since \in 0..LoopGap
  BY ChunksType DEF TypeOK
<1>2. Len(in) \in Nat /\ Len(uart) \in Nat
  BY <1>1
<1>3. Elapsed \in Nat /\ Elapsed < MillisModulus
  BY ElapsedIs, PushAssumption
<1> QED
  BY <1>1, <1>2, <1>3, PushAssumption DEF Pending, Waited

LEMMA InputPending == TypeOK /\ in # <<>> => Pending > 0
<1> SUFFICES ASSUME TypeOK, in # <<>> PROVE Pending > 0
  OBVIOUS
<1>1. in \in Seq(Chunks)
  BY DEF TypeOK
<1>2. Len(in) # 0
  BY <1>1
<1> QED
  BY <1>2, LineTypes DEF Pending

LEMMA ConstantTypes ==
    /\ Size \in Nat \ {0} /\ LoopGap \in Nat /\ receive_timeout_ms_ \in Nat
    /\ MinGap \in Nat /\ MinRead \in Nat /\ MaxUart \in Nat
    /\ MillisModulus \in Nat \ {0}
BY PushAssumption

LEMMA BusyIs ==
    /\ Busy \in Nat /\ Late \in {0, Busy}
    /\ (Len(sensors_) + 4) * LoopGap = Busy + 3 * LoopGap
    /\ (Len(sensors_) + 2) * LoopGap = Busy + LoopGap
    /\ \A i \in begin..end : /\ (i - 1) * LoopGap \in Nat
                             /\ (i - 1) * LoopGap + LoopGap <= Busy
                             /\ ((i + 1) - 1) * LoopGap = (i - 1) * LoopGap + LoopGap
<1>1. Len(sensors_) \in Nat /\ LoopGap \in Nat
  BY PositionsType, ConstantTypes
<1> DEFINE n == Len(sensors_)
<1>2. Busy = n * LoopGap + LoopGap /\ n * LoopGap \in Nat
  BY <1>1 DEF Busy
<1>3. ASSUME NEW i \in begin..end
      PROVE  /\ (i - 1) * LoopGap \in Nat /\ (i - 1) * LoopGap + LoopGap <= Busy
             /\ ((i + 1) - 1) * LoopGap = (i - 1) * LoopGap + LoopGap
  <2>1. i - 1 \in Nat /\ n - (i - 1) \in Nat /\ i \in Nat
    BY <1>1, <1>3 DEF begin, end
  <2>2. (i - 1) * LoopGap \in Nat /\ (n - (i - 1)) * LoopGap \in Nat
    BY <1>1, <2>1
  <2>3. n * LoopGap = (i - 1) * LoopGap + (n - (i - 1)) * LoopGap
    BY <1>1, <2>1
  <2>4. ((i + 1) - 1) * LoopGap = (i - 1) * LoopGap + LoopGap
    BY <1>1, <2>1
  <2> QED
    BY <1>1, <1>2, <2>2, <2>3, <2>4
<1>4. (n + 4) * LoopGap = n * LoopGap + 4 * LoopGap /\ (n + 2) * LoopGap = n * LoopGap + 2 * LoopGap
  BY <1>1
<1>5. Late \in {0, Busy}
  BY DEF Late
<1> QED
  BY <1>1, <1>2, <1>3, <1>4, <1>5

\* Timing, in the form that the steps use it.
LEMMA TimingIs ==
    ASSUME Timing
    PROVE  /\ LoopGap >= 1 /\ MinRead >= LoopGap
           /\ receive_timeout_ms_ >= Size + LoopGap - 1
           /\ MillisModulus >= receive_timeout_ms_ + LoopGap
           /\ MinGap >= 3 * LoopGap + receive_timeout_ms_ - 2
           /\ MinGap + Size >= Busy + 3 * LoopGap + receive_timeout_ms_ - 1
           /\ MaxUart >= Size \/ MaxUart >= Busy + LoopGap
BY BusyIs DEF Timing

\* All of that about one state: what the steps calculate with.
Numbers ==
    /\ Size \in Nat /\ Size >= 1 /\ LoopGap \in Nat /\ LoopGap >= 1
    /\ MinRead \in Nat /\ MinRead >= LoopGap
    /\ receive_timeout_ms_ \in Nat /\ receive_timeout_ms_ >= Size + LoopGap - 1
    /\ MillisModulus \in Nat /\ MillisModulus >= receive_timeout_ms_ + LoopGap
    /\ MinGap \in Nat /\ MinGap >= 3 * LoopGap + receive_timeout_ms_ - 2
    /\ Busy \in Nat /\ Busy >= 1 /\ Late \in Nat /\ Late \in {0, Busy}
    /\ MinGap + Size >= Busy + 3 * LoopGap + receive_timeout_ms_ - 1
    /\ MaxUart \in Nat /\ (MaxUart >= Size \/ MaxUart >= Busy + LoopGap)
    /\ Len(in) \in Nat /\ Len(uart) \in Nat
    /\ sent \in Nat /\ deaf \in Nat /\ quiet \in Nat /\ since \in Nat
    /\ quiet <= MinGap /\ since <= LoopGap
    /\ Elapsed \in Nat /\ Elapsed < MillisModulus
    /\ Pending \in Nat /\ Pending = Len(in) + Len(uart)
    /\ Waited \in Nat /\ Waited = Pending + quiet
    /\ First \in Int /\ First = sent - Pending

LEMMA PassesIs ==
    ASSUME TypeOK
    PROVE  Passes \in Nat /\ Passes + LoopGap <= Busy
           /\ ((sensor_iter + 1) - 1) * LoopGap = Passes + LoopGap
BY BusyIs DEF TypeOK, Passes

LEMMA NumbersHold == Timing /\ TypeOK => Numbers
<1> SUFFICES ASSUME Timing, TypeOK PROVE Numbers
  OBVIOUS
<1>1. /\ Size \in Nat \ {0} /\ LoopGap \in Nat /\ receive_timeout_ms_ \in Nat
      /\ MinGap \in Nat /\ MinRead \in Nat /\ MaxUart \in Nat /\ MillisModulus \in Nat
      /\ Busy \in Nat /\ Late \in {0, Busy}
  BY BusyIs, ConstantTypes
<1>2. /\ LoopGap >= 1 /\ MinRead >= LoopGap
      /\ receive_timeout_ms_ >= Size + LoopGap - 1
      /\ MillisModulus >= receive_timeout_ms_ + LoopGap
      /\ MinGap >= 3 * LoopGap + receive_timeout_ms_ - 2
      /\ MinGap + Size >= Busy + 3 * LoopGap + receive_timeout_ms_ - 1
      /\ MaxUart >= Size \/ MaxUart >= Busy + LoopGap
  BY TimingIs
<1>3. Busy >= 1
  <2>1. LoopGap <= Busy
    BY PassesIs, <1>1
  <2> QED
    BY <1>1, <1>2, <2>1
<1>4. /\ Len(in) \in Nat /\ Len(uart) \in Nat
      /\ sent \in Nat /\ deaf \in Nat /\ quiet \in Nat /\ since \in Nat
      /\ quiet <= MinGap /\ since <= LoopGap
      /\ Elapsed \in Nat /\ Elapsed < MillisModulus
  BY LineTypes
<1>5. /\ Pending \in Nat /\ Pending = Len(in) + Len(uart)
      /\ Waited \in Nat /\ Waited = Pending + quiet
      /\ First \in Int /\ First = sent - Pending
  BY <1>4 DEF Pending, Waited, First
<1> QED
  BY <1>1, <1>2, <1>3, <1>4, <1>5 DEF Numbers

\* While something is pending the next telegram does not begin.
LEMMA NoNextTelegram ==
    ASSUME Timing, TypeOK, LineInv, state_ # "NOT_INITIALIZED",
           since < LoopGap, Pending > 0, sent % Size = 0
    PROVE  quiet < MinGap
<1> Numbers
  BY NumbersHold
<1>1. Waited <= Late + 3 * LoopGap + receive_timeout_ms_ - 2
  <2>1. CASE state_ = "PUBLISH"
    <3>1. First % Size = 0 /\ Waited <= Passes + since
      BY <2>1 DEF LineInv, OneTelegram, Punctual
    <3>2. Late = Busy
      BY <3>1 DEF Late
    <3>3. Passes \in Nat /\ Passes + LoopGap <= Busy
      BY PassesIs
    <3> QED
      BY <3>1, <3>2, <3>3 DEF Numbers
  <2>2. CASE state_ = "IDLE"
    <3>1. Waited <= Late + since
      BY <2>2 DEF LineInv, Punctual
    <3> QED
      BY <3>1 DEF Numbers
  <2>3. CASE state_ = "COMMS_RX"
    <3>1. Waited <= Late + LoopGap + Elapsed /\ Elapsed < receive_timeout_ms_ + since
      BY <2>3 DEF LineInv, Punctual, Window
    <3> QED
      BY <3>1 DEF Numbers
  <2>4. CASE state_ = "PUSH_DATA_PROCESS"
    <3>1. Waited <= Late + 2 * LoopGap + receive_timeout_ms_ + since - 1
      BY <2>4 DEF LineInv, Punctual
    <3> QED
      BY <3>1 DEF Numbers
  <2> QED
    BY <2>1, <2>2, <2>3, <2>4 DEF TypeOK
<1>2. First % Size = 0 => Pending = Size
  <2>1. PICK t \in Nat : t * Size <= First /\ sent <= t * Size + Size
    BY DEF LineInv, OneTelegram
  <2>2. First \in Nat /\ First < sent /\ sent \in Nat /\ sent - First = Pending
    BY DEF LineInv, Consecutive, Numbers
  <2>3. t * Size \in Nat /\ Size \in Nat
    BY ConstantTypes
  <2>4. t * Size <= sent /\ First <= t * Size + Size
    BY <2>1, <2>2, <2>3
  <2>5. sent = t * Size \/ sent = t * Size + Size
    BY <2>1, <2>2, <2>4, BoundaryIs
  <2>6. First % Size = 0 => First = t * Size \/ First = t * Size + Size
    BY <2>1, <2>2, <2>4, BoundaryIs
  <2> QED
    BY <2>1, <2>2, <2>3, <2>5, <2>6
<1>3. Late = IF First % Size = 0 THEN Busy ELSE 0
  BY DEF Late
<1> QED
  BY <1>1, <1>2, <1>3 DEF Numbers

\* A chunk that arrives while others are pending is of their telegram, and
\* finds room.
LEMMA ChunkFits ==
    ASSUME Timing, TypeOK, LineInv, state_ # "NOT_INITIALIZED",
           since < LoopGap, ChunkArrives
    PROVE  /\ Len(uart) < MaxUart
           /\ Pending > 0 => sent % Size # 0 /\ quiet = 0
<1> Numbers
  BY NumbersHold
<1>1. Pending > 0 => sent % Size # 0
  <2>1. sent % Size # 0 \/ quiet = MinGap
    BY DEF ChunkArrives
  <2> QED
    BY <2>1, NoNextTelegram DEF Numbers
<1>2. Pending > 0 => quiet = 0
  BY <1>1 DEF LineInv, QuietBetween, Numbers
<1>3. CASE Pending = 0
  BY <1>3 DEF Numbers
<1>4. CASE Pending > 0 /\ MaxUart >= Size
  <2>1. PICK t \in Nat : t * Size <= First /\ sent <= t * Size + Size
    BY <1>4 DEF LineInv, OneTelegram
  <2>2. t * Size \in Nat /\ t * Size <= sent
    BY <1>4, <2>1 DEF Numbers
  <2>3. sent # t * Size + Size
    BY <1>1, <1>4, <2>1, <2>2, BoundaryIs DEF Numbers
  <2> QED
    BY <1>1, <1>2, <1>4, <2>1, <2>2, <2>3 DEF Numbers
<1>5. CASE Pending > 0 /\ MaxUart >= Busy + LoopGap
  <2>1. Len(uart) < Busy + LoopGap
    <3>1. CASE state_ = "PUBLISH"
      <4>1. Waited <= Passes + since /\ Passes \in Nat /\ Passes + LoopGap <= Busy
        BY <1>5, <3>1, PassesIs DEF LineInv, Punctual
      <4> QED
        BY <4>1 DEF Numbers
    <3>2. CASE state_ = "IDLE"
      <4>1. Waited <= Late + since
        BY <1>5, <3>2 DEF LineInv, Punctual
      <4> QED
        BY <4>1 DEF Numbers
    <3>3. CASE state_ = "COMMS_RX"
      <4>1. Len(uart) <= Busy + since
        BY <1>5, <3>3 DEF LineInv, Window
      <4> QED
        BY <4>1 DEF Numbers
    <3>4. CASE state_ = "PUSH_DATA_PROCESS"
      BY <1>1, <1>5, <3>4 DEF LineInv, Buffers
    <3> QED
      BY <3>1, <3>2, <3>3, <3>4 DEF TypeOK
  <2> QED
    BY <1>1, <1>2, <1>5, <2>1 DEF Numbers
<1> QED
  BY <1>1, <1>2, <1>3, <1>4, <1>5 DEF Numbers

\* What a tick does to the line.
LEMMA LineTick ==
    ASSUME Timing, TypeOK, LineInv, state_ # "NOT_INITIALIZED", Tick
    PROVE  /\ First' = First /\ in' = in /\ sent' - Len(uart') = sent - Len(uart)
           /\ \A k \in 1..Len(uart) : uart'[k] = uart[k]
           /\ \/ /\ sent' = sent + 1 /\ Len(uart') = Len(uart) + 1 /\ quiet' = 0
                 /\ uart'[Len(uart) + 1] = sent + 1
                 /\ Pending > 0 => sent % Size # 0 /\ quiet = 0
              \/ /\ sent' = sent /\ uart' = uart /\ sent % Size = 0
                 /\ quiet' = quiet + 1 \/ (quiet' = quiet /\ quiet' = MinGap)
<1> Numbers
  BY NumbersHold
<1>1. in' = in /\ since < LoopGap /\ uart \in Seq(Chunks)
  BY DEF Tick, inputVars, TypeOK
<1>2. CASE ChunkArrives
  <2>1. Len(uart) < MaxUart /\ (Pending > 0 => sent % Size # 0 /\ quiet = 0)
    BY <1>1, <1>2, ChunkFits
  <2>2. uart' = Append(uart, sent + 1) /\ sent' = sent + 1 /\ quiet' = 0
    BY <1>2, <2>1 DEF ChunkArrives
  <2>3. /\ Len(uart') = Len(uart) + 1 /\ uart'[Len(uart) + 1] = sent + 1
        /\ \A k \in 1..Len(uart) : uart'[k] = uart[k]
    BY <1>1, <2>2
  <2>4. First' = First
    BY <1>1, <2>2, <2>3 DEF First, Pending, Numbers
  <2>5. sent' - Len(uart') = sent - Len(uart)
    BY <2>2, <2>3 DEF Numbers
  <2> QED
    BY <1>1, <2>1, <2>2, <2>3, <2>4, <2>5
<1>3. CASE Silence
  <2>1. sent' = sent /\ uart' = uart /\ sent % Size = 0
    BY <1>3 DEF Silence
  <2>2. quiet' = quiet + 1 \/ (quiet' = quiet /\ quiet' = MinGap)
    BY <1>3 DEF Silence, Numbers
  <2>3. First' = First
    BY <1>1, <2>1 DEF First, Pending
  <2> QED
    BY <1>1, <2>1, <2>2, <2>3
<1> QED
  BY <1>2, <1>3 DEF Tick

LEMMA TickInv ==
    ASSUME Timing, TypeOK, TypeOK', LineInv, Tick
    PROVE  LineInv'
<1>1. QuietBetween'
  BY DEF LineInv, QuietBetween, Tick, ChunkArrives, Silence
<1>2. /\ UNCHANGED <<state_, sensor_iter, last_rx_time_, deaf>>
      /\ since' = since + 1 /\ since < LoopGap
      /\ millis' = (millis + 1) % MillisModulus
  BY DEF Tick, inputVars, sensorVars
<1> SUFFICES ASSUME state_ # "NOT_INITIALIZED"
             PROVE  Consecutive' /\ OneTelegram' /\ Buffers' /\ Punctual' /\ Window'
  BY <1>1, <1>2 DEF LineInv
<1> DEFINE Arrived == /\ sent' = sent + 1 /\ Len(uart') = Len(uart) + 1 /\ quiet' = 0
                      /\ uart'[Len(uart) + 1] = sent + 1
                      /\ Pending > 0 => sent % Size # 0 /\ quiet = 0
           Silent == /\ sent' = sent /\ uart' = uart /\ sent % Size = 0
                     /\ quiet' = quiet + 1 \/ (quiet' = quiet /\ quiet' = MinGap)
<1>3. First' = First /\ in' = in
      /\ \A k \in 1..Len(uart) : uart'[k] = uart[k]
  BY LineTick
<1>4. Arrived \/ Silent
  BY LineTick
<1> Numbers
  BY NumbersHold
<1>5. quiet' \in Nat /\ quiet' <= MinGap
  BY ConstantTypes DEF TypeOK
<1>6. ASSUME Arrived
      PROVE  /\ Pending' = Pending + 1 /\ Waited' = Pending + 1 /\ Waited' <= Waited + 1
             /\ Pending > 0 => Waited' = Waited + 1
  <2>1. Pending' = Pending + 1
    BY <1>3, <1>6 DEF Pending, Numbers
  <2>2. Waited' = Pending + 1
    BY <1>6, <2>1 DEF Waited, Numbers
  <2> QED
    BY <1>6, <2>1, <2>2 DEF Numbers
<1>7. ASSUME Silent
      PROVE  /\ Pending' = Pending /\ Waited' = Pending + quiet' /\ Waited' <= Waited + 1
             /\ Waited' = Waited + 1 \/ quiet' = MinGap
  <2>1. Pending' = Pending
    BY <1>3, <1>7 DEF Pending
  <2>2. Waited' = Pending + quiet'
    BY <2>1 DEF Waited
  <2> QED
    BY <1>5, <1>7, <2>1, <2>2 DEF Numbers
<1>8. Late' = Late /\ Passes' = Passes /\ Late \in Nat /\ Passes \in Nat
  BY <1>2, <1>3, PassesIs DEF Late, Busy, Passes, Numbers
<1>9. Consecutive'
  <2>0. Consecutive
    BY DEF LineInv
  <2>1. Pending' <= sent' /\ deaf' <= First'
    BY <1>2, <1>3, <1>4, <1>6, <1>7, <2>0 DEF Consecutive, Numbers
  <2>2. \A k \in 1..Len(in') : in'[k] = First' + k
    BY <1>3, <2>0 DEF Consecutive
  <2>3. \A k \in 1..Len(uart') : uart'[k] = First' + Len(in') + k
    <3>1. CASE Arrived
      <4>1. First + Len(in) + (Len(uart) + 1) = sent + 1
        BY DEF Numbers
      <4>2. \A k \in 1..Len(uart) : uart'[k] = First + Len(in) + k
        BY <1>3, <2>0 DEF Consecutive
      <4>3. \A k \in 1..(Len(uart) + 1) : k \in 1..Len(uart) \/ k = Len(uart) + 1
        BY DEF Numbers
      <4> QED
        BY <1>3, <3>1, <4>1, <4>2, <4>3
    <3>2. CASE Silent
      BY <1>3, <2>0, <3>2 DEF Consecutive
    <3> QED
      BY <1>4, <3>1, <3>2
  <2> QED
    BY <2>1, <2>2, <2>3 DEF Consecutive
<1>10. OneTelegram'
  <2>1. First' % Size = 0 \/ (First' = deaf' /\ state_' # "PUBLISH")
    BY <1>2, <1>3 DEF LineInv, OneTelegram
  <2>2. CASE Arrived /\ Pending = 0
    <3>1. First = sent
      BY <2>2 DEF Numbers
    <3>2. PICK t \in Nat : t * Size <= sent /\ sent < t * Size + Size
      BY TelegramExists DEF Numbers
    <3>3. t * Size <= First' /\ sent' <= t * Size + Size
      BY <1>3, <2>2, <3>1, <3>2 DEF Numbers
    <3> QED
      BY <2>1, <3>3 DEF OneTelegram
  <2>3. CASE Arrived /\ Pending > 0
    <3>1. PICK t \in Nat : t * Size <= First /\ sent <= t * Size + Size
      BY <2>3 DEF LineInv, OneTelegram
    <3>2. t * Size \in Nat /\ t * Size <= sent
      BY <2>3, <3>1 DEF Numbers
    <3>3. sent # t * Size + Size
      BY <2>3, <3>1, <3>2, BoundaryIs DEF Numbers
    <3>4. t * Size <= First' /\ sent' <= t * Size + Size
      BY <1>3, <2>3, <3>1, <3>2, <3>3 DEF Numbers
    <3> QED
      BY <2>1, <3>4 DEF OneTelegram
  <2>4. CASE Silent
    BY <1>3, <1>7, <2>1, <2>4 DEF LineInv, OneTelegram
  <2> QED
    BY <1>4, <2>2, <2>3, <2>4 DEF Numbers
<1>11. Buffers'
  <2>1. state_ = "PUSH_DATA_PROCESS" => Silent
    <3>1. state_ = "PUSH_DATA_PROCESS" => in # <<>> /\ sent % Size = 0
      BY DEF LineInv, Buffers
    <3>2. in # <<>> => Pending > 0
      BY InputPending
    <3> QED
      BY <1>4, <3>1, <3>2
  <2> QED
    BY <1>2, <1>3, <2>1 DEF LineInv, Buffers
<1>12. state_ = "COMMS_RX" => Elapsed' = Elapsed + 1
  <2>1. state_ = "COMMS_RX" => Elapsed + 1 < MillisModulus
    BY <1>2 DEF LineInv, Window, Numbers
  <2> QED
    BY <1>2, <2>1, ElapsedTick
<1> HIDE DEF Arrived, Silent
<1>13. Punctual'
  <2> SUFFICES ASSUME Pending' > 0
               PROVE  /\ state_ = "PUBLISH" => Waited' <= Passes + since + 1
                      /\ state_ = "IDLE" => Waited' <= Late + since + 1
                      /\ state_ = "COMMS_RX" => Waited' <= Late + LoopGap + Elapsed + 1
                      /\ state_ = "PUSH_DATA_PROCESS" =>
                             Waited' <= Late + 2 * LoopGap + receive_timeout_ms_ + since
    BY <1>2, <1>8, <1>12 DEF Punctual, Numbers
  <2>1. CASE Pending = 0
    <3>1. Arrived
      BY <1>4, <1>7, <2>1
    <3>2. Waited' = 1
      BY <1>6, <2>1, <3>1
    <3> QED
      BY <1>8, <3>2 DEF Numbers
  <2>2. CASE Pending > 0
    <3>1. Waited' <= Waited + 1 /\ Waited' \in Nat
      BY <1>4, <1>5, <1>6, <1>7 DEF Numbers
    <3>2. /\ state_ = "PUBLISH" => Waited <= Passes + since
          /\ state_ = "IDLE" => Waited <= Late + since
          /\ state_ = "COMMS_RX" => Waited <= Late + LoopGap + Elapsed
          /\ state_ = "PUSH_DATA_PROCESS" =>
                 Waited <= Late + 2 * LoopGap + receive_timeout_ms_ + since - 1
      BY <2>2 DEF LineInv, Punctual
    <3> QED
      BY <1>8, <3>1, <3>2 DEF Numbers
  <2> QED
    BY <2>1, <2>2 DEF Numbers
<1>14. Window'
  <2> SUFFICES ASSUME state_ = "COMMS_RX"
               PROVE  /\ Elapsed + 1 < receive_timeout_ms_ + (since + 1)
                      /\ Elapsed + 1 < Waited' \/ quiet' = MinGap
                      /\ \/ uart' = <<>>
                         \/ Len(uart') + quiet' <= since + 1
                         \/ Elapsed + 1 + LoopGap <= Len(in) + (since + 1)
                      /\ Len(uart') <= Busy + (since + 1)
    BY <1>2, <1>3, <1>12 DEF Window, Busy
  <2>1. /\ Elapsed < receive_timeout_ms_ + since
        /\ Elapsed < Waited \/ quiet = MinGap
        /\ \/ uart = <<>>
           \/ Len(uart) + quiet <= since
           \/ Elapsed + LoopGap <= Len(in) + since
        /\ Len(uart) <= Busy + since
    BY DEF LineInv, Window
  <2>2. Pending > 0
    BY InputPending DEF LineInv, Buffers
  <2>3. uart = <<>> => Len(uart) = 0
    OBVIOUS
  <2>4. CASE Arrived
    <3>1. Len(uart') = Len(uart) + 1 /\ quiet' = 0 /\ quiet = 0 /\ Waited' = Waited + 1
      BY <1>6, <2>2, <2>4 DEF Arrived
    <3>2. quiet # MinGap
      BY <3>1 DEF Numbers
    <3> QED
      BY <2>1, <2>3, <3>1, <3>2 DEF Numbers
  <2>5. CASE Silent
    <3>1. uart' = uart /\ quiet' <= quiet + 1 /\ (Waited' = Waited + 1 \/ quiet' = MinGap)
      BY <1>7, <2>5 DEF Silent, Numbers
    <3>2. quiet = MinGap => quiet' = MinGap
      BY <1>5, <2>5 DEF Silent, Numbers
    <3> QED
      BY <1>5, <2>1, <3>1, <3>2 DEF Numbers
  <2> QED
    BY <1>4, <2>4, <2>5
<1> QED
  BY <1>9, <1>10, <1>11, <1>13, <1>14

\* Reading moves chunks from one buffer to the other.
LEMMA ReceiveRawIs ==
    ASSUME TypeOK, Consecutive, ReceiveRaw(in), UNCHANGED <<sent, deaf>>
    PROVE  /\ Consecutive' /\ Pending' = Pending /\ First' = First
           /\ \E k \in Nat : /\ Len(in') = Len(in) + k /\ Len(uart') = Len(uart) - k
                             /\ k <= Len(uart)
                             /\ k = Len(uart) \/ k >= MinRead
                             /\ k = Len(uart) => uart' = <<>>
<1>1. PICK k \in 0..Len(uart) :
          /\ k = Len(uart) \/ k >= MinRead
          /\ in' = in \o SubSeq(uart, 1, k)
          /\ uart' = SubSeq(uart, k + 1, Len(uart))
  BY DEF ReceiveRaw
<1>2. in \in Seq(Chunks) /\ uart \in Seq(Chunks)
  BY DEF TypeOK
<1>3. Len(in) \in Nat /\ Len(uart) \in Nat /\ sent \in Nat /\ First \in Int
  BY LineTypes DEF First
<1>4. /\ Len(in') = Len(in) + k /\ Len(uart') = Len(uart) - k
      /\ \A j \in 1..Len(in) : in'[j] = in[j]
      /\ \A j \in 1..k : in'[Len(in) + j] = uart[j]
      /\ \A j \in 1..(Len(uart) - k) : uart'[j] = uart[k + j]
  BY <1>1, <1>2
<1>5. Pending' = Pending /\ First' = First
  BY <1>3, <1>4 DEF First, Pending
<1>6. \A j \in 1..Len(in') : in'[j] = First' + j
  <2> SUFFICES ASSUME NEW j \in 1..Len(in') PROVE in'[j] = First + j
    BY <1>5
  <2>1. CASE j <= Len(in)
    BY <1>3, <1>4, <2>1 DEF Consecutive
  <2>2. CASE j > Len(in)
    <3>1. j - Len(in) \in 1..k /\ j = Len(in) + (j - Len(in))
      BY <1>3, <1>4, <2>2
    <3>2. in'[j] = uart[j - Len(in)]
      BY <1>4, <3>1
    <3>3. uart[j - Len(in)] = First + Len(in) + (j - Len(in))
      BY <1>3, <3>1 DEF Consecutive
    <3> QED
      BY <1>3, <3>2, <3>3
  <2> QED
    BY <1>3, <1>4, <2>1, <2>2
<1>7. \A j \in 1..Len(uart') : uart'[j] = First' + Len(in') + j
  <2> SUFFICES ASSUME NEW j \in 1..(Len(uart) - k)
               PROVE  uart'[j] = First + (Len(in) + k) + j
    BY <1>4, <1>5
  <2>1. k + j \in 1..Len(uart)
    BY <1>3
  <2>2. uart[k + j] = First + Len(in) + (k + j)
    BY <2>1 DEF Consecutive
  <2> QED
    BY <1>3, <1>4, <2>2
<1>8. Consecutive'
  BY <1>5, <1>6, <1>7 DEF Consecutive
<1>9. k = Len(uart) => uart' = <<>>
  BY <1>1, <1>2
<1>10. k \in Nat /\ k <= Len(uart) /\ (k = Len(uart) \/ k >= MinRead)
  BY <1>1, <1>3
<1> QED
  BY <1>4, <1>5, <1>8, <1>9, <1>10

\* The buffers of one state after the other, when the pending chunks stay.
LEMMA OneTelegramKept ==
    ASSUME OneTelegram, First' = First, Pending' = Pending, UNCHANGED <<sent, deaf>>,
           state_' = "PUBLISH" => state_ = "PUBLISH"
    PROVE  OneTelegram' /\ Late' = Late
BY DEF OneTelegram, Late, Busy

LEMMA IdleInv ==
    ASSUME Timing, TypeOK, LineInv, Idle, since' = 0, UNCHANGED <<millis, sent, quiet, deaf>>
    PROVE  LineInv'
<1> Numbers
  BY NumbersHold
<1>1. /\ QuietBetween /\ Consecutive /\ OneTelegram /\ in = <<>> /\ state_ = "IDLE"
      /\ Pending > 0 => Waited <= Late + since
  BY DEF Idle, LineInv, Buffers, Punctual
<1>2. QuietBetween'
  BY <1>1 DEF QuietBetween
<1>3. CASE uart = <<>>
  <2>1. UNCHANGED <<state_, in, uart>>
    BY <1>3 DEF Idle
  <2>2. First' = First /\ Pending' = Pending /\ Pending = 0
    BY <1>1, <1>3, <2>1 DEF First, Pending
  <2>3. OneTelegram'
    BY <1>1, <2>1, <2>2, OneTelegramKept
  <2>4. Consecutive'
    BY <1>1, <2>1, <2>2 DEF Consecutive
  <2> QED
    BY <1>1, <1>2, <2>1, <2>2, <2>3, <2>4 DEF LineInv, Buffers, Punctual, Window
<1>4. CASE uart # <<>>
  <2>1. ReceiveRaw(in) /\ state_' = "COMMS_RX" /\ last_rx_time_' = millis
    BY <1>1, <1>4 DEF Idle
  <2>2. Consecutive' /\ Pending' = Pending /\ First' = First
    BY <1>1, <2>1, ReceiveRawIs
  <2>3. PICK k \in Nat : /\ Len(in') = Len(in) + k /\ Len(uart') = Len(uart) - k
                         /\ k <= Len(uart)
                         /\ k = Len(uart) \/ k >= MinRead
                         /\ k = Len(uart) => uart' = <<>>
    BY <1>1, <2>1, ReceiveRawIs
  <2>4. OneTelegram' /\ Late' = Late
    BY <1>1, <2>1, <2>2, OneTelegramKept
  <2>5. Waited' = Waited
    BY <2>2 DEF Waited
  <2>6. Elapsed' = 0
    <3>1. millis \in 0..(MillisModulus - 1)
      BY DEF TypeOK
    <3>2. (millis + MillisModulus - millis) % MillisModulus = 0
      BY <3>1 DEF Numbers
    <3> QED
      BY <2>1, <3>2 DEF Elapsed
  <2>7. Len(uart) > 0 /\ Len(in) = 0
    BY <1>1, <1>4 DEF TypeOK, Numbers
  <2>8. Len(in') > 0
    BY <2>3, <2>7 DEF Numbers
  <2>9. Waited <= Late + since /\ Waited >= Len(uart)
    BY <1>1, <2>7 DEF Numbers
  <2>10. Buffers'
    <3>1. in' # <<>>
      BY <2>8
    <3> QED
      BY <2>1, <3>1 DEF Buffers
  <2>11. Punctual'
    BY <2>1, <2>4, <2>5, <2>6, <2>9 DEF Punctual, Numbers
  <2>12. Window'
    <3>1. 0 < receive_timeout_ms_ + 0 /\ 0 < Waited
      BY <2>7, <2>9 DEF Numbers
    <3>2. uart' = <<>> \/ 0 + LoopGap <= Len(in') + 0
      BY <2>3, <2>7 DEF Numbers
    <3>3. Len(uart') <= Busy + 0
      BY <2>3, <2>7, <2>9 DEF Numbers
    <3> QED
      BY <2>5, <2>6, <3>1, <3>2, <3>3 DEF Window, Busy
  <2> QED
    BY <1>2, <2>2, <2>4, <2>10, <2>11, <2>12 DEF LineInv
<1> QED
  BY <1>3, <1>4

\* When the window ends the telegram has, too, and all of it is read.
LEMMA WindowEnds ==
    ASSUME Timing, TypeOK, LineInv, state_ = "COMMS_RX",
           Elapsed >= receive_timeout_ms_
    PROVE  uart = <<>> /\ sent % Size = 0
<1> Numbers
  BY NumbersHold
<1>1. /\ Elapsed < receive_timeout_ms_ + since
      /\ Elapsed < Waited \/ quiet = MinGap
      /\ \/ uart = <<>>
         \/ Len(uart) + quiet <= since
         \/ Elapsed + LoopGap <= Len(in) + since
  BY DEF LineInv, Window
<1>2. Len(in) > 0
  BY DEF LineInv, Buffers, Numbers, TypeOK
<1>3. Pending <= Size
  <2>1. PICK t \in Nat : t * Size <= First /\ sent <= t * Size + Size
    BY <1>2 DEF LineInv, OneTelegram, Numbers
  <2>2. t * Size \in Nat
    BY ConstantTypes
  <2> QED
    BY <2>1, <2>2 DEF Numbers
<1>4. quiet >= LoopGap
  BY <1>1, <1>3 DEF Numbers
<1>5. sent % Size = 0
  BY <1>4 DEF LineInv, QuietBetween, Numbers
<1>6. Len(uart) = 0
  <2>1. uart = <<>> => Len(uart) = 0
    OBVIOUS
  <2> QED
    BY <1>1, <1>2, <1>3, <1>4, <2>1 DEF Numbers
<1>7. uart = <<>>
  BY <1>6 DEF TypeOK
<1> QED
  BY <1>5, <1>7

LEMMA CommsRxInv ==
    ASSUME Timing, TypeOK, LineInv, CommsRx, since' = 0, UNCHANGED <<millis, sent, quiet, deaf>>
    PROVE  LineInv'
<1> Numbers
  BY NumbersHold
<1>1. /\ QuietBetween /\ Consecutive /\ OneTelegram /\ in # <<>> /\ state_ = "COMMS_RX"
      /\ Pending > 0 => Waited <= Late + LoopGap + Elapsed
      /\ Window
  BY DEF CommsRx, LineInv, Buffers, Punctual
<1>2. QuietBetween'
  BY <1>1 DEF QuietBetween
<1>3. Elapsed' = Elapsed
  BY DEF CommsRx, Elapsed
<1>4. CASE RxTimedOut
  <2>1. uart = <<>> /\ sent % Size = 0
    BY <1>1, <1>4, WindowEnds DEF RxTimedOut, Elapsed
  <2>2. state_' = "PUSH_DATA_PROCESS" /\ UNCHANGED <<in, uart>>
    BY <1>1, <1>4 DEF CommsRx
  <2>3. First' = First /\ Pending' = Pending /\ Waited' = Waited
    BY <2>2 DEF First, Pending, Waited
  <2>4. OneTelegram' /\ Late' = Late
    BY <1>1, <2>2, <2>3, OneTelegramKept
  <2>5. Consecutive'
    BY <1>1, <2>2, <2>3 DEF Consecutive
  <2>6. Buffers'
    BY <1>1, <2>1, <2>2 DEF Buffers
  <2>7. Pending > 0 => Waited <= Late + 2 * LoopGap + receive_timeout_ms_ + 0 - 1
    BY <1>1 DEF Window, Numbers
  <2>8. Punctual'
    BY <2>2, <2>3, <2>4, <2>7 DEF Punctual
  <2>9. Window'
    BY <2>2 DEF Window
  <2> QED
    BY <1>2, <2>4, <2>5, <2>6, <2>8, <2>9 DEF LineInv
<1>5. CASE ~RxTimedOut
  <2>1. ReceiveRaw(in) /\ state_' = "COMMS_RX"
    BY <1>1, <1>5 DEF CommsRx
  <2>2. Consecutive' /\ Pending' = Pending /\ First' = First
    BY <1>1, <2>1, ReceiveRawIs
  <2>3. PICK k \in Nat : /\ Len(in') = Len(in) + k /\ Len(uart') = Len(uart) - k
                         /\ k <= Len(uart)
                         /\ k = Len(uart) \/ k >= MinRead
                         /\ k = Len(uart) => uart' = <<>>
    BY <1>1, <2>1, ReceiveRawIs
  <2>4. OneTelegram' /\ Late' = Late
    BY <1>1, <2>1, <2>2, OneTelegramKept
  <2>5. Waited' = Waited
    BY <2>2 DEF Waited
  <2>6. Len(in) > 0
    BY <1>1 DEF TypeOK, Numbers
  <2>7. Buffers'
    <3>1. Len(in') > 0
      BY <2>3, <2>6 DEF Numbers
    <3>2. in' # <<>>
      BY <3>1
    <3> QED
      BY <2>1, <3>2 DEF Buffers
  <2>8. Punctual'
    BY <1>1, <1>3, <2>1, <2>2, <2>4, <2>5 DEF Punctual
  <2>9. Window'
    <3>1. /\ Elapsed < receive_timeout_ms_ + since
          /\ Elapsed < Waited \/ quiet = MinGap
          /\ \/ uart = <<>>
             \/ Len(uart) + quiet <= since
             \/ Elapsed + LoopGap <= Len(in) + since
          /\ Len(uart) <= Busy + since
      BY <1>1 DEF Window
    <3>2. Elapsed < receive_timeout_ms_
      BY <1>5 DEF RxTimedOut, Elapsed, Numbers
    <3>3. uart = <<>> => Len(uart) = 0
      OBVIOUS
    <3>4. Len(uart') = 0 \/ Elapsed + LoopGap <= Len(in')
      BY <2>3, <3>1, <3>3 DEF Numbers
    <3>5. Len(uart') <= Busy
      BY <2>3, <3>1 DEF Numbers
    <3>6. Len(uart') = 0 => Len(uart') + quiet <= 0 \/ uart' = <<>>
      BY <2>3, <3>1, <3>3 DEF Numbers
    <3> QED
      BY <1>3, <2>1, <2>5, <3>1, <3>2, <3>4, <3>5, <3>6 DEF Window, Busy, Numbers
  <2> QED
    BY <1>2, <2>2, <2>4, <2>7, <2>8, <2>9 DEF LineInv
<1> QED
  BY <1>4, <1>5

LEMMA PushDataProcessInv ==
    ASSUME Timing, TypeOK, LineInv, PushDataProcess, UNCHANGED <<sent, quiet, deaf>>
    PROVE  LineInv' /\ First' = sent
<1> Numbers
  BY NumbersHold
<1>1. QuietBetween /\ Consecutive /\ sent % Size = 0 /\ state_' = "PUBLISH"
  BY DEF PushDataProcess, LineInv, Buffers
<1>2. in' = <<>> /\ uart' = <<>>
  BY DEF PushDataProcess, ClearRxBuffers
<1>3. Len(in') = 0 /\ Len(uart') = 0
  BY <1>2
<1>4. Pending' = 0 /\ First' = sent
  BY <1>3 DEF Pending, First, Numbers
<1>5. Consecutive'
  <2>1. deaf <= sent
    BY <1>1 DEF Consecutive, Numbers
  <2> QED
    BY <1>3, <1>4, <2>1 DEF Consecutive, Numbers
<1>6. OneTelegram'
  BY <1>1, <1>4 DEF OneTelegram
<1> QED
  BY <1>1, <1>2, <1>4, <1>5, <1>6 DEF LineInv, QuietBetween, Buffers, Punctual, Window

LEMMA PublishSensorsInv ==
    ASSUME Timing, TypeOK, LineInv, PublishSensors, since' = 0,
           UNCHANGED <<sent, quiet, deaf>>
    PROVE  LineInv' /\ First' = First
<1> Numbers
  BY NumbersHold
<1>1. /\ QuietBetween /\ Consecutive /\ OneTelegram /\ in = <<>> /\ First % Size = 0
      /\ state_ = "PUBLISH" /\ Late = Busy
      /\ Pending > 0 => Waited <= Passes + since
      /\ UNCHANGED <<in, uart>> /\ state_' \in {"PUBLISH", "IDLE"}
  BY DEF PublishSensors, LineInv, Buffers, Punctual, OneTelegram, Late
<1>2. First' = First /\ Pending' = Pending /\ Waited' = Waited
  BY <1>1 DEF First, Pending, Waited
<1>3. OneTelegram' /\ Late' = Late
  BY <1>1, <1>2, OneTelegramKept
<1>4. Consecutive' /\ QuietBetween'
  BY <1>1, <1>2 DEF Consecutive, QuietBetween
<1>5. Passes \in Nat /\ Passes + LoopGap <= Busy
  BY PassesIs
<1>6. Punctual'
  <2>1. CASE HasNext
    <3>1. state_' = "PUBLISH" /\ sensor_iter' = sensor_iter + 1
      BY <1>1, <2>1 DEF PublishSensors, NextSensor
    <3>2. Passes' = Passes + LoopGap
      BY <3>1, PassesIs DEF Passes
    <3> QED
      BY <1>1, <1>2, <1>5, <3>1, <3>2 DEF Punctual, Numbers
  <2>2. CASE ~HasNext
    <3>1. state_' = "IDLE"
      BY <2>2 DEF PublishSensors
    <3> QED
      BY <1>1, <1>2, <1>3, <1>5, <3>1 DEF Punctual, Numbers
  <2> QED
    BY <2>1, <2>2
<1> QED
  BY <1>1, <1>2, <1>3, <1>4, <1>6 DEF LineInv, Buffers, Window

LEMMA BootInv ==
    ASSUME TypeOK, LineInv, BootTimeout
    PROVE  LineInv' /\ First' = deaf'
<1>1. /\ state_' = "IDLE" /\ in' = <<>> /\ uart' = <<>> /\ UNCHANGED <<sent, quiet>>
      /\ deaf' = sent /\ sent \in Nat
  BY LineTypes DEF BootTimeout
<1>2. Len(in') = 0 /\ Len(uart') = 0
  BY <1>1
<1>3. Pending' = 0 /\ First' = sent
  BY <1>1, <1>2 DEF Pending, First
<1>4. Consecutive' /\ OneTelegram'
  BY <1>1, <1>2, <1>3 DEF Consecutive, OneTelegram
<1> QED
  BY <1>1, <1>3, <1>4 DEF LineInv, QuietBetween, Buffers, Punctual, Window

LEMMA LineInvStep ==
    ASSUME Timing, TypeOK, LineInv, [Next]_vars
    PROVE  LineInv'
<1>1. CASE Tick
  BY <1>1, PushTypeStep, TickInv
<1>2. CASE BootTimeout
  BY <1>2, BootInv
<1>3. CASE Loop
  <2>1. since' = 0 /\ UNCHANGED <<millis, sent, quiet, deaf>>
    BY <1>3 DEF Loop
  <2>2. CASE NotInitialized
    BY <2>1, <2>2 DEF NotInitialized, LineInv, QuietBetween
  <2> QED
    BY <1>3, <2>1, <2>2, IdleInv, CommsRxInv, PushDataProcessInv, PublishSensorsInv DEF Loop
<1>4. CASE UNCHANGED vars
  <2>1. /\ UNCHANGED <<state_, in, uart, sent, quiet, since, deaf, sensor_iter>>
        /\ UNCHANGED <<millis, last_rx_time_>>
    BY <1>4 DEF vars, inputVars, lineVars, sensorVars
  <2>2. Pending' = Pending /\ First' = First /\ Waited' = Waited /\ Elapsed' = Elapsed
        /\ Passes' = Passes /\ Late' = Late
    BY <2>1 DEF Pending, First, Waited, Elapsed, Passes, Late, Busy
  <2> QED
    BY <2>1, <2>2 DEF LineInv, QuietBetween, Consecutive, OneTelegram, Buffers, Punctual,
       Window, Busy
<1> QED
  BY <1>1, <1>2, <1>3, <1>4 DEF Next

LEMMA LineInvInit == Init => LineInv
BY DEF Init, LineInv, QuietBetween

----------------------------------------------------------------------------
\* What is published of a telegram.

\* All that is pending is of telegram t + 1.
LEMMA ReadFromOne ==
    ASSUME Timing, TypeOK, LineInv, state_ = "PUSH_DATA_PROCESS"
    PROVE  \E t \in Nat :
               /\ t * Size <= First /\ First < sent /\ sent = t * Size + Size
               /\ Len(in) = sent - First
               /\ \A k \in 1..Len(in) : in[k] = First + k
               /\ \A k \in DOMAIN in : TelegramOf(in[k]) = t + 1
<1> Numbers
  BY NumbersHold
<1>1. /\ Consecutive /\ OneTelegram /\ in # <<>> /\ uart = <<>> /\ sent % Size = 0
      /\ in \in Seq(Chunks)
  BY DEF LineInv, Buffers, TypeOK
<1>2. Pending = Len(in) /\ Len(in) > 0 /\ Len(in) = sent - First
  BY <1>1 DEF Numbers
<1>3. PICK t \in Nat : t * Size <= First /\ sent <= t * Size + Size
  BY <1>1, <1>2 DEF OneTelegram
<1>4. t * Size \in Nat /\ First \in Nat /\ First < sent
  BY <1>1, <1>2 DEF Consecutive, Numbers
<1>5. sent = t * Size + Size
  BY <1>1, <1>3, <1>4, BoundaryIs DEF Numbers
<1>6. \A k \in 1..Len(in) : in[k] = First + k
  BY <1>1 DEF Consecutive
<1>7. ASSUME NEW k \in DOMAIN in PROVE TelegramOf(in[k]) = t + 1
  <2>1. k \in 1..Len(in) /\ in[k] = First + k
    BY <1>1, <1>6
  <2>2. First + k \in Nat /\ t * Size < First + k /\ First + k <= t * Size + Size
    BY <1>2, <1>3, <1>4, <1>5, <2>1 DEF Numbers
  <2> QED
    BY <2>1, <2>2, TelegramIs
<1> QED
  BY <1>2, <1>3, <1>4, <1>5, <1>6, <1>7

\* What a sensor is given of the objects found.
LEMMA SetSensorValuesIs ==
    ASSUME TypeOK, NEW found, found \subseteq Chunks, SetSensorValues(found),
           NEW i \in Positions
    PROVE  /\ has_value'[i] <=> has_value[i] \/ Takes(i, found) # {}
           /\ Takes(i, found) # {} => value'[i] \in Takes(i, found)
<1> DEFINE Latest(own) == CHOOSE c \in own : \A d \in own : d <= c
<1>1. value'[i] = IF Takes(i, found) = {} THEN value[i] ELSE Latest(Takes(i, found))
  BY DEF SetSensorValues
<1>2. has_value'[i] <=> has_value[i] \/ Takes(i, found) # {}
  BY DEF SetSensorValues
<1>3. Takes(i, found) # {} => Latest(Takes(i, found)) \in Takes(i, found)
  <2>1. Takes(i, found) \subseteq Chunks
    BY DEF Takes
  <2>2. Takes(i, found) # {} =>
            \E c \in Takes(i, found) : \A d \in Takes(i, found) : d <= c
    BY <2>1, LatestExists
  <2> QED
    BY <2>2
<1> HIDE DEF Latest
<1> QED
  BY <1>1, <1>2, <1>3

LEMMA FoundAreRead ==
    ASSUME TypeOK, NEW other \in SUBSET {in[k] : k \in DOMAIN in}
    PROVE  /\ Whole \cup other \subseteq Chunks
           /\ \A i \in Positions : \A c \in Takes(i, Whole \cup other) :
                  \E k \in DOMAIN in : c = in[k]
<1>1. in \in Seq(Chunks)
  BY DEF TypeOK
<1>2. \A k \in DOMAIN in : in[k] \in Chunks
  BY <1>1
<1>3. \A c \in Whole \cup other : \E k \in DOMAIN in : c = in[k]
  BY DEF Whole
<1> QED
  BY <1>2, <1>3 DEF Takes

LEMMA TogetherStep ==
    ASSUME Timing, TypeOK, LineInv, PublishInv, ShownTogether, [Next]_vars
    PROVE  ShownTogether'
<1>1. CASE PushDataProcess
  <2>1. PICK other \in SUBSET {in[k] : k \in DOMAIN in} : SetSensorValues(Whole \cup other)
    BY <1>1 DEF PushDataProcess
  <2>2. PICK t \in Nat : \A k \in DOMAIN in : TelegramOf(in[k]) = t + 1
    BY <1>1, ReadFromOne DEF PushDataProcess
  <2>3. ASSUME NEW i \in Positions, has_value'[i]
        PROVE  TelegramOf(value'[i]) = t + 1
    <3>1. ~has_value[i]
      BY <1>1 DEF PublishInv, PublishedBefore, PushDataProcess
    <3>2. Takes(i, Whole \cup other) # {}
      BY <2>1, <2>3, <3>1, FoundAreRead, SetSensorValuesIs
    <3>3. value'[i] \in Takes(i, Whole \cup other)
      BY <2>1, <3>2, FoundAreRead, SetSensorValuesIs
    <3> QED
      BY <2>2, <3>3, FoundAreRead
  <2>4. \A i, j \in Positions : has_value'[i] /\ has_value'[j] =>
            TelegramOf(value'[i]) = TelegramOf(value'[j])
    BY <2>3
  <2> QED
    BY <2>4 DEF ShownTogether, TelegramOf
<1>2. CASE PublishSensors
  <2>1. value' = value
    BY <1>2 DEF PublishSensors
  <2>2. \A i \in Positions : has_value'[i] => has_value[i]
    <3>1. CASE has_value' = has_value
      BY <3>1
    <3>2. CASE has_value' = [has_value EXCEPT ![sensor_iter] = FALSE]
      BY <3>2 DEF PublishInv, PublishTypeOK
    <3> QED
      BY <1>2, <3>1, <3>2 DEF PublishSensors, Publish
  <2> QED
    BY <2>1, <2>2 DEF ShownTogether, TelegramOf
<1>3. CASE UNCHANGED sensorVars
  BY <1>3 DEF sensorVars, ShownTogether, TelegramOf
<1> QED
  BY <1>1, <1>2, <1>3 DEF Next, Tick, BootTimeout, Loop, NotInitialized, Idle, CommsRx, vars

\* What waits to be published comes from one telegram: a window receives chunks
\* of one only, and the hub publishes them all before it listens again.
THEOREM PushShownTogether ==
    ASSUME Timing
    PROVE  Spec => []ShownTogether
<1> DEFINE IInv == TypeOK /\ LineInv /\ PublishInv /\ ShownTogether
<1>1. Init => IInv
  <2>1. Init => ShownTogether
    BY DEF Init, ShownTogether
  <2> QED
    BY <2>1, PushTypeInit, LineInvInit, PublishInvInit
<1>2. IInv /\ [Next]_vars => IInv'
  BY PushTypeStep, LineInvStep, PublishInvStep, TogetherStep
<1> QED
  BY <1>1, <1>2, PTL DEF Spec, SafeSpec

\* Of the telegram before the pending chunks, when it began after the boot
\* timeout, each sensor that it has an object for shows one, or is about to.
Complete ==
    state_ # "NOT_INITIALIZED" /\ First >= deaf + Size =>
        \A i \in Positions :
            sensors_[i].publish
                /\ (\E c \in (First - Size + 1)..First : ObisOf(c) = sensors_[i].obis)
                => IF state_ = "PUBLISH" /\ sensor_iter <= i
                     THEN has_value[i] /\ TelegramOf(value[i]) = TelegramOf(First)
                     ELSE TelegramOf(shown[i]) = TelegramOf(First)

\* The objects of a telegram that is in the buffer as a whole are found.
LEMMA WholeIsFound ==
    ASSUME TypeOK, NEW t \in Nat, Len(in) = Size,
           \A k \in 1..Len(in) : in[k] = t * Size + k,
           NEW c \in (t * Size + 1)..(t * Size + Size)
    PROVE  c \in Whole
<1>1. Size \in Nat \ {0} /\ t * Size \in Nat /\ in \in Seq(Chunks) /\ c \in Nat
  <2>1. Size \in Nat \ {0}
    BY ConstantTypes
  <2>2. t * Size \in Nat
    BY <2>1
  <2>3. c \in Nat
    BY <2>1, <2>2
  <2>4. in \in Seq(Chunks)
    BY DEF TypeOK
  <2> QED
    BY <2>1, <2>2, <2>3, <2>4
<1> DEFINE j == c - t * Size
<1>2. j \in 1..Size /\ j \in DOMAIN in /\ in[j] = c /\ in[1] = t * Size + 1
  BY <1>1
<1>3. TelegramOf(c) = t + 1
  BY <1>1, TelegramIs
<1>4. TelegramOf(c) * Size - in[1] + 1 = Size
  <2>1. (t + 1) * Size = t * Size + Size
    BY <1>1
  <2> QED
    BY <1>1, <1>2, <1>3, <2>1
<1>5. PartOf(in[1]) = 1
  <2>1. in[1] - 1 = t * Size + 0 /\ 0 \in 0..(Size - 1) /\ in[1] - 1 \in Nat
    BY <1>1, <1>2
  <2>2. (in[1] - 1) % Size = 0
    BY <2>1, DivModIs
  <2> QED
    BY <2>2 DEF PartOf
<1>6. \A m \in 1..Size : in[m] = in[1] + m - 1
  BY <1>1, <1>2
<1> HIDE DEF j
<1>7. /\ PartOf(in[1]) = 1
      /\ TelegramOf(in[j]) * Size - in[1] + 1 <= Len(in)
      /\ \A m \in 1..(TelegramOf(in[j]) * Size - in[1] + 1) : in[m] = in[1] + m - 1
  BY <1>1, <1>2, <1>4, <1>5, <1>6
<1> QED
  BY <1>2, <1>7 DEF Whole

LEMMA FirstKept ==
    ASSUME TypeOK, LineInv, Idle \/ CommsRx, UNCHANGED <<sent, deaf>>
    PROVE  First' = First
<1>1. Consecutive
  BY DEF LineInv, Idle, CommsRx
<1>2. CASE UNCHANGED <<in, uart>>
  BY <1>2 DEF First, Pending
<1>3. CASE ReceiveRaw(in)
  BY <1>1, <1>3, ReceiveRawIs
<1>4. state_ = "IDLE" => in = <<>>
  BY DEF LineInv, Buffers
<1> QED
  BY <1>2, <1>3, <1>4 DEF Idle, CommsRx

\* Nothing is published, and the chunks before the pending ones stay the same.
LEMMA CompleteKept ==
    ASSUME Complete, First' = First, UNCHANGED <<sensorVars, deaf>>,
           state_ # "NOT_INITIALIZED", state_' = "PUBLISH" <=> state_ = "PUBLISH"
    PROVE  Complete'
BY DEF Complete, sensorVars, TelegramOf, ObisOf

LEMMA CompleteFound ==
    ASSUME Timing, TypeOK, LineInv, PushDataProcess, UNCHANGED <<sent, quiet, deaf>>
    PROVE  Complete'
<1>1. First' = sent /\ state_' = "PUBLISH" /\ sensor_iter' = 1
  BY PushDataProcessInv DEF PushDataProcess, begin
<1>2. PICK other \in SUBSET {in[k] : k \in DOMAIN in} : SetSensorValues(Whole \cup other)
  BY DEF PushDataProcess
<1>3. PICK t \in Nat :
          /\ t * Size <= First /\ First < sent /\ sent = t * Size + Size
          /\ Len(in) = sent - First
          /\ \A k \in 1..Len(in) : in[k] = First + k
          /\ \A k \in DOMAIN in : TelegramOf(in[k]) = t + 1
  BY ReadFromOne DEF PushDataProcess
<1> Numbers
  BY NumbersHold
<1> SUFFICES ASSUME sent >= deaf + Size,
                    NEW i \in Positions, sensors_[i].publish,
                    NEW c \in (sent - Size + 1)..sent, ObisOf(c) = sensors_[i].obis
             PROVE  has_value'[i] /\ TelegramOf(value'[i]) = TelegramOf(sent)
  BY <1>1, PositionsType DEF Complete, TelegramOf, ObisOf, begin
<1>4. t * Size \in Nat
  BY ConstantTypes
<1>5. First = t * Size
  <2>1. First % Size = 0 \/ First = deaf
    BY DEF LineInv, OneTelegram, PushDataProcess
  <2>2. CASE First = deaf
    BY <1>3, <1>4, <2>2 DEF Numbers
  <2>3. CASE First % Size = 0
    <3>1. First \in Nat /\ First <= t * Size + Size
      BY <1>3, <1>4 DEF Numbers
    <3>2. First = t * Size \/ First = t * Size + Size
      BY <1>3, <2>3, <3>1, BoundaryIs
    <3> QED
      BY <1>3, <1>4, <3>2 DEF Numbers
  <2> QED
    BY <2>1, <2>2, <2>3
<1>6. c \in Whole
  <2>1. Len(in) = Size
    <3>1. \A p \in Nat : (p + Size) - p = Size
      BY DEF Numbers
    <3>2. Len(in) = (t * Size + Size) - t * Size
      BY <1>3, <1>5
    <3> QED
      BY <1>4, <3>1, <3>2
  <2>0. \A k \in 1..Len(in) : in[k] = t * Size + k
    BY <1>3, <1>5
  <2>2. c \in (t * Size + 1)..(t * Size + Size)
    BY <1>3, <1>4 DEF Numbers
  <2> QED
    BY <2>0, <2>1, <2>2, WholeIsFound
<1>7. c \in Takes(i, Whole \cup other)
  BY <1>6 DEF Takes
<1>8. has_value'[i] /\ value'[i] \in Takes(i, Whole \cup other)
  BY <1>2, <1>7, FoundAreRead, SetSensorValuesIs
<1>9. TelegramOf(value'[i]) = t + 1
  BY <1>3, <1>8, FoundAreRead
<1>10. TelegramOf(sent) = t + 1
  BY <1>3, <1>4, TelegramIs DEF Numbers
<1> QED
  BY <1>8, <1>9, <1>10

LEMMA CompletePublished ==
    ASSUME Timing, TypeOK, LineInv, Complete, PublishSensors, since' = 0,
           UNCHANGED <<sent, quiet, deaf>>
    PROVE  Complete'
<1>1. First' = First /\ state_ = "PUBLISH" /\ value' = value
  BY PublishSensorsInv DEF PublishSensors
<1>2. sensor_iter \in begin..end /\ \A i \in Positions : i \in Nat /\ i < end
  BY PositionsType DEF TypeOK
<1>3. begin \in Nat /\ end \in Nat
  BY PositionsType DEF begin, end
<1> SUFFICES ASSUME First >= deaf + Size,
                    NEW i \in Positions, sensors_[i].publish,
                    \E c \in (First - Size + 1)..First : ObisOf(c) = sensors_[i].obis
             PROVE  IF state_' = "PUBLISH" /\ sensor_iter' <= i
                      THEN has_value'[i] /\ TelegramOf(value[i]) = TelegramOf(First)
                      ELSE TelegramOf(shown'[i]) = TelegramOf(First)
  BY <1>1 DEF Complete, TelegramOf, ObisOf
<1>4. IF sensor_iter <= i
        THEN has_value[i] /\ TelegramOf(value[i]) = TelegramOf(First)
        ELSE TelegramOf(shown[i]) = TelegramOf(First)
  BY <1>1 DEF Complete
<1>5. CASE ~HasNext
  <2>1. state_' = "IDLE" /\ shown' = shown /\ ~ (sensor_iter <= i)
    BY <1>2, <1>3, <1>5 DEF PublishSensors, HasNext
  <2> QED
    BY <1>4, <2>1
<1>6. CASE HasNext
  <2>1. state_' = "PUBLISH" /\ sensor_iter' = sensor_iter + 1 /\ Publish(sensor_iter)
        /\ sensor_iter \in Positions
    BY <1>1, <1>2, <1>6, PositionsType DEF PublishSensors, NextSensor, HasNext
  <2>2. CASE sensor_iter = i
    <3>1. shown' = [shown EXCEPT ![i] = value[i]]
      BY <1>2, <1>4, <2>1, <2>2 DEF Publish
    <3>2. shown'[i] = value[i]
      BY <3>1 DEF TypeOK
    <3> QED
      BY <1>2, <1>3, <1>4, <2>1, <2>2, <3>2 DEF TelegramOf
  <2>3. CASE sensor_iter # i
    <3>1. shown'[i] = shown[i] /\ has_value'[i] = has_value[i]
      BY <2>1, <2>3 DEF Publish, TypeOK
    <3>2. sensor_iter' <= i <=> sensor_iter <= i
      BY <1>2, <1>3, <2>1, <2>3
    <3> QED
      BY <1>4, <2>1, <3>1, <3>2 DEF TelegramOf
  <2> QED
    BY <2>2, <2>3
<1> QED
  BY <1>5, <1>6

LEMMA CompleteStep ==
    ASSUME Timing, TypeOK, LineInv, Complete, [Next]_vars
    PROVE  Complete'
<1>1. CASE Tick
  <2>1. UNCHANGED <<sensorVars, deaf, state_>>
    BY <1>1 DEF Tick
  <2>2. CASE state_ = "NOT_INITIALIZED"
    BY <2>1, <2>2 DEF Complete
  <2>3. CASE state_ # "NOT_INITIALIZED"
    <3>1. First' = First
      BY <1>1, <2>3, LineTick
    <3> QED
      BY <2>1, <2>3, <3>1, CompleteKept
  <2> QED
    BY <2>2, <2>3
<1>2. CASE BootTimeout
  <2>1. First' = deaf' /\ deaf' = sent /\ sent \in Nat
    BY <1>2, BootInv, LineTypes DEF BootTimeout
  <2>2. Size \in Nat \ {0}
    BY ConstantTypes
  <2>3. \A d \in Nat : ~ (d >= d + Size)
    BY <2>2
  <2> QED
    BY <2>1, <2>3 DEF Complete
<1>3. CASE Loop
  <2>1. since' = 0 /\ UNCHANGED <<millis, sent, quiet, deaf>>
    BY <1>3 DEF Loop
  <2>2. CASE NotInitialized
    BY <2>2 DEF NotInitialized, Complete
  <2>3. CASE Idle \/ CommsRx
    <3>1. First' = First
      BY <2>1, <2>3, FirstKept
    <3>2. /\ UNCHANGED sensorVars /\ state_ # "NOT_INITIALIZED"
          /\ state_' = "PUBLISH" <=> state_ = "PUBLISH"
      BY <2>3 DEF Idle, CommsRx
    <3> QED
      BY <2>1, <3>1, <3>2, CompleteKept
  <2> QED
    BY <1>3, <2>1, <2>2, <2>3, CompleteFound, CompletePublished DEF Loop
<1>4. CASE UNCHANGED vars
  <2>1. UNCHANGED <<in, uart, sent, deaf, sensorVars, state_>>
    BY <1>4 DEF vars, inputVars, lineVars
  <2>2. First' = First
    BY <2>1 DEF First, Pending
  <2>3. CASE state_ = "NOT_INITIALIZED"
    BY <2>1, <2>3 DEF Complete
  <2> QED
    BY <2>1, <2>2, <2>3, CompleteKept
<1> QED
  BY <1>1, <1>2, <1>3, <1>4 DEF Next

\* Every telegram that begins after the boot timeout reaches the sensors as a
\* whole: the hub loses no chunk of it, receives all of it in one window, and
\* publishes it before it listens again.
THEOREM PushTelegramsPublished ==
    ASSUME Timing
    PROVE  Spec => []TelegramsPublished
<1> DEFINE IInv == TypeOK /\ LineInv /\ Complete
<1>1. Init => IInv
  <2>1. Init => Complete
    BY DEF Init, Complete
  <2> QED
    BY <2>1, PushTypeInit, LineInvInit
<1>2. IInv /\ [Next]_vars => IInv'
  BY PushTypeStep, LineInvStep, CompleteStep
<1>3. IInv => TelegramsPublished
  <2> SUFFICES ASSUME IInv, state_ = "IDLE", uart = <<>>, sent >= deaf + Size
               PROVE  \A i \in Positions :
                          sensors_[i].publish
                              /\ (\E c \in (sent - Size + 1)..sent :
                                      ObisOf(c) = sensors_[i].obis)
                              => TelegramOf(shown[i]) = TelegramOf(sent)
    BY DEF TelegramsPublished
  <2>1. in = <<>> /\ sent \in Nat
    BY LineTypes DEF LineInv, Buffers
  <2>2. First = sent
    BY <2>1 DEF First, Pending
  <2> QED
    BY <2>2 DEF Complete
<1> QED
  BY <1>1, <1>2, <1>3, PTL DEF Spec, SafeSpec
=============================================================================
