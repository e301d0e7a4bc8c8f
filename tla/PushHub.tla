------------------------------ MODULE PushHub ------------------------------
(***************************************************************************)
(* A hub in push mode: it listens to a meter that sends telegrams on its   *)
(* own, collects what comes in within receive_timeout of the first bytes,  *)
(* parses it and publishes the sensors, one a pass of loop().              *)
(*                                                                         *)
(* Time is millis(), a counter that wraps around.  The line brings at most *)
(* one chunk of a telegram in a unit of time; a chunk is what holds one    *)
(* object, chunks are numbered from power-on and a telegram is Size of     *)
(* them.  What the parser finds in them is AxdrParser's matter: all of a   *)
(* whole telegram, any part of a damaged one.                              *)
(***************************************************************************)
EXTENDS Naturals, Sequences

CONSTANTS
    sensors_,             \* sequence of [obis, publish], as in DlmsCosem
    receive_timeout_ms_,
    Size,                 \* chunks of a telegram
    Objects,              \* OBIS code in each chunk, over and over
    MillisModulus,        \* 2^32
    LoopGap,      \* bound: units of time between two passes of loop()
    MinRead,      \* bound: chunks a pass reads before read_time_limit_ms
    MinGap,       \* bound: units of silence between telegrams
    MaxUart,      \* bound: chunks the UART's receive buffer holds
    MaxTelegrams  \* bound: telegrams the meter sends

ASSUME PushAssumption ==
    /\ sensors_ \in Seq([obis : Nat, publish : BOOLEAN])
    /\ Size \in Nat \ {0}
    /\ Objects \in Seq(Nat) /\ Objects # <<>>
    /\ MillisModulus \in Nat \ {0}
    /\ receive_timeout_ms_ \in Nat
    /\ LoopGap \in Nat /\ MinRead \in Nat /\ MinGap \in Nat
    /\ MaxUart \in Nat /\ MaxTelegrams \in Nat

VARIABLES
    state_,
    millis,         \* the clock of the device
    last_rx_time_,
    in,             \* buffers_.in: chunks
    sensor_iter,    \* loop_state_.sensor_iter, a position
    has_value,      \* of each sensor: a value waits to be published
    value,          \* of each sensor: the chunk its value was in, 0 at first
    shown,          \* of each sensor: the value it published last, 0 at first
    indicate,       \* the binary sensors [connection, transmission]
    connections_tried_,
    uart,           \* chunks in the UART's receive buffer
    sent,           \* chunks the meter has sent
    quiet,          \* units of silence on the line, up to MinGap
    since,          \* units of time since the last pass of loop()
    deaf            \* history: chunks sent before the boot timeout

lineVars == <<uart, sent, quiet>>
inputVars == <<last_rx_time_, in, indicate, connections_tried_>>
sensorVars == <<sensor_iter, has_value, value, shown>>
vars == <<state_, millis, inputVars, sensorVars, lineVars, since, deaf>>

Positions == 1..Len(sensors_)
begin == 1
end == Len(sensors_) + 1

TelegramOf(c) == (c + Size - 1) \div Size
PartOf(c) == ((c - 1) % Size) + 1
ObisOf(c) == Objects[((c - 1) % Len(Objects)) + 1]

Init ==
    /\ state_ = "NOT_INITIALIZED"
    /\ millis \in 0..(MillisModulus - 1)
    /\ last_rx_time_ = 0
    /\ in = <<>>
    /\ sensor_iter = begin
    /\ has_value = [i \in Positions |-> FALSE]
    /\ value = [i \in Positions |-> 0]
    /\ shown = [i \in Positions |-> 0]
    /\ indicate = [connection |-> FALSE, transmission |-> FALSE]
    /\ connections_tried_ = 0
    /\ uart = <<>> /\ sent = 0 /\ quiet = 0
    /\ since = 0 /\ deaf = 0

----------------------------------------------------------------------------
\* Time and the line.  The meter sends a telegram without a pause, and stays
\* silent for at least MinGap before the next one.  A full buffer loses what
\* comes in.
ChunkArrives ==
    /\ sent < MaxTelegrams * Size
    /\ sent % Size # 0 \/ quiet = MinGap
    /\ sent' = sent + 1
    /\ uart' = IF Len(uart) < MaxUart THEN Append(uart, sent + 1) ELSE uart
    /\ quiet' = 0

Silence ==
    /\ sent % Size = 0
    /\ quiet' = IF quiet < MinGap THEN quiet + 1 ELSE quiet
    /\ UNCHANGED <<uart, sent>>

\* The main loop comes round at least every LoopGap.
Tick ==
    /\ since < LoopGap
    /\ since' = since + 1
    /\ millis' = (millis + 1) % MillisModulus
    /\ ChunkArrives \/ Silence
    /\ UNCHANGED <<state_, inputVars, sensorVars, deaf>>

----------------------------------------------------------------------------
\* setup(): the boot timeout.  The UART was locked before, see DlmsBus.
BootTimeout ==
    /\ state_ = "NOT_INITIALIZED"
    /\ uart' = <<>> /\ in' = <<>>
    /\ state_' = "IDLE"
    /\ deaf' = sent
    /\ UNCHANGED <<millis, last_rx_time_, indicate, connections_tried_,
                   sensorVars, sent, quiet, since>>

\* Mutant: every pass starts at the beginning of the buffer.
ReceiveRawAfresh(buf) == in' = uart /\ uart' = <<>>

\* receive_frame_raw_() behind the chunks in buf: what is available, or less
\* if it takes longer than read_time_limit_ms.
ReceiveRaw(buf) ==
    \E k \in 0..Len(uart) :
        /\ k = Len(uart) \/ k >= MinRead
        /\ in' = buf \o SubSeq(uart, 1, k)
        /\ uart' = SubSeq(uart, k + 1, Len(uart))

\* IDLE: last_rx_time_ is the time of this pass, and stays it until the end
\* of the telegram's window.
Idle ==
    /\ state_ = "IDLE"
    /\ last_rx_time_' = millis
    /\ IF uart = <<>>
         THEN UNCHANGED <<state_, in, indicate, connections_tried_, uart>>
         ELSE /\ ReceiveRaw(<<>>)
              /\ connections_tried_' = connections_tried_ + 1
              /\ indicate' = [indicate EXCEPT !.transmission = TRUE]
              /\ state_' = "COMMS_RX"
    /\ UNCHANGED sensorVars

\* Mutant: the moments are compared, not their distance.
RxTimedOutAt == millis >= last_rx_time_ + receive_timeout_ms_

\* check_rx_timeout_(): the difference of two uint32_t.
RxTimedOut ==
    (millis + MillisModulus - last_rx_time_) % MillisModulus >= receive_timeout_ms_

CommsRx ==
    /\ state_ = "COMMS_RX"
    /\ IF RxTimedOut
         THEN /\ state_' = IF in = <<>> THEN "IDLE" ELSE "PUSH_DATA_PROCESS"
              /\ indicate' = [connection |-> TRUE, transmission |-> FALSE]
              /\ UNCHANGED <<in, uart>>
         ELSE ReceiveRaw(in) /\ UNCHANGED <<state_, indicate>>
    /\ UNCHANGED <<last_rx_time_, connections_tried_, sensorVars>>

\* Objects that are found for certain: those of whole telegrams that follow
\* each other from the start of the buffer.
Whole ==
    {in[k] : k \in {j \in DOMAIN in :
        LET upto == TelegramOf(in[j]) * Size - in[1] + 1
        IN  /\ PartOf(in[1]) = 1
            /\ upto <= Len(in)
            /\ \A m \in 1..upto : in[m] = in[1] + m - 1}}

\* The objects found that set_sensor_value() finds the sensor for.
Takes(i, found) ==
    {c \in found : sensors_[i].publish /\ ObisOf(c) = sensors_[i].obis}

\* The objects are found in their order: a sensor is left with its last one.
SetSensorValues(found) ==
    LET Latest(own) == CHOOSE c \in own : \A d \in own : d <= c
    IN  /\ has_value' = [i \in Positions |-> has_value[i] \/ Takes(i, found) # {}]
        /\ value' = [i \in Positions |-> IF Takes(i, found) = {} THEN value[i]
                                         ELSE Latest(Takes(i, found))]

\* Also what came in since the window ended.
ClearRxBuffers == uart' = <<>> /\ in' = <<>>

PushDataProcess ==
    /\ state_ = "PUSH_DATA_PROCESS"
    /\ sensor_iter' = begin
    /\ state_' = "PUBLISH"
    /\ \E other \in SUBSET {in[k] : k \in DOMAIN in} :
        SetSensorValues(Whole \cup other)
    /\ ClearRxBuffers
    /\ UNCHANGED <<last_rx_time_, indicate, connections_tried_, shown>>

\* Mutant: the last sensor is taken for the end.
HasNextEarly == sensor_iter < Len(sensors_)

HasNext == sensor_iter # end

\* Mutant: counted up at the end of the sensors, too.
NextSensorAlways == sensor_iter + 1

NextSensor == IF HasNext THEN sensor_iter + 1 ELSE sensor_iter

\* Mutant: has_value_ = false left out of publish().
PublishKept(i) ==
    /\ shown' = IF has_value[i] THEN [shown EXCEPT ![i] = value[i]] ELSE shown
    /\ UNCHANGED has_value

\* publish()
Publish(i) ==
    IF sensors_[i].publish /\ has_value[i]
      THEN /\ shown' = [shown EXCEPT ![i] = value[i]]
           /\ has_value' = [has_value EXCEPT ![i] = FALSE]
      ELSE UNCHANGED <<shown, has_value>>

PublishSensors ==
    /\ state_ = "PUBLISH"
    /\ last_rx_time_' = millis
    /\ sensor_iter' = NextSensor
    /\ IF HasNext
         THEN Publish(sensor_iter) /\ UNCHANGED state_
         ELSE state_' = "IDLE" /\ UNCHANGED <<has_value, shown>>
    /\ UNCHANGED <<value, in, indicate, connections_tried_, uart>>

NotInitialized ==
    /\ state_ = "NOT_INITIALIZED"
    /\ UNCHANGED <<state_, inputVars, sensorVars, uart>>

\* One pass of loop(); update() does nothing in push mode.
Loop ==
    /\ NotInitialized \/ Idle \/ CommsRx \/ PushDataProcess \/ PublishSensors
    /\ since' = 0
    /\ UNCHANGED <<millis, sent, quiet, deaf>>

Next == Tick \/ BootTimeout \/ Loop

SafeSpec == Init /\ [][Next]_vars

\* Time goes on, and the framework runs the timer of setup() and loop().
Spec == SafeSpec /\ WF_vars(Tick) /\ WF_vars(BootTimeout) /\ WF_vars(Loop)

----------------------------------------------------------------------------
Chunks == 1..(MaxTelegrams * Size)

\* Types.
TypeOK ==
    /\ state_ \in {"NOT_INITIALIZED", "IDLE", "COMMS_RX", "PUSH_DATA_PROCESS", "PUBLISH"}
    /\ millis \in 0..(MillisModulus - 1)
    /\ last_rx_time_ \in 0..(MillisModulus - 1)
    /\ in \in Seq(Chunks) /\ uart \in Seq(Chunks)
    /\ sensor_iter \in begin..end
    /\ has_value \in [Positions -> BOOLEAN]
    /\ value \in [Positions -> Chunks \cup {0}]
    /\ shown \in [Positions -> Chunks \cup {0}]
    /\ indicate \in [connection : BOOLEAN, transmission : BOOLEAN]
    /\ connections_tried_ \in Nat
    /\ sent \in Chunks \cup {0} /\ deaf \in Chunks \cup {0}
    /\ quiet \in 0..MinGap /\ since \in 0..LoopGap

\* How the line and the framework time things so that a telegram has one
\* window to itself: loop() runs, and a pass reads at least what has come in
\* since the last one; a window is longer than a telegram, and a turn of the
\* clock longer than a window; the silence between telegrams outlasts a window
\* and the publishing after it; the buffer holds a telegram, or what comes in
\* while the hub publishes.
Timing ==
    /\ LoopGap >= 1 /\ MinRead >= LoopGap
    /\ receive_timeout_ms_ >= Size + LoopGap - 1
    /\ MillisModulus >= receive_timeout_ms_ + LoopGap
    /\ MinGap >= 3 * LoopGap + receive_timeout_ms_ - 2
    /\ MinGap + Size >= (Len(sensors_) + 4) * LoopGap + receive_timeout_ms_ - 1
    /\ MaxUart >= Size \/ MaxUart >= (Len(sensors_) + 2) * LoopGap

\* No reading waits over into the next telegram, to be published with its
\* readings: while the hub listens every sensor has published what it had,
\* those that are not published were given nothing.
NoReadingKept ==
    state_ # "PUBLISH" => \A i \in Positions : ~has_value[i]

\* What waits to be published comes from one telegram.
ShownTogether ==
    \A i, j \in Positions :
        has_value[i] /\ has_value[j] => TelegramOf(value[i]) = TelegramOf(value[j])

\* Every telegram that begins after the boot timeout reaches the sensors as a
\* whole: when the hub listens again and nothing is on the line, they show
\* the last one sent.
TelegramsPublished ==
    state_ = "IDLE" /\ uart = <<>> /\ sent % Size = 0 /\ sent >= deaf + Size =>
        \A i \in Positions :
            sensors_[i].publish
                /\ (\E c \in (sent - Size + 1)..sent : ObisOf(c) = sensors_[i].obis)
                => TelegramOf(shown[i]) = TelegramOf(sent)

\* The hub comes back to listening, over every wrap of the clock.
ListensAgain == state_ # "IDLE" ~> state_ = "IDLE"
=============================================================================
