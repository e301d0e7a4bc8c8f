----------------------------- MODULE DlmsCosem -----------------------------
(***************************************************************************)
(* One polled hub (DlmsCosemComponent without push_mode) in detail, with   *)
(* the meter it talks to and the other hubs of the device, which it meets  *)
(* in the registry of locked UARTs only.                                   *)
(*                                                                         *)
(* An action is one pass of loop(), a call of update() or a timer of       *)
(* setup(); passes run to completion, so actions interleave as calls do.   *)
(* Time is abstracted: a delay ends, and a reply times out, at some pass.  *)
(* A frame is one unit on the line; a request, and a value read from the   *)
(* meter, is named by the attribute it belongs to.  Sensors are kept in    *)
(* the multimap's order, iterators are positions, Len(sensors_) + 1 is     *)
(* end().                                                                  *)
(***************************************************************************)
EXTENDS ObjectLocker, Naturals, Sequences, FiniteSets

CONSTANTS
    sensors_,                   \* sequence of [obis, type, class, publish]
    auth_required_,             \* BOOLEAN
    delay_between_requests_ms_, \* 0: no delay
    failures_before_reboot_,    \* 0: never reboot
    Self, Others,               \* this hub and the other polled hubs
    Uarts, parent_,             \* the UARTs, and the one of each hub
    UnknownObjects,   \* positions of the sensors cosem_init() refuses
    MakerCanFail,     \* may a request maker of the library fail?
    LateReplies,      \* may a reply come in after the hub gave it up?
    MaxPasses,        \* bound: COMMS_TX passes that send one request
    MaxParts,         \* bound: HDLC frames of a reply before its last one
    MaxOwed,          \* bound: requests the meter still has to answer
    MaxUart           \* bound: frames the UART's receive buffer holds

Positions == 1..Len(sensors_)
Obis == {sensors_[i].obis : i \in Positions}

ASSUME SensorsAssumption ==
    /\ sensors_ \in Seq([obis : Nat \ {0}, type : {"SENSOR", "TEXT_SENSOR"},
                         class : {"DATA", "REGISTER", "CLOCK", "OTHER"},
                         publish : BOOLEAN])
    /\ \A i, j \in Positions : i <= j => sensors_[i].obis <= sensors_[j].obis
    /\ UnknownObjects \subseteq Positions

ASSUME ConfigAssumption ==
    /\ auth_required_ \in BOOLEAN
    /\ delay_between_requests_ms_ \in Nat
    /\ failures_before_reboot_ \in 0..100    \* int_range(min=0, max=100)

ASSUME BusAssumption ==
    /\ Self \notin Others
    /\ parent_ \in [Others \cup {Self} -> Uarts]

ASSUME LinkAssumption ==
    /\ MakerCanFail \in BOOLEAN
    /\ LateReplies \in BOOLEAN
    /\ MaxPasses \in Nat \ {0}
    /\ MaxParts \in Nat
    /\ MaxOwed \in Nat \ {0}
    /\ MaxUart \in Nat \ {0}

VARIABLES
    state_,
    wait_next,        \* wait_.next_state
    reading_state_,   \* [next_state, mission_critical, err_invalid_frames]
    exchange,         \* dlms_reading_state_: [request, last_error]
    out_left,         \* passes that sending buffers_.out_msg still takes
    reply,            \* buffers_.reply: [complete, dataType]
    gx_register,      \* buffers_.gx_register: [obis, value, scaler]
    gx_clock,         \* buffers_.gx_clock: [obis, value]
    request_iter, sensor_iter,    \* loop_state_
    sensor,           \* each sensor's [has_value, value, has_scale, scale]
    indicate,         \* the binary sensors [session, connection, transmission]
    stats,            \* stats_: [failures_, invalid_frames_]
    others,           \* the phase of each other hub, as in DlmsBus
    owed,             \* requests the meter has received and not yet answered
    uart,             \* frames waiting in the UART's receive buffer
    asked,            \* history: objects asked for in the current session
    clean             \* history: nothing of an earlier reply was around when
                      \* this exchange began

exchangeVars == <<reading_state_, exchange, out_left, reply, clean>>
gxVars == <<gx_register, gx_clock>>
iterVars == <<request_iter, sensor_iter, asked>>
busVars == <<locked_objects_, others>>
lineVars == <<owed, uart>>
vars == <<state_, wait_next, exchangeVars, gxVars, iterVars, sensor, indicate,
          stats, busVars, lineVars>>

States == {"NOT_INITIALIZED", "IDLE", "TRY_LOCK_BUS", "WAIT", "COMMS_TX",
           "COMMS_RX", "MISSION_FAILED", "OPEN_SESSION", "BUFFERS_REQ",
           "BUFFERS_RCV", "ASSOCIATION_REQ", "ASSOCIATION_RCV",
           "DATA_ENQ_UNIT", "DATA_ENQ", "DATA_RECV", "DATA_NEXT",
           "SESSION_RELEASE", "DISCONNECT_REQ", "PUBLISH"}

\* A request, and the value the meter returns for it.
Request(kind, obis) == [kind |-> kind, obis |-> obis]
LinkKinds == {"SNRM", "AARQ", "RLRQ", "DISC"}
ReadKinds == {"UNIT", "DATA"}
Requests == [kind : LinkKinds \cup ReadKinds \cup {"NONE", "EARLIER"}, obis : Obis \cup {0}]

\* What cosem_init() leaves in an object: nothing was read into it.
Unread == Request("NONE", 0)

\* An earlier request, once there is a new one.
Earlier == Request("EARLIER", 0)

begin == 1
end == Len(sensors_) + 1

\* Mutant: the key's own position + 1 twice, one object is skipped.
UpperBoundSkips(i) ==
    LET next == Cardinality({k \in Positions : sensors_[k].obis <= sensors_[i].obis}) + 1
    IN  IF next < end THEN next + 1 ELSE next

\* Mutant: std::next instead of upper_bound, duplicates are asked again.
UpperBoundNext(i) == i + 1

\* sensors_.upper_bound(key): the first sensor with a greater OBIS code.
UpperBound(i) ==
    Cardinality({k \in Positions : sensors_[k].obis <= sensors_[i].obis}) + 1

UnitWanted(i) ==
    /\ sensors_[i].type = "SENSOR"
    /\ sensors_[i].class = "REGISTER"
    /\ ~sensor[i].has_scale

----------------------------------------------------------------------------
InitReading == [next_state |-> "IDLE", mission_critical |-> FALSE, err_invalid_frames |-> 0]
InitExchange == [request |-> Unread, last_error |-> "OK"]
InitReply == [complete |-> TRUE, dataType |-> "NONE"]
CosemInit(obis) == [obis |-> obis, value |-> Unread, scaler |-> Unread]
InitClock(obis) == [obis |-> obis, value |-> Unread]
InitSensor == [i \in Positions |-> [has_value |-> FALSE, value |-> Unread,
                                    has_scale |-> FALSE, scale |-> Unread]]
InitIndicate == [session |-> FALSE, connection |-> FALSE, transmission |-> FALSE]
InitStats == [failures_ |-> 0, invalid_frames_ |-> 0]
InitOthers == [h \in Others |-> "NOT_INITIALIZED"]

Init ==
    /\ state_ = "NOT_INITIALIZED" /\ wait_next = "IDLE"
    /\ reading_state_ = InitReading /\ exchange = InitExchange
    /\ out_left = 0 /\ reply = InitReply /\ gx_register = CosemInit(0)
    /\ gx_clock = InitClock(0) /\ request_iter = begin
    /\ sensor_iter = begin /\ sensor = InitSensor /\ indicate = InitIndicate
    /\ stats = InitStats /\ others = InitOthers /\ owed = <<>>
    /\ uart = <<>> /\ asked = <<>> /\ clean = TRUE
    /\ LockerInit

\* App.safe_reboot(): the device starts again from power-on.
Reboot ==
    /\ state_' = "NOT_INITIALIZED" /\ wait_next' = "IDLE"
    /\ reading_state_' = InitReading /\ exchange' = InitExchange
    /\ out_left' = 0 /\ reply' = InitReply /\ gx_register' = CosemInit(0)
    /\ gx_clock' = InitClock(0) /\ request_iter' = begin
    /\ sensor_iter' = begin /\ sensor' = InitSensor
    /\ indicate' = InitIndicate /\ stats' = InitStats
    /\ others' = InitOthers /\ owed' = <<>> /\ uart' = <<>> /\ asked' = <<>>
    /\ clean' = TRUE
    /\ locked_objects_' = {}

----------------------------------------------------------------------------
\* The other hubs: DlmsBus's operations, with their own UART.
OtherBoot(h) ==
    /\ others[h] = "NOT_INITIALIZED"
    /\ others' = [others EXCEPT ![h] = "IDLE"]
    /\ UNCHANGED locked_objects_

OtherUpdate(h) ==
    /\ others[h] = "IDLE"
    /\ others' = [others EXCEPT ![h] = "WAITING"]
    /\ UNCHANGED locked_objects_

OtherOpen(h) ==
    /\ others[h] = "WAITING"
    /\ TryLock(parent_[h])
    /\ others' = [others EXCEPT ![h] = "SESSION"]

OtherClose(h) ==
    /\ others[h] = "SESSION"
    /\ Unlock(parent_[h])
    /\ others' = [others EXCEPT ![h] = "IDLE"]

OtherLoses(h) ==
    /\ MakerCanFail
    /\ others[h] = "SESSION"
    /\ others' = [others EXCEPT ![h] = "IDLE"]
    /\ UNCHANGED locked_objects_

Other(h) ==
    /\ \/ OtherBoot(h) \/ OtherUpdate(h) \/ OtherOpen(h)
       \/ OtherClose(h) \/ OtherLoses(h)
    /\ UNCHANGED <<state_, wait_next, exchangeVars, gxVars, iterVars, sensor,
                   indicate, stats, lineVars>>

\* Another hub's report_failure() reboots the device under this one.
OtherReboot(h) == others[h] = "SESSION" /\ Reboot

----------------------------------------------------------------------------
\* The meter and the line.  A request reaches the meter with its last byte.
Receive(request) ==
    owed' = IF Len(owed) < MaxOwed
              THEN Append(owed, [to |-> request, parts |-> MaxParts])
              ELSE owed

\* A frame of the reply to the oldest request arrives: one of several
\* ("PART") or the last one ("GOOD").  dlms_getData2() may refuse it, damaged
\* or with an error code such as access denied: as one of several, with the
\* rest of the reply behind it ("BAD_PART"), or as the last one ("ERROR").
\* The response parser may refuse a whole reply ("REJECT").
MeterReplies ==
    /\ owed # <<>>
    /\ Len(uart) < MaxUart
    /\ \/ \E form \in {"PART", "BAD_PART"} :
             /\ Head(owed).parts > 0
             /\ uart' = Append(uart, [to |-> Head(owed).to, form |-> form])
             /\ owed' = [owed EXCEPT ![1].parts = @ - 1]
       \/ \E form \in {"GOOD", "ERROR", "REJECT"} :
             /\ uart' = Append(uart, [to |-> Head(owed).to, form |-> form])
             /\ owed' = Tail(owed)
    /\ UNCHANGED <<state_, wait_next, exchangeVars, gxVars, iterVars, sensor,
                   indicate, stats, busVars>>

\* The request or the rest of its reply is lost.
MeterSilent ==
    /\ owed # <<>>
    /\ owed' = Tail(owed)
    /\ UNCHANGED <<state_, wait_next, exchangeVars, gxVars, iterVars, sensor,
                   indicate, stats, busVars, uart>>

----------------------------------------------------------------------------
\* setup(): the boot timeout, clear_rx_buffers_() and IDLE.
BootTimeout ==
    /\ state_ = "NOT_INITIALIZED"
    /\ state_' = "IDLE"
    /\ uart' = <<>>
    /\ UNCHANGED <<wait_next, exchangeVars, gxVars, iterVars, sensor, indicate,
                   stats, busVars, owed>>

\* Mutant: update() starts a collection in any state.
UpdateAnyState ==
    /\ state_ # "NOT_INITIALIZED"
    /\ state_' = "TRY_LOCK_BUS"
    /\ UNCHANGED <<wait_next, exchangeVars, gxVars, iterVars, sensor, indicate,
                   stats, busVars, lineVars>>

\* update(), also called by update_server_address(): refused unless IDLE.
Update ==
    /\ state_ = "IDLE"
    /\ state_' = "TRY_LOCK_BUS"
    /\ UNCHANGED <<wait_next, exchangeVars, gxVars, iterVars, sensor, indicate,
                   stats, busVars, lineVars>>

Idle ==
    /\ state_ = "IDLE"
    /\ indicate' = [indicate EXCEPT !.transmission = FALSE, !.session = FALSE]
    /\ UNCHANGED <<state_, wait_next, exchangeVars, gxVars, iterVars, sensor,
                   stats, busVars, lineVars>>

SetNextStateDelayed(ms, next) ==
    IF ms = 0
      THEN state_' = next /\ UNCHANGED wait_next
      ELSE state_' = "WAIT" /\ wait_next' = next

\* Mutant: the result of try_lock_uart_session_() is ignored.
TryLockBusIgnored ==
    /\ state_ = "TRY_LOCK_BUS"
    /\ locked_objects_' = locked_objects_ \cup {parent_[Self]}
    /\ indicate' = [indicate EXCEPT !.session = TRUE, !.connection = TRUE]
    /\ state_' = "OPEN_SESSION"
    /\ UNCHANGED <<wait_next, exchangeVars, gxVars, iterVars, sensor, stats,
                   others, lineVars>>

TryLockBus ==
    /\ state_ = "TRY_LOCK_BUS"
    /\ \/ /\ TryLock(parent_[Self])
          /\ indicate' = [indicate EXCEPT !.session = TRUE, !.connection = TRUE]
          /\ state_' = "OPEN_SESSION"
          /\ UNCHANGED wait_next
       \/ /\ IsLocked(parent_[Self])
          /\ SetNextStateDelayed(1000, "TRY_LOCK_BUS")
          /\ UNCHANGED <<indicate, locked_objects_>>
    /\ UNCHANGED <<exchangeVars, gxVars, iterVars, sensor, stats, others, lineVars>>

Wait ==
    /\ state_ = "WAIT"
    /\ state_' = wait_next
    /\ UNCHANGED <<wait_next, exchangeVars, gxVars, iterVars, sensor, indicate,
                   stats, busVars, lineVars>>

\* Mutant: <= instead of <.
HasMorePastEnd == out_left >= 0

\* has_more_messages_to_send()
HasMoreToSend == out_left > 0

CommsTx ==
    /\ state_ = "COMMS_TX"
    /\ indicate' = [indicate EXCEPT !.transmission = TRUE]
    /\ \/ /\ HasMoreToSend
          /\ out_left' = out_left - 1
          /\ IF out_left = 1 THEN Receive(exchange.request) ELSE UNCHANGED owed
          /\ UNCHANGED state_
       \/ /\ ~HasMoreToSend
          /\ state_' = "COMMS_RX"
          /\ UNCHANGED <<out_left, owed>>
    /\ UNCHANGED <<wait_next, reading_state_, exchange, reply, clean, gxVars,
                   iterVars, sensor, stats, busVars, uart>>

----------------------------------------------------------------------------
\* Mutant: the clock starts with the first byte of a reply.
RxTimedOutAfterBytes == uart # <<>>

\* check_rx_timeout_().  Unless LateReplies the loop is never held up for as
\* long as the timeout, and the meter answers within it or not at all.
RxTimedOut == LateReplies \/ uart = <<>>

\* Mutant: the session binary sensor follows the connection.
IndicateTimeoutSession ==
    indicate' = [session |-> FALSE, connection |-> FALSE, transmission |-> FALSE]

IndicateTimeout ==
    indicate' = [indicate EXCEPT !.connection = FALSE, !.transmission = FALSE]

\* abort_mission_() or on to the next state.
GiveUp ==
    IF reading_state_.mission_critical
      THEN state_' = "MISSION_FAILED" /\ UNCHANGED reading_state_
      ELSE /\ state_' = reading_state_.next_state
           /\ reading_state_' = [reading_state_ EXCEPT !.err_invalid_frames = @ + 1]

\* COMMS_RX, the reply timed out.  err_invalid_frames is added to the total
\* before it is counted up.
RxTimeout ==
    /\ state_ = "COMMS_RX"
    /\ RxTimedOut
    /\ exchange' = [exchange EXCEPT !.last_error = "HARDWARE_FAULT"]
    /\ stats' = [stats EXCEPT !.invalid_frames_ =
                                @ + reading_state_.err_invalid_frames]
    /\ IndicateTimeout
    /\ GiveUp
    /\ owed' = IF LateReplies THEN owed ELSE <<>>
    /\ UNCHANGED <<wait_next, out_left, reply, clean, gxVars, iterVars, sensor,
                   busVars, uart>>

\* dlms_getData2() fails: the hub goes on without parsing, last_error stays
\* OK, and the library may or may not have marked the reply complete.  What
\* the meter still has to send of the reply comes in the next exchange.
GetDataFails(frame) ==
    /\ frame.form \in {"BAD_PART", "ERROR"} \/ frame.to # exchange.request
    /\ \E complete \in BOOLEAN : reply' = [reply EXCEPT !.complete = complete]
    /\ reading_state_' = [reading_state_ EXCEPT !.err_invalid_frames = @ + 1]
    /\ state_' = reading_state_.next_state
    /\ UNCHANGED <<exchange, gxVars>>

\* Mutant: reply.complete is not looked at.
GetDataIncompleteMovesOn(frame) ==
    /\ frame.form = "PART"
    /\ reply' = [reply EXCEPT !.complete = FALSE]
    /\ state_' = reading_state_.next_state
    /\ UNCHANGED <<reading_state_, exchange, gxVars>>

GetDataIncomplete(frame) ==
    /\ frame.form = "PART"
    /\ reply' = [reply EXCEPT !.complete = FALSE]
    /\ UNCHANGED <<state_, reading_state_, exchange, gxVars>>

\* A complete reply.  A value has a data type; a structure, such as scaler
\* and unit, and a link-layer reply have none.
Complete(frame) ==
    reply' = [complete |-> TRUE,
              dataType |-> IF frame.to.kind = "DATA" THEN "VALUE" ELSE "NONE"]

\* The response parser of the current request: cl_updateValue() for a read.
Parse(frame) ==
    CASE exchange.request.kind = "UNIT" ->
            /\ gx_register' = [gx_register EXCEPT !.scaler = frame.to]
            /\ UNCHANGED gx_clock
      [] exchange.request.kind = "DATA" ->
            IF sensors_[request_iter].class = "CLOCK"
              THEN gx_clock' = [gx_clock EXCEPT !.value = frame.to] /\ UNCHANGED gx_register
              ELSE gx_register' = [gx_register EXCEPT !.value = frame.to] /\ UNCHANGED gx_clock
      [] OTHER -> UNCHANGED gxVars

\* The parsers of the release and disconnect replies accept anything.
AcceptsAll == exchange.request.kind \in {"RLRQ", "DISC"}

ParserAccepts(frame) ==
    /\ frame.form = "GOOD" \/ (frame.form = "REJECT" /\ AcceptsAll)
    /\ Complete(frame)
    /\ Parse(frame)
    /\ exchange' = [exchange EXCEPT !.last_error = "OK"]
    /\ state_' = reading_state_.next_state
    /\ UNCHANGED reading_state_

ParserRefuses(frame) ==
    /\ frame.form \in {"GOOD", "REJECT"}
    /\ frame.form = "REJECT" \/ frame.to # exchange.request
    /\ ~AcceptsAll
    /\ Complete(frame)
    /\ exchange' = [exchange EXCEPT !.last_error = "PARSE_ERROR"]
    /\ state_' = IF reading_state_.mission_critical THEN "MISSION_FAILED"
                                                   ELSE reading_state_.next_state
    /\ UNCHANGED <<reading_state_, gxVars>>

\* COMMS_RX, an HDLC frame has come in.
RxFrame ==
    /\ state_ = "COMMS_RX"
    /\ uart # <<>>
    /\ LET frame == Head(uart)
       IN \/ GetDataFails(frame)
          \/ GetDataIncomplete(frame)
          \/ ParserAccepts(frame)
          \/ ParserRefuses(frame)
    /\ uart' = Tail(uart)
    /\ UNCHANGED <<wait_next, out_left, clean, iterVars, sensor, indicate, stats,
                   busVars, owed>>

----------------------------------------------------------------------------
\* Of earlier replies only that is known: they answer another request.
Aged(replies) == [k \in DOMAIN replies |-> [replies[k] EXCEPT !.to = Earlier]]

\* send_dlms_req_and_next(): a failing maker leaves for IDLE at once.  What
\* is in the UART stays there.
SendReqAndNext(request, next_state, mission_critical) ==
    /\ exchange' = [request |-> request, last_error |-> "OK"]
    /\ reply' = InitReply
    /\ clean' = (owed = <<>> /\ uart = <<>>)
    /\ owed' = Aged(owed) /\ uart' = Aged(uart)
    /\ \/ /\ out_left' \in 1..MaxPasses
          /\ reading_state_' = [next_state |-> next_state,
                                mission_critical |-> mission_critical,
                                err_invalid_frames |-> 0]
          /\ state_' = "COMMS_TX"
       \/ /\ MakerCanFail
          /\ out_left' = 0
          /\ state_' = "IDLE"
          /\ UNCHANGED reading_state_

SetNextState(state) == state_' = state /\ UNCHANGED <<exchangeVars, lineVars>>

OpenSession ==
    /\ state_ = "OPEN_SESSION"
    /\ uart' = <<>>
    /\ request_iter' = begin
    /\ asked' = <<>>
    /\ state_' = "BUFFERS_REQ"
    /\ UNCHANGED <<wait_next, exchangeVars, gxVars, sensor_iter, sensor, indicate,
                   stats, busVars, owed>>

\* BUFFERS_REQ to ASSOCIATION_RCV: SNRM, which is mission critical, and AARQ.
\* The two _RCV states look at nothing.
Associate ==
    /\ \/ state_ = "BUFFERS_REQ" /\ SendReqAndNext(Request("SNRM", 0), "BUFFERS_RCV", TRUE)
       \/ state_ = "BUFFERS_RCV" /\ SetNextState("ASSOCIATION_REQ")
       \/ state_ = "ASSOCIATION_REQ" /\ SendReqAndNext(Request("AARQ", 0), "ASSOCIATION_RCV", FALSE)
       \/ state_ = "ASSOCIATION_RCV" /\ SetNextState("DATA_ENQ_UNIT")
    /\ UNCHANGED <<wait_next, gxVars, iterVars, sensor, indicate, stats, busVars>>

\* prepare_and_send_dlms_data_unit_request()
RequestUnit(i) ==
    IF i \in UnknownObjects
      THEN SetNextState("DATA_ENQ") /\ UNCHANGED gx_register
      ELSE /\ gx_register' = CosemInit(sensors_[i].obis)
           /\ SendReqAndNext(Request("UNIT", sensors_[i].obis), "DATA_ENQ", FALSE)

DataEnqUnit ==
    /\ state_ = "DATA_ENQ_UNIT"
    /\ IF request_iter = end
         THEN SetNextState("SESSION_RELEASE") /\ UNCHANGED gx_register
         ELSE IF UnitWanted(request_iter)
                THEN RequestUnit(request_iter)
                ELSE SetNextState("DATA_ENQ") /\ UNCHANGED gx_register
    /\ UNCHANGED <<wait_next, gx_clock, iterVars, sensor, indicate, stats, busVars>>

\* set_sensor_scale_and_unit(): with no data type to the contrary, whatever
\* the register holds becomes the sensor's scale, for good.
SetSensorScaleAndUnit(i) ==
    sensor' = IF reply.complete /\ reply.dataType = "NONE"
                THEN [sensor EXCEPT ![i].has_scale = TRUE, ![i].scale = gx_register.scaler]
                ELSE sensor

SendDataRequest(obis) ==
    /\ SendReqAndNext(Request("DATA", obis), "DATA_RECV", FALSE)
    /\ asked' = IF state_' = "COMMS_TX" THEN Append(asked, obis) ELSE asked

\* prepare_and_send_dlms_data_request(): a clock has an object of its own;
\* the register is initialised unless the unit request already did it.
RequestData(i, reg_init) ==
    \/ /\ i \in UnknownObjects
       /\ sensors_[i].class = "CLOCK" \/ reg_init
       /\ SetNextState("DATA_NEXT")
       /\ UNCHANGED <<gxVars, asked>>
    \/ /\ sensors_[i].class = "CLOCK"
       /\ i \notin UnknownObjects
       /\ gx_clock' = InitClock(sensors_[i].obis)
       /\ SendDataRequest(sensors_[i].obis)
       /\ UNCHANGED gx_register
    \/ /\ sensors_[i].class # "CLOCK"
       /\ reg_init
       /\ i \notin UnknownObjects
       /\ gx_register' = CosemInit(sensors_[i].obis)
       /\ SendDataRequest(sensors_[i].obis)
       /\ UNCHANGED gx_clock
    \/ /\ sensors_[i].class # "CLOCK"
       /\ ~reg_init
       /\ SendDataRequest(gx_register.obis)
       /\ UNCHANGED gxVars

\* The handler asks UnitWanted again to learn whether the unit was asked for:
\* has_scale has not changed since.
DataEnq ==
    /\ state_ = "DATA_ENQ"
    /\ IF request_iter = end
         THEN SetNextState("SESSION_RELEASE") /\ UNCHANGED <<sensor, gxVars, asked>>
         ELSE /\ IF UnitWanted(request_iter) THEN SetSensorScaleAndUnit(request_iter)
                                             ELSE UNCHANGED sensor
              /\ RequestData(request_iter, ~UnitWanted(request_iter))
    /\ UNCHANGED <<wait_next, request_iter, sensor_iter, indicate, stats, busVars>>

\* Mutant: the wrong one of the two iterators.
SetValueAtSensorIter(i, value) ==
    sensor' = [sensor EXCEPT ![sensor_iter].has_value = TRUE, ![sensor_iter].value = value]

SetValue(i, value) ==
    sensor' = [sensor EXCEPT ![i].has_value = TRUE, ![i].value = value]

HasRegisterValue(i) == sensors_[i].class \in {"DATA", "REGISTER"}

\* set_sensor_value(): a text sensor takes a register's value only if one was
\* read and it is an octet string; a numeric sensor takes whatever the
\* register holds.
SetSensorValue(i) ==
    IF ~reply.complete \/ ~sensors_[i].publish \/ exchange.last_error # "OK"
      THEN UNCHANGED sensor
      ELSE CASE sensors_[i].type = "SENSOR" /\ HasRegisterValue(i) ->
                    SetValue(i, gx_register.value)
             [] sensors_[i].type = "TEXT_SENSOR" /\ sensors_[i].class = "CLOCK" ->
                    SetValue(i, gx_clock.value)
             [] sensors_[i].type = "TEXT_SENSOR" /\ HasRegisterValue(i) ->
                    \/ gx_register.value # Unread /\ SetValue(i, gx_register.value)
                    \/ UNCHANGED sensor
             [] OTHER -> UNCHANGED sensor

DataRecv ==
    /\ state_ = "DATA_RECV"
    /\ state_' = "DATA_NEXT"
    /\ SetSensorValue(request_iter)
    /\ UNCHANGED <<wait_next, exchangeVars, gxVars, iterVars, indicate, stats,
                   busVars, lineVars>>

DataNext ==
    /\ state_ = "DATA_NEXT"
    /\ request_iter' = UpperBound(request_iter)
    /\ SetNextStateDelayed(delay_between_requests_ms_,
                           IF request_iter' = end THEN "SESSION_RELEASE" ELSE "DATA_ENQ_UNIT")
    /\ UNCHANGED <<exchangeVars, gxVars, sensor_iter, asked, sensor, indicate,
                   stats, busVars, lineVars>>

SessionRelease ==
    /\ state_ = "SESSION_RELEASE"
    /\ sensor_iter' = begin
    /\ IF auth_required_
         THEN SendReqAndNext(Request("RLRQ", 0), "DISCONNECT_REQ", FALSE)
         ELSE SetNextState("DISCONNECT_REQ")
    /\ UNCHANGED <<wait_next, gxVars, request_iter, asked, sensor, indicate,
                   stats, busVars>>

DisconnectReq ==
    /\ state_ = "DISCONNECT_REQ"
    /\ SendReqAndNext(Request("DISC", 0), "PUBLISH", FALSE)
    /\ UNCHANGED <<wait_next, gxVars, iterVars, sensor, indicate, stats, busVars>>

\* Mutant: has_value_ = false left out of publish().
PublishKept(i) == UNCHANGED sensor

\* The value goes too: nothing looks at it before set_value() writes it again.
Publish(i) ==
    sensor' = IF sensors_[i].publish
                THEN [sensor EXCEPT ![i].has_value = FALSE, ![i].value = Unread]
                ELSE sensor

\* One sensor a pass.
PublishSensor ==
    /\ state_ = "PUBLISH"
    /\ sensor_iter # end
    /\ Publish(sensor_iter)
    /\ sensor_iter' = sensor_iter + 1
    /\ UNCHANGED <<state_, wait_next, exchangeVars, gxVars, request_iter, asked,
                   indicate, stats, busVars, lineVars>>

\* Mutant: unlock_uart_session_() left out.
CloseSessionLocked == state_' = "IDLE" /\ UNCHANGED locked_objects_

CloseSession == state_' = "IDLE" /\ Unlock(parent_[Self])

\* All published: report_failure(false), unlock and IDLE.
PublishEnd ==
    /\ state_ = "PUBLISH"
    /\ sensor_iter = end
    /\ stats' = [stats EXCEPT !.failures_ = 0]
    /\ CloseSession
    /\ UNCHANGED <<wait_next, exchangeVars, gxVars, iterVars, sensor, indicate,
                   others, lineVars>>

\* failures_ is a uint8_t.
FailureCount == (stats.failures_ + 1) % 256

\* report_failure(true) reboots the device on one failure too many in a row.
TooManyFailures ==
    /\ failures_before_reboot_ > 0
    /\ FailureCount > failures_before_reboot_

\* Mutant: a session that failed counts as one that succeeded.
CountFailureReset == stats' = [stats EXCEPT !.failures_ = 0]

CountFailure == stats' = [stats EXCEPT !.failures_ = FailureCount]

MissionFailed ==
    /\ state_ = "MISSION_FAILED"
    /\ IF TooManyFailures
         THEN Reboot
         ELSE /\ CountFailure
              /\ CloseSession
              /\ UNCHANGED <<wait_next, exchangeVars, gxVars, iterVars, sensor,
                             indicate, others, lineVars>>

----------------------------------------------------------------------------
\* One pass of loop(): the switch over state_.
Loop ==
    \/ Idle \/ TryLockBus \/ Wait \/ CommsTx \/ RxTimeout \/ RxFrame
    \/ OpenSession \/ Associate \/ DataEnqUnit \/ DataEnq \/ DataRecv
    \/ DataNext \/ SessionRelease \/ DisconnectReq \/ PublishSensor
    \/ PublishEnd \/ MissionFailed

Next ==
    \/ BootTimeout \/ Update \/ Loop
    \/ MeterReplies \/ MeterSilent
    \/ \E h \in Others : Other(h) \/ OtherReboot(h)

SafeSpec == Init /\ [][Next]_vars

\* The framework calls loop(), update() and the timers of every hub again and
\* again.  Nothing is assumed of the meter: a silent one is timed out.
Fairness ==
    /\ WF_vars(BootTimeout)
    /\ WF_vars(Update)
    /\ WF_vars(Loop)
    /\ \A h \in Others :
        /\ WF_vars(Other(h) /\ OtherBoot(h))
        /\ WF_vars(Other(h) /\ OtherUpdate(h))
        /\ WF_vars(Other(h) /\ OtherOpen(h))
        /\ WF_vars((Other(h) /\ (OtherClose(h) \/ OtherLoses(h))) \/ OtherReboot(h))

Spec == SafeSpec /\ Fairness

----------------------------------------------------------------------------
Waiting == state_ = "TRY_LOCK_BUS" \/ (state_ = "WAIT" /\ wait_next = "TRY_LOCK_BUS")

InSession == state_ \notin {"NOT_INITIALIZED", "IDLE"} /\ ~Waiting

\* This hub as one of the hubs of DlmsBus.
SelfPhase ==
    IF state_ \in {"NOT_INITIALIZED", "IDLE"} THEN state_
    ELSE IF Waiting THEN "WAITING" ELSE "SESSION"

Phase == [h \in Others \cup {Self} |-> IF h = Self THEN SelfPhase ELSE others[h]]

\* The UARTs that are locked for good.
LostUarts == {u \in locked_objects_ :
                 \A h \in Others \cup {Self} : Phase[h] = "SESSION" => parent_[h] # u}

Bus == INSTANCE DlmsBus WITH
           Hubs <- Others \cup {Self},
           PushHubs <- {},
           phase <- Phase,
           lost <- LostUarts

\* The hub and the other hubs together behave as DlmsBus says: every pass of
\* the session's state machine is one of its steps, or hidden inside a
\* session that is closed and unlocked in one pass, or closed by a maker
\* that fails and not unlocked.
ImplementsBus == Bus!BusSafeSpec

\* ... and each session comes to an end, so the UART is served again and
\* again.
ImplementsBusFairly == Bus!BusSpec

Exchanging == state_ \in {"COMMS_TX", "COMMS_RX"}

\* Its exchanges in units: what they end with is in last_error and
\* err_invalid_frames.
FramePhase ==
    CASE state_ = "NOT_INITIALIZED" -> "OFF"
      [] state_ = "COMMS_TX" -> IF HasMoreToSend THEN "SENDING" ELSE "SENT"
      [] state_ = "COMMS_RX" -> "LISTENING"
      [] OTHER -> IF exchange.last_error = "HARDWARE_FAULT" THEN "TIMED_OUT"
                  ELSE IF reading_state_.err_invalid_frames > 0 THEN "REFUSED" ELSE "RECEIVED"

FrameLine ==
    IF (Exchanging /\ clean) \/ (~Exchanging /\ owed = <<>> /\ uart = <<>>)
      THEN "CLEAN" ELSE "DIRTY"

FrameAnswer ==
    IF ~Exchanging \/ ~clean THEN "NONE"
    ELSE IF owed # <<>> \/ FramePhase = "SENDING" THEN "OWED"
    ELSE IF uart # <<>> /\ uart[Len(uart)].form \in {"GOOD", "ERROR", "REJECT"}
           THEN "DONE" ELSE "SILENT"

FramesWaiting == IF Exchanging /\ clean THEN Len(uart) ELSE 0

Units == INSTANCE FrameExchange WITH
             phase <- FramePhase,
             answer <- FrameAnswer,
             waiting <- FramesWaiting,
             line <- FrameLine

\* Every exchange, of any session and between any two, is one of
\* FrameExchange, with the line it leaves to the next one: DlmsExchange does
\* the same byte by byte.
ImplementsFrames == Units!FrameSpec

Frames == [to : Requests, form : {"PART", "BAD_PART", "GOOD", "ERROR", "REJECT"}]

\* Types of the variables; the iterators stay within begin..end.
TypeOK ==
    /\ state_ \in States
    /\ wait_next \in States
    /\ reading_state_ \in [next_state : States, mission_critical : BOOLEAN,
                           err_invalid_frames : Nat]
    /\ exchange \in [request : Requests,
                     last_error : {"OK", "HARDWARE_FAULT", "PARSE_ERROR"}]
    /\ out_left \in 0..MaxPasses
    /\ reply \in [complete : BOOLEAN, dataType : {"NONE", "VALUE"}]
    /\ gx_register \in [obis : Obis \cup {0}, value : Requests, scaler : Requests]
    /\ gx_clock \in [obis : Obis \cup {0}, value : Requests]
    /\ request_iter \in begin..end
    /\ sensor_iter \in begin..end
    /\ sensor \in [Positions -> [has_value : BOOLEAN, value : Requests,
                                 has_scale : BOOLEAN, scale : Requests]]
    /\ indicate \in [session : BOOLEAN, connection : BOOLEAN, transmission : BOOLEAN]
    /\ stats \in [failures_ : 0..255, invalid_frames_ : Nat]
    /\ others \in [Others -> {"NOT_INITIALIZED", "IDLE", "WAITING", "SESSION"}]
    /\ locked_objects_ \subseteq Uarts
    /\ owed \in Seq([to : Requests, parts : 0..MaxParts])
    /\ uart \in Seq(Frames)
    /\ asked \in Seq(Obis \cup {0})
    /\ clean \in BOOLEAN

OtherTalks == \E h \in Others : others[h] = "SESSION" /\ parent_[h] = parent_[Self]

\* From the lock to the unlock the hub has the UART for itself, through every
\* state, timeout and delay of the session.
UartIsOurs == InSession => parent_[Self] \in locked_objects_ /\ ~OtherTalks

\* However a session ends, the UART is not left locked: a hub that is not in
\* a session does not keep the others of its UART waiting.
NoLockLeft == parent_[Self] \in locked_objects_ => InSession \/ OtherTalks

\* A session starts with nothing left to publish, so that a reading is never
\* published with those of a later session: nothing aborts a session between
\* its first reading and its last publish().
NothingLeftToPublish ==
    state_ \in {"OPEN_SESSION", "BUFFERS_REQ"} =>
        \A i \in Positions : ~sensor[i].has_value

\* sensor[i] takes a value, or a scale, in this step.
TakesValue(i) ==
    /\ sensor'[i].has_value
    /\ ~sensor[i].has_value \/ sensor'[i].value # sensor[i].value

TakesScale(i) == sensor'[i].has_scale /\ ~sensor[i].has_scale

\* A sensor takes what the meter answered for that sensor's own object (or
\* the Unread value of a register), and a scale of that object too:
\* gx_register, gx_clock, reply and request_iter, written in different
\* passes, belong together.  That is so after every exchange that began on a
\* clean line; behind a late reply, or the rest of one that was refused, the
\* frames do not say what they answer.
OwnReadingsOnly ==
    [][\A i \in Positions : clean =>
         /\ TakesValue(i) =>
              sensor'[i].value \in {Unread, Request("DATA", sensors_[i].obis)}
         /\ TakesScale(i) =>
              sensor'[i].scale \in {Unread, Request("UNIT", sensors_[i].obis)}]_vars

\* The data requests of a session go through the objects in their order, no
\* object twice, whatever replies, timeouts and delays come in between.
AskedOnceInOrder ==
    \A j, k \in DOMAIN asked : j < k => asked[j] < asked[k]

\* ... and none is left out: a read that fails does not end the readings.
EveryObjectAsked ==
    state_ \in {"SESSION_RELEASE", "DISCONNECT_REQ", "PUBLISH"} =>
        Obis \subseteq {asked[k] : k \in DOMAIN asked}

\* The session binary sensor is on throughout a session, README.en.md's
\* "active session": no pass in between takes it back.
SessionShown == InSession => indicate.session

\* A session ends, with any meter: one that is silent at any point, damages
\* frames or sends a reply in parts.
SessionEnds == InSession ~> ~InSession

\* A reading is published, or lost in a reboot: it never stays behind.
ReadingsPublished ==
    \A i \in Positions : sensor[i].has_value ~> ~sensor[i].has_value

\* With reboot_after_failure set, a meter that has stopped answering makes
\* the device reboot, unless another hub wins the UART every single time.
DeadMeterReboots ==
    failures_before_reboot_ > 0 =>
        \/ []<><<MeterReplies>>_vars
        \/ []<>(state_ = "NOT_INITIALIZED")
        \/ <>[]Waiting

\* What the comment at set_sensor_value() says of a read without an error,
\* "result is okay, value shall be there": what is published was read.
ValueIsThere == \A i \in Positions : sensor[i].has_value => sensor[i].value # Unread
=============================================================================
