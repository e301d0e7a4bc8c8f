----------------------- MODULE DlmsCosemSessionProofs -----------------------
(***************************************************************************)
(* What a session of DlmsCosem shows and what it leaves behind, for any    *)
(* sensors, configuration, other hubs and bounds, a meter that answers     *)
(* late, and request makers that fail.                                     *)
(***************************************************************************)
EXTENDS DlmsCosemProofs

----------------------------------------------------------------------------
\* The binary sensor: written at the lock, in IDLE and by a reboot.
LEMMA ShownStep ==
    ASSUME TypeOK, ControlInv, SessionShown, Next
    PROVE  SessionShown'
<1>1. indicate \in [session : BOOLEAN, connection : BOOLEAN, transmission : BOOLEAN]
  BY DEF TypeOK
<1>2. CASE Reboot
  BY <1>2 DEF Reboot, SessionShown, InSession
<1>3. CASE Idle
  BY <1>3 DEF Idle, SessionShown, InSession
<1>4. CASE TryLockBus
  BY <1>1, <1>4 DEF TryLockBus, SetNextStateDelayed, SessionShown, InSession, Waiting
<1>5. ASSUME indicate'.session = indicate.session, InSession' => InSession
      PROVE  SessionShown'
  BY <1>5 DEF SessionShown
<1>6. CASE CommsTx \/ RxTimeout
  <2>1. indicate'.session = indicate.session
    BY <1>1, <1>6 DEF CommsTx, RxTimeout, IndicateTimeout
  <2>2. InSession
    BY <1>6 DEF CommsTx, RxTimeout, InSession, Waiting
  <2> QED
    BY <1>5, <2>1, <2>2
<1>7. CASE BootTimeout \/ Update
  BY <1>5, <1>7 DEF BootTimeout, Update, InSession, Waiting
<1>8. CASE Wait
  BY <1>5, <1>8 DEF Wait, ControlInv, InSession, Waiting
<1>9. CASE \/ RxFrame \/ OpenSession \/ Associate \/ DataEnqUnit \/ DataEnq
           \/ DataRecv \/ DataNext \/ SessionRelease \/ DisconnectReq
           \/ PublishSensor \/ PublishEnd
  <2>1. UNCHANGED indicate
    BY <1>9 DEF RxFrame, OpenSession, Associate, DataEnqUnit, DataEnq, DataRecv,
       DataNext, SessionRelease, DisconnectReq, PublishSensor, PublishEnd
  <2>2. InSession
    BY <1>9 DEF RxFrame, OpenSession, Associate, DataEnqUnit, DataEnq, DataRecv,
       DataNext, SessionRelease, DisconnectReq, PublishSensor, PublishEnd,
       InSession, Waiting
  <2> QED
    BY <1>5, <2>1, <2>2
<1>10. CASE MissionFailed
  BY <1>2, <1>5, <1>10 DEF MissionFailed, InSession, Waiting
<1>11. CASE MeterReplies \/ MeterSilent \/ \E h \in Others : Other(h)
  <2>1. UNCHANGED <<state_, wait_next, indicate>>
    BY <1>11 DEF MeterReplies, MeterSilent, Other
  <2> QED
    BY <1>5, <2>1 DEF InSession, Waiting
<1> QED
  BY <1>2, <1>3, <1>4, <1>6, <1>7, <1>8, <1>9, <1>10, <1>11 DEF Next, Loop, OtherReboot

\* The session binary sensor is on from the lock to the end of the session.
THEOREM HubSessionShown == SafeSpec => []SessionShown
<1>1. Init => SessionShown
  BY DEF Init, SessionShown, InSession
<1>2. SessionShown /\ UNCHANGED vars => SessionShown'
  BY DEF vars, SessionShown, InSession, Waiting
<1>3. (TypeOK /\ ControlInv /\ SessionShown) /\ [Next]_vars
        => (TypeOK /\ ControlInv /\ SessionShown)'
  BY <1>2, TypeStep, Step, ShownStep
<1> QED
  BY <1>1, <1>3, TypeInit, ControlInit, PTL DEF SafeSpec

----------------------------------------------------------------------------
\* A value waits for PUBLISH: the session that read it is on its way there,
\* or a maker failed, and then the UART stays locked and no session starts.
HoldsValue == \E i \in Positions : sensor[i].has_value

OnTheWay ==
    \/ state_ \in {"DATA_ENQ_UNIT", "DATA_ENQ", "DATA_RECV", "DATA_NEXT",
                   "SESSION_RELEASE", "DISCONNECT_REQ", "PUBLISH"}
    \/ Exchanging /\ reading_state_.next_state \in
                       {"DATA_ENQ", "DATA_RECV", "DISCONNECT_REQ", "PUBLISH"}
    \/ state_ = "WAIT" /\ wait_next # "TRY_LOCK_BUS"

Lost == ~InSession /\ parent_[Self] \in locked_objects_ /\ ~OtherTalks

PublishedOnly == \A i \in Positions : sensor[i].has_value => sensors_[i].publish

CriticalFirst ==
    Exchanging /\ reading_state_.mission_critical
        => reading_state_.next_state = "BUFFERS_RCV"

FromTheFirst ==
    /\ state_ = "DISCONNECT_REQ" => sensor_iter = begin
    /\ Exchanging /\ reading_state_.next_state \in {"DISCONNECT_REQ", "PUBLISH"}
          => sensor_iter = begin
    /\ state_ = "PUBLISH" =>
          \A i \in Positions : i < sensor_iter => ~sensor[i].has_value

WaysInv ==
    /\ PublishedOnly
    /\ CriticalFirst
    /\ HoldsValue => OnTheWay \/ Lost
    /\ FromTheFirst

LEMMA NoValueYet ==
    ASSUME NEW i \in Positions
    PROVE  InitSensor[i].has_value = FALSE
  BY DEF InitSensor

LEMMA WaysInit == Init => WaysInv
  BY NoValueYet DEF Init, WaysInv, PublishedOnly, CriticalFirst, HoldsValue,
     Exchanging, FromTheFirst

LEMMA WaysReboot == Reboot => WaysInv'
  BY NoValueYet DEF Reboot, WaysInv, PublishedOnly, CriticalFirst, HoldsValue,
     Exchanging, FromTheFirst

\* Outside of a session a value that is left stays behind its lock.
LEMMA WaysOutside ==
    ASSUME ControlInv, WaysInv, BootTimeout \/ Update \/ Idle \/ TryLockBus
    PROVE  WaysInv'
<1>1. UNCHANGED <<sensor, others, reading_state_, sensor_iter>>
  BY DEF BootTimeout, Update, Idle, TryLockBus, exchangeVars, iterVars, busVars
<1>2. state_' \notin {"DISCONNECT_REQ", "PUBLISH", "COMMS_TX", "COMMS_RX"}
  BY DEF BootTimeout, Update, Idle, TryLockBus, SetNextStateDelayed
<1>3. ASSUME HoldsValue PROVE Lost'
  <2>1. Lost
    BY <1>3 DEF WaysInv, OnTheWay, Exchanging, BootTimeout, Update, Idle, TryLockBus
  <2>2. ~InSession'
    BY <2>1 DEF BootTimeout, Update, Idle, TryLockBus, TryLock, SetNextStateDelayed,
       Lost, InSession, Waiting
  <2>3. UNCHANGED locked_objects_
    BY <2>1 DEF BootTimeout, Update, Idle, TryLockBus, TryLock, Lost, busVars
  <2> QED
    BY <1>1, <2>1, <2>2, <2>3 DEF Lost, OtherTalks
<1> QED
  BY <1>1, <1>2, <1>3 DEF WaysInv, PublishedOnly, CriticalFirst, HoldsValue,
     Exchanging, FromTheFirst

\* Waiting and talking change neither sensors nor iterators.
LEMMA WaysComms ==
    ASSUME ControlInv, WaysInv, Wait \/ CommsTx \/ RxTimeout \/ RxFrame
    PROVE  WaysInv'
<1>1. UNCHANGED <<sensor, others, locked_objects_, sensor_iter, wait_next>>
  BY DEF Wait, CommsTx, RxTimeout, RxFrame, iterVars, busVars
<1>2. CASE Wait
  BY <1>1, <1>2 DEF Wait, exchangeVars, ControlInv, WaysInv, PublishedOnly,
     CriticalFirst, HoldsValue, OnTheWay, Lost, InSession, Waiting, OtherTalks,
     Exchanging, FromTheFirst
<1>3. CASE /\ Exchanging /\ state_' \in {"COMMS_TX", "COMMS_RX"}
           /\ UNCHANGED reading_state_
  BY <1>1, <1>3 DEF WaysInv, PublishedOnly, CriticalFirst, HoldsValue, OnTheWay,
     Lost, InSession, Waiting, OtherTalks, Exchanging, FromTheFirst
<1>4. CASE /\ Exchanging
           /\ \/ state_' = reading_state_.next_state
              \/ reading_state_.mission_critical /\ state_' = "MISSION_FAILED"
  <2>1. HoldsValue => reading_state_.next_state \in
                         {"DATA_ENQ", "DATA_RECV", "DISCONNECT_REQ", "PUBLISH"}
    BY <1>4 DEF WaysInv, OnTheWay, Lost, InSession, Waiting, Exchanging
  <2>2. reading_state_.next_state \in Continuations
    BY <1>4 DEF ControlInv, Exchanging
  <2>3. HoldsValue => state_' = reading_state_.next_state
    BY <1>4, <2>1 DEF WaysInv, CriticalFirst
  <2>4. state_' \in {"DISCONNECT_REQ", "PUBLISH"} => sensor_iter = begin
    BY <1>4, <2>2 DEF WaysInv, FromTheFirst
  <2>5. ~Exchanging'
    BY <1>4, <2>2 DEF Exchanging, Continuations
  <2> QED
    BY <1>1, <2>1, <2>3, <2>4, <2>5 DEF WaysInv, PublishedOnly, CriticalFirst,
       HoldsValue, OnTheWay, FromTheFirst, begin, Positions
<1> QED
  BY <1>2, <1>3, <1>4 DEF CommsTx, RxTimeout, GiveUp, RxFrame, GetDataFails,
     GetDataIncomplete, ParserAccepts, ParserRefuses, Exchanging

\* A request: on to the exchange, or out of the session with the lock kept.
LEMMA WaysSend ==
    ASSUME ControlInv, LockInv, WaysInv, InSession, NEW req,
           NEW next, NEW critical,
           SendReqAndNext(req, next, critical),
           UNCHANGED <<others, locked_objects_>>,
           PublishedOnly',
           critical => next = "BUFFERS_RCV",
           HoldsValue' => next \in {"DATA_ENQ", "DATA_RECV", "DISCONNECT_REQ", "PUBLISH"},
           next \in {"DISCONNECT_REQ", "PUBLISH"} => sensor_iter' = begin
    PROVE  WaysInv'
<1>1. CASE state_' = "IDLE"
  <2>1. Lost'
    BY <1>1, PhaseOfSession DEF LockInv, SelfHolds, Lost, InSession, OtherTalks
  <2> QED
    BY <1>1, <2>1 DEF WaysInv, CriticalFirst, Exchanging, FromTheFirst
<1>2. CASE /\ state_' = "COMMS_TX"
           /\ reading_state_' = [next_state |-> next, mission_critical |-> critical,
                                 err_invalid_frames |-> 0]
  BY <1>2 DEF WaysInv, CriticalFirst, OnTheWay, Exchanging, FromTheFirst
<1> QED
  BY <1>1, <1>2 DEF SendReqAndNext

\* On to another state of the session.
LEMMA WaysGoOn ==
    ASSUME WaysInv, InSession,
           state_' \in {"BUFFERS_REQ", "ASSOCIATION_REQ", "DATA_ENQ_UNIT", "DATA_ENQ",
                        "DATA_NEXT", "SESSION_RELEASE", "DISCONNECT_REQ"},
           UNCHANGED sensor,
           HoldsValue => state_' \notin {"BUFFERS_REQ", "ASSOCIATION_REQ"},
           state_' = "DISCONNECT_REQ" => sensor_iter' = begin
    PROVE  WaysInv'
  BY DEF WaysInv, PublishedOnly, CriticalFirst, HoldsValue, OnTheWay, Exchanging,
     FromTheFirst

\* What is not the way to PUBLISH holds no value.
LEMMA NothingHeld ==
    ASSUME WaysInv, InSession, ~OnTheWay
    PROVE  ~HoldsValue
  BY DEF WaysInv, Lost

LEMMA WaysLink ==
    ASSUME ControlInv, LockInv, WaysInv, OpenSession \/ Associate
    PROVE  WaysInv'
<1>1. InSession /\ ~OnTheWay
  BY DEF OpenSession, Associate, InSession, Waiting, OnTheWay, Exchanging
<1>2. UNCHANGED <<sensor, others, locked_objects_>>
  BY DEF OpenSession, Associate, busVars
<1>3. ~HoldsValue /\ ~HoldsValue' /\ PublishedOnly'
  BY <1>1, <1>2, NothingHeld DEF HoldsValue, WaysInv, PublishedOnly
<1> QED
  BY <1>1, <1>2, <1>3, WaysGoOn, WaysSend DEF OpenSession, Associate, SetNextState

LEMMA WaysAsk ==
    ASSUME TypeOK, ControlInv, LockInv, WaysInv, DataEnqUnit \/ DataEnq
    PROVE  WaysInv'
<1>1. InSession
  BY DEF DataEnqUnit, DataEnq, InSession, Waiting
<1>2. UNCHANGED <<others, locked_objects_>>
  BY DEF DataEnqUnit, DataEnq, busVars
<1>3. CASE DataEnqUnit
  <2>1. UNCHANGED sensor
    BY <1>3 DEF DataEnqUnit
  <2>2. PublishedOnly'
    BY <2>1 DEF WaysInv, PublishedOnly
  <2>3. CASE state_' \in {"DATA_ENQ", "SESSION_RELEASE"}
    BY <1>1, <2>1, <2>3, WaysGoOn
  <2>4. ASSUME NEW req, SendReqAndNext(req, "DATA_ENQ", FALSE) PROVE WaysInv'
    BY <1>1, <1>2, <2>2, <2>4, WaysSend
  <2> QED
    BY <1>3, <2>3, <2>4 DEF DataEnqUnit, RequestUnit, SetNextState
<1>4. CASE DataEnq
  <2>1. \A i \in Positions : sensor'[i].has_value = sensor[i].has_value
    <3>1. sensor \in [Positions -> SensorState]
      BY DEF TypeOK, SensorState
    <3>2. \/ UNCHANGED sensor
          \/ sensor' = [sensor EXCEPT ![request_iter].has_scale = TRUE,
                                      ![request_iter].scale = gx_register.scaler]
      BY <1>4 DEF DataEnq, SetSensorScaleAndUnit
    <3> QED
      BY <3>1, <3>2 DEF SensorState
  <2>2. PublishedOnly'
    BY <2>1 DEF WaysInv, PublishedOnly
  <2>3. CASE state_' \in {"DATA_NEXT", "SESSION_RELEASE"}
    BY <1>1, <2>1, <2>2, <2>3 DEF WaysInv, PublishedOnly, CriticalFirst, HoldsValue,
       OnTheWay, Exchanging, FromTheFirst
  <2>4. ASSUME NEW req, SendReqAndNext(req, "DATA_RECV", FALSE) PROVE WaysInv'
    BY <1>1, <1>2, <2>2, <2>4, WaysSend
  <2> QED
    BY <1>4, <2>3, <2>4 DEF DataEnq, RequestData, SendDataRequest, SetNextState
<1> QED
  BY <1>3, <1>4

LEMMA WaysRead ==
    ASSUME TypeOK, ControlInv, LockInv, WaysInv, DataRecv \/ DataNext
    PROVE  WaysInv'
<1>1. CASE DataRecv
  <2>1. \A i \in Positions : \/ sensor'[i].has_value = sensor[i].has_value
                             \/ sensors_[i].publish
    <3>1. \/ UNCHANGED sensor
          \/ /\ sensors_[request_iter].publish
             /\ \E value : SetValue(request_iter, value)
      BY <1>1 DEF DataRecv, SetSensorValue
    <3>2. \A i \in Positions : i # request_iter => sensor'[i] = sensor[i]
      BY <3>1 DEF TypeOK, SetValue
    <3> QED
      BY <3>1, <3>2
  <2>2. PublishedOnly'
    BY <2>1 DEF WaysInv, PublishedOnly
  <2> QED
    BY <1>1, <2>2 DEF DataRecv, WaysInv, CriticalFirst, OnTheWay, Exchanging,
       FromTheFirst
<1>2. CASE DataNext
  <2>1. \/ state_' \in {"DATA_ENQ_UNIT", "SESSION_RELEASE"}
        \/ state_' = "WAIT" /\ wait_next' \in {"DATA_ENQ_UNIT", "SESSION_RELEASE"}
    BY <1>2 DEF DataNext, SetNextStateDelayed
  <2>2. UNCHANGED sensor
    BY <1>2 DEF DataNext
  <2> QED
    BY <2>1, <2>2 DEF WaysInv, PublishedOnly, CriticalFirst, HoldsValue, OnTheWay,
       Exchanging, FromTheFirst
<1> QED
  BY <1>1, <1>2

LEMMA WaysRelease ==
    ASSUME ControlInv, LockInv, WaysInv, SessionRelease \/ DisconnectReq
    PROVE  WaysInv'
<1>1. InSession
  BY DEF SessionRelease, DisconnectReq, InSession, Waiting
<1>2. UNCHANGED <<sensor, others, locked_objects_>>
  BY DEF SessionRelease, DisconnectReq, busVars
<1>3. PublishedOnly'
  BY <1>2 DEF WaysInv, PublishedOnly
<1>4. sensor_iter' = begin
  BY DEF SessionRelease, DisconnectReq, iterVars, WaysInv, FromTheFirst
<1> QED
  BY <1>1, <1>2, <1>3, <1>4, WaysGoOn, WaysSend DEF SessionRelease, DisconnectReq,
     SetNextState

\* PUBLISH goes through all sensors, and leaves when none holds a value.
LEMMA WaysPublish ==
    ASSUME TypeOK, ControlInv, WaysInv, PublishSensor \/ PublishEnd
    PROVE  WaysInv'
<1>1. sensor_iter \in 1..end
  BY DEF TypeOK, begin
<1>2. Positions = 1..(end - 1) /\ end \in Nat
  BY SensorTypes DEF Positions, end
<1>3. CASE PublishSensor
  <2>1. \A i \in Positions : i # sensor_iter => sensor'[i] = sensor[i]
    BY <1>3 DEF TypeOK, PublishSensor, Publish
  <2>2. sensor_iter \in Positions
    BY <1>1, <1>2, <1>3 DEF PublishSensor
  <2>3. ~sensor'[sensor_iter].has_value
    BY <1>3, <2>2 DEF TypeOK, PublishSensor, Publish, WaysInv, PublishedOnly
  <2>4. \A i \in Positions : i < sensor_iter' => ~sensor'[i].has_value
    BY <1>1, <1>2, <1>3, <2>1, <2>3 DEF PublishSensor, WaysInv, FromTheFirst
  <2>5. PublishedOnly'
    BY <2>1, <2>3 DEF WaysInv, PublishedOnly
  <2> QED
    BY <1>3, <2>4, <2>5 DEF PublishSensor, WaysInv, CriticalFirst, OnTheWay,
       Exchanging, FromTheFirst
<1>4. CASE PublishEnd
  <2>1. ~HoldsValue
    BY <1>1, <1>2, <1>4 DEF PublishEnd, WaysInv, FromTheFirst, HoldsValue
  <2> QED
    BY <1>4, <2>1 DEF PublishEnd, CloseSession, WaysInv, PublishedOnly, CriticalFirst,
       HoldsValue, Exchanging, FromTheFirst
<1> QED
  BY <1>3, <1>4

LEMMA WaysFailed ==
    ASSUME WaysInv, MissionFailed
    PROVE  WaysInv'
<1>1. InSession /\ ~OnTheWay
  BY DEF MissionFailed, InSession, Waiting, OnTheWay, Exchanging
<1>2. CASE CloseSession /\ UNCHANGED sensor
  BY <1>1, <1>2, NothingHeld DEF CloseSession, WaysInv, PublishedOnly, CriticalFirst,
     HoldsValue, Exchanging, FromTheFirst
<1> QED
  BY <1>2, WaysReboot DEF MissionFailed

\* No other hub takes the UART that a lost session left locked.
LEMMA WaysEnvironment ==
    ASSUME LockInv, WaysInv,
           MeterReplies \/ MeterSilent \/ \E h \in Others : Other(h)
    PROVE  WaysInv'
<1>1. UNCHANGED <<state_, wait_next, reading_state_, sensor, sensor_iter>>
  BY DEF MeterReplies, MeterSilent, Other, exchangeVars, iterVars
<1>2. ASSUME Lost PROVE Lost'
  <2>1. CASE MeterReplies \/ MeterSilent
    BY <1>1, <1>2, <2>1 DEF MeterReplies, MeterSilent, busVars, Lost, InSession,
       Waiting, OtherTalks
  <2>2. ASSUME NEW h \in Others, Other(h) PROVE Lost'
    <3>1. \A g \in Others : g # h => others'[g] = others[g]
      BY <2>2 DEF Other, OtherBoot, OtherUpdate, OtherOpen, OtherClose, OtherLoses, LockInv, OthersHold
    <3>2. parent_[Self] \in locked_objects_'
      BY <1>2, <2>2 DEF Other, OtherBoot, OtherUpdate, OtherOpen, OtherClose, OtherLoses,
         TryLock, Unlock, Lost, OtherTalks
    <3>3. others'[h] = "SESSION" => parent_[h] # parent_[Self]
      BY <1>2, <2>2 DEF Other, OtherBoot, OtherUpdate, OtherOpen, OtherClose, OtherLoses,
         TryLock, Lost, LockInv, OthersHold
    <3> QED
      BY <1>1, <1>2, <3>1, <3>2, <3>3 DEF Lost, InSession, Waiting, OtherTalks
  <2> QED
    BY <2>1, <2>2
<1> QED
  BY <1>1, <1>2 DEF WaysInv, PublishedOnly, CriticalFirst, HoldsValue, OnTheWay,
     Exchanging, FromTheFirst

LEMMA WaysStep ==
    ASSUME TypeOK, ControlInv, LockInv, WaysInv, [Next]_vars
    PROVE  WaysInv'
<1>1. CASE UNCHANGED vars
  BY <1>1 DEF vars, exchangeVars, iterVars, busVars, WaysInv, PublishedOnly,
     CriticalFirst, HoldsValue, OnTheWay, Lost, InSession, Waiting, OtherTalks,
     Exchanging, FromTheFirst
<1>2. CASE Next
  BY <1>2, WaysOutside, WaysComms, WaysLink, WaysAsk, WaysRead, WaysRelease,
     WaysPublish, WaysFailed, WaysEnvironment, WaysReboot DEF Next, Loop, OtherReboot
<1> QED
  BY <1>1, <1>2

\* A session starts with no reading left from an earlier one, even if makers
\* fail: the hub that lost a reading never gets its UART again.
THEOREM HubNothingLeft == SafeSpec => []NothingLeftToPublish
<1> DEFINE Inv == TypeOK /\ ControlInv /\ LockInv /\ WaysInv
<1>1. Init => Inv
  BY TypeInit, ControlInit, LockInit, WaysInit
<1>2. Inv /\ [Next]_vars => Inv'
  BY TypeStep, Step, LockStep, WaysStep
<1>3. Inv => NothingLeftToPublish
  BY NothingHeld DEF NothingLeftToPublish, HoldsValue, OnTheWay, Exchanging,
     InSession, Waiting
<1> QED
  BY <1>1, <1>2, <1>3, PTL DEF SafeSpec
=============================================================================
