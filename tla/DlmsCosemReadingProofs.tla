----------------------- MODULE DlmsCosemReadingProofs -----------------------
(***************************************************************************)
(* Which objects a session of DlmsCosem asks for, whose readings its       *)
(* sensors get, and that it goes forward, for any sensors, configuration,  *)
(* other hubs and bounds.                                                  *)
(***************************************************************************)
EXTENDS DlmsCosemSessionProofs, LexOrder

\* upper_bound() separates the sensors up to the key from those above it:
\* the multimap keeps them in the order of their keys.
LEMMA UpperBoundSeparates ==
    ASSUME NEW i \in Positions
    PROVE  \A k \in Positions : k < UpperBound(i) <=> sensors_[k].obis <= sensors_[i].obis
<1> DEFINE S == {k \in Positions : sensors_[k].obis <= sensors_[i].obis}
<1>1. Len(sensors_) \in Nat /\ Positions = 1..Len(sensors_)
  BY SensorTypes DEF Positions
<1>2. IsFiniteSet(Positions)
  BY <1>1, FS_Interval
<1>3. IsFiniteSet(S) /\ Cardinality(S) \in Nat
  BY <1>2, FS_Subset, FS_CardinalityType
<1>4. ASSUME NEW k \in Positions, sensors_[k].obis <= sensors_[i].obis
      PROVE  k <= Cardinality(S)
  <2>1. 1..k \subseteq S
    BY <1>1, <1>4, SensorTypes, SensorsAssumption
  <2>2. Cardinality(1..k) = k
    <3>1. k \in Nat \ {0}
      BY <1>1
    <3> QED
      BY <3>1, FS_Interval
  <2>3. Cardinality(1..k) <= Cardinality(S)
    BY <1>3, <2>1, FS_Subset
  <2> QED
    BY <2>2, <2>3
<1>5. ASSUME NEW k \in Positions, ~(sensors_[k].obis <= sensors_[i].obis)
      PROVE  Cardinality(S) <= k - 1
  <2>1. S \subseteq 1..(k - 1)
    BY <1>1, <1>5, SensorTypes, SensorsAssumption
  <2>2. IsFiniteSet(1..(k - 1)) /\ Cardinality(1..(k - 1)) = k - 1
    <3>1. k \in Nat \ {0}
      BY <1>1
    <3> QED
      BY <3>1, FS_Interval
  <2> QED
    BY <2>1, <2>2, FS_Subset
<1> QED
  BY <1>1, <1>3, <1>4, <1>5 DEF UpperBound

LEMMA IterType ==
    ASSUME TypeOK, request_iter # end
    PROVE  request_iter \in Positions
<1>1. request_iter \in begin..end
  BY DEF TypeOK
<1> QED
  BY <1>1, SensorTypes DEF begin, end, Positions

LEMMA AskedTypes ==
    ASSUME NEW s \in Seq(Obis \cup {0}), NEW k \in DOMAIN s
    PROVE  s[k] \in Nat
<1>1. \A o \in Obis : o \in Nat
  BY SensorTypes DEF Obis
<1>2. s[k] \in Obis \cup {0}
  OBVIOUS
<1> QED
  BY <1>1, <1>2

LEMMA OneElement ==
    ASSUME NEW S, NEW s \in Seq(S), s # <<>>, Len(s) <= 1
    PROVE  Len(s) = 1 /\ DOMAIN s = {1} /\ Head(s) = s[1] /\ Tail(s) = <<>>
<1>1. Len(s) = 1
  <2>1. Len(s) \in Nat
    OBVIOUS
  <2>2. Len(s) = 0 => s = <<>>
    OBVIOUS
  <2> QED
    BY <2>1, <2>2
<1>2. DOMAIN s = {1} /\ Head(s) = s[1]
  BY <1>1
<1>3. Tail(s) = <<>>
  <2>1. Tail(s) \in Seq(S) /\ Len(Tail(s)) = 0
    BY <1>1
  <2> QED
    BY <2>1
<1> QED
  BY <1>1, <1>2, <1>3

\* The object of a longer history.
LEMMA AppendElements ==
    ASSUME NEW S, NEW s \in Seq(S), NEW e \in S
    PROVE  /\ \A k \in DOMAIN Append(s, e) :
                 \/ k \in DOMAIN s /\ Append(s, e)[k] = s[k]
                 \/ k = Len(s) + 1 /\ Append(s, e)[k] = e
           /\ \A k \in DOMAIN s : k \in DOMAIN Append(s, e) /\ Append(s, e)[k] = s[k]
           /\ Len(s) + 1 \in DOMAIN Append(s, e) /\ Append(s, e)[Len(s) + 1] = e
           /\ DOMAIN s = 1..Len(s) /\ Len(s) \in Nat
  OBVIOUS
----------------------------------------------------------------------------
\* Where a session is with the object at request_iter.
Asking == Exchanging /\ reading_state_.next_state = "DATA_ENQ"
Reading == Exchanging /\ reading_state_.next_state = "DATA_RECV"

Linking ==
    \/ state_ \in {"BUFFERS_REQ", "BUFFERS_RCV", "ASSOCIATION_REQ", "ASSOCIATION_RCV"}
    \/ Exchanging /\ reading_state_.next_state \in {"BUFFERS_RCV", "ASSOCIATION_RCV"}

BeforeAsk ==
    \/ state_ \in {"DATA_ENQ_UNIT", "DATA_ENQ"}
    \/ Asking
    \/ state_ = "WAIT" /\ wait_next = "DATA_ENQ_UNIT"

AfterAsk == state_ \in {"DATA_RECV", "DATA_NEXT"} \/ Reading

\* The object at request_iter is above all that were asked for; behind its
\* request it is the last of them.
OrderInv ==
    /\ AskedOnceInOrder
    /\ Linking => asked = <<>> /\ request_iter = begin
    /\ BeforeAsk /\ request_iter \in Positions =>
          \A k \in DOMAIN asked : asked[k] < sensors_[request_iter].obis
    /\ AfterAsk =>
          /\ request_iter \in Positions
          /\ \A k \in DOMAIN asked : asked[k] <= sensors_[request_iter].obis

\* gx_register is the object's own while its unit is asked for and after.
RegisterInv ==
    (\/ Asking
     \/ state_ = "DATA_ENQ" /\ request_iter \in Positions /\ UnitWanted(request_iter))
       => request_iter \in Positions /\ gx_register.obis = sensors_[request_iter].obis

AskInv == OrderInv /\ RegisterInv

\* cosem_init() refuses no register whose unit may be asked for.
RegistersKnown ==
    \A i \in UnknownObjects :
        ~(sensors_[i].type = "SENSOR" /\ sensors_[i].class = "REGISTER")

LEMMA AskInit == Init => AskInv
  BY DEF Init, AskInv, OrderInv, RegisterInv, AskedOnceInOrder, Linking, BeforeAsk,
     AfterAsk, Asking, Reading, Exchanging

LEMMA AskReboot == Reboot => AskInv'
  BY DEF Reboot, AskInv, OrderInv, RegisterInv, AskedOnceInOrder, Linking, BeforeAsk,
     AfterAsk, Asking, Reading, Exchanging

\* Outside the part of a session that asks, only the order is left.
Elsewhere == ~Linking /\ ~BeforeAsk /\ ~AfterAsk

LEMMA AskElsewhere ==
    ASSUME AskInv, Elsewhere', UNCHANGED asked
    PROVE  AskInv'
  BY DEF AskInv, OrderInv, RegisterInv, AskedOnceInOrder, Elsewhere, BeforeAsk, Asking

LEMMA AskOutside ==
    ASSUME ControlInv, AskInv, BootTimeout \/ Update \/ Idle \/ TryLockBus
    PROVE  AskInv'
<1>1. \/ state_' \in {"IDLE", "TRY_LOCK_BUS", "OPEN_SESSION"}
      \/ state_' = "WAIT" /\ wait_next' = "TRY_LOCK_BUS"
  BY DEF BootTimeout, Update, Idle, TryLockBus, SetNextStateDelayed
<1>2. Elsewhere'
  BY <1>1 DEF Elsewhere, Linking, BeforeAsk, AfterAsk, Asking, Reading, Exchanging
<1>3. UNCHANGED asked
  BY DEF BootTimeout, Update, Idle, TryLockBus, iterVars
<1> QED
  BY <1>2, <1>3, AskElsewhere

LEMMA AskComms ==
    ASSUME TypeOK, ControlInv, AskInv, Wait \/ CommsTx \/ RxTimeout \/ RxFrame
    PROVE  AskInv'
<1>1. UNCHANGED <<asked, request_iter, sensor, wait_next>>
  BY DEF Wait, CommsTx, RxTimeout, RxFrame, iterVars
<1>2. gx_register'.obis = gx_register.obis
  <2>1. gx_register \in [obis : Obis \cup {0}, value : Requests, scaler : Requests]
    BY DEF TypeOK
  <2> QED
    BY <2>1 DEF Wait, CommsTx, RxTimeout, RxFrame, GetDataFails, GetDataIncomplete,
       ParserAccepts, ParserRefuses, Parse, gxVars
<1>3. \A i : UnitWanted(i)' <=> UnitWanted(i)
  BY <1>1 DEF UnitWanted
<1>4. CASE Wait
  BY <1>1, <1>2, <1>4 DEF Wait, ControlInv, AskInv, OrderInv, RegisterInv,
     AskedOnceInOrder, Linking, BeforeAsk, AfterAsk, Asking, Reading, Exchanging
<1>5. CASE /\ Exchanging /\ state_' \in {"COMMS_TX", "COMMS_RX"}
           /\ UNCHANGED reading_state_
  BY <1>1, <1>2, <1>5 DEF AskInv, OrderInv, RegisterInv, AskedOnceInOrder, Linking,
     BeforeAsk, AfterAsk, Asking, Reading, Exchanging
<1>6. CASE Exchanging /\ state_' = reading_state_.next_state
  <2>1. reading_state_.next_state \in Continuations
    BY <1>6 DEF ControlInv, Exchanging
  <2> QED
    BY <1>1, <1>2, <1>6, <2>1 DEF Continuations, AskInv, OrderInv, RegisterInv,
       AskedOnceInOrder, Linking, BeforeAsk, AfterAsk, Asking, Reading, Exchanging
<1>7. CASE state_' = "MISSION_FAILED"
  <2>1. Elsewhere'
    BY <1>7 DEF Elsewhere, Linking, BeforeAsk, AfterAsk, Asking, Reading, Exchanging
  <2> QED
    BY <1>1, <2>1, AskElsewhere
<1> QED
  BY <1>4, <1>5, <1>6, <1>7 DEF CommsTx, RxTimeout, GiveUp, RxFrame, GetDataFails,
     GetDataIncomplete, ParserAccepts, ParserRefuses, Exchanging

\* A failing maker leaves for IDLE.
LEMMA AskFails ==
    ASSUME AskInv, UNCHANGED asked, state_' = "IDLE"
    PROVE  AskInv'
<1>1. Elsewhere'
  BY DEF Elsewhere, Linking, BeforeAsk, AfterAsk, Asking, Reading, Exchanging
<1> QED
  BY <1>1, AskElsewhere

LEMMA AskLink ==
    ASSUME AskInv, OpenSession \/ Associate
    PROVE  AskInv'
<1>1. CASE OpenSession
  BY <1>1 DEF OpenSession, SetNextState, AskInv, OrderInv, RegisterInv,
     AskedOnceInOrder, Linking, BeforeAsk, AfterAsk, Asking, Reading, Exchanging
<1>2. CASE Associate
  <2>1. Linking /\ asked = <<>> /\ request_iter = begin /\ UNCHANGED iterVars
    BY <1>2 DEF Associate, Linking, AskInv, OrderInv
  <2>2. UNCHANGED <<asked, request_iter>>
    BY <2>1 DEF iterVars
  <2>3. CASE state_' = "IDLE"
    BY <2>2, <2>3, AskFails
  <2>4. CASE \/ state_' \in {"ASSOCIATION_REQ", "DATA_ENQ_UNIT"}
             \/ /\ state_' = "COMMS_TX"
                /\ reading_state_'.next_state \in {"BUFFERS_RCV", "ASSOCIATION_RCV"}
    BY <2>1, <2>2, <2>4 DEF AskInv, OrderInv, RegisterInv,
       AskedOnceInOrder, Linking, BeforeAsk, AfterAsk, Asking, Reading, Exchanging
  <2> QED
    BY <1>2, <2>3, <2>4 DEF Associate, SendReqAndNext, SetNextState
<1> QED
  BY <1>1, <1>2

LEMMA AskUnit ==
    ASSUME TypeOK, RegistersKnown, AskInv, DataEnqUnit
    PROVE  AskInv'
<1>1. UNCHANGED <<asked, request_iter, sensor>>
  BY DEF DataEnqUnit, iterVars
<1>2. \A i : UnitWanted(i)' <=> UnitWanted(i)
  BY <1>1 DEF UnitWanted
<1>3. request_iter # end => request_iter \in Positions
  BY IterType
<1>4. CASE state_' = "IDLE"
  BY <1>1, <1>4, AskFails
<1>5. CASE state_' = "SESSION_RELEASE"
  <2>1. Elsewhere'
    BY <1>5 DEF Elsewhere, Linking, BeforeAsk, AfterAsk, Asking, Reading, Exchanging
  <2> QED
    BY <1>1, <2>1, AskElsewhere
<1>6. CASE state_' = "DATA_ENQ" /\ ~UnitWanted(request_iter)
  BY <1>1, <1>2, <1>6 DEF DataEnqUnit, AskInv, OrderInv, RegisterInv, AskedOnceInOrder,
     Linking, BeforeAsk, AfterAsk, Asking, Reading, Exchanging
<1>7. CASE /\ request_iter # end
           /\ state_' = "COMMS_TX" /\ reading_state_'.next_state = "DATA_ENQ"
           /\ gx_register' = CosemInit(sensors_[request_iter].obis)
  BY <1>1, <1>3, <1>7 DEF DataEnqUnit, AskInv, OrderInv, RegisterInv, AskedOnceInOrder,
     Linking, BeforeAsk, AfterAsk, Asking, Reading, Exchanging, CosemInit
<1> QED
  BY <1>4, <1>5, <1>6, <1>7 DEF DataEnqUnit, RequestUnit, UnitWanted, RegistersKnown,
     SendReqAndNext, SetNextState

LEMMA AskData ==
    ASSUME TypeOK, AskInv, DataEnq
    PROVE  AskInv'
<1>1. UNCHANGED request_iter
  BY DEF DataEnq
<1>2. request_iter # end => request_iter \in Positions
  BY IterType
<1>3. BeforeAsk
  BY DEF DataEnq, BeforeAsk
<1>4. CASE state_' = "IDLE" /\ UNCHANGED asked
  BY <1>4, AskFails
<1>5. CASE state_' = "SESSION_RELEASE" /\ UNCHANGED asked
  <2>1. Elsewhere'
    BY <1>5 DEF Elsewhere, Linking, BeforeAsk, AfterAsk, Asking, Reading, Exchanging
  <2> QED
    BY <1>5, <2>1, AskElsewhere
<1>6. CASE request_iter # end /\ state_' = "DATA_NEXT" /\ UNCHANGED asked
  <2>1. \A k \in DOMAIN asked : asked[k] <= sensors_[request_iter].obis
    <3>1. \A k \in DOMAIN asked : asked[k] < sensors_[request_iter].obis
      BY <1>2, <1>3, <1>6 DEF AskInv, OrderInv
    <3>2. \A k \in DOMAIN asked : asked[k] \in Nat
      BY SensorTypes, AskedTypes DEF TypeOK
    <3> QED
      BY <1>2, <1>6, <3>1, <3>2, SensorTypes
  <2> QED
    BY <1>1, <1>2, <1>6, <2>1 DEF AskInv, OrderInv, RegisterInv, AskedOnceInOrder,
       Linking, BeforeAsk, AfterAsk, Asking, Reading, Exchanging
<1>7. CASE /\ request_iter # end
           /\ state_' = "COMMS_TX" /\ reading_state_'.next_state = "DATA_RECV"
           /\ asked' = Append(asked, sensors_[request_iter].obis)
  <2>1. asked \in Seq(Obis \cup {0}) /\ sensors_[request_iter].obis \in Obis \cup {0}
    BY <1>2, <1>7, SensorTypes DEF TypeOK
  <2>2. \A k \in DOMAIN asked : asked[k] < sensors_[request_iter].obis
    BY <1>2, <1>3, <1>7 DEF AskInv, OrderInv
  <2>3. sensors_[request_iter].obis \in Nat /\ \A k \in DOMAIN asked : asked[k] \in Nat
    BY <1>2, <1>7, SensorTypes, AskedTypes DEF TypeOK
  <2>4. \A k \in DOMAIN asked' :
           \/ k \in DOMAIN asked /\ asked'[k] = asked[k]
           \/ k = Len(asked) + 1 /\ asked'[k] = sensors_[request_iter].obis
    BY <1>7, <2>1, AppendElements
  <2>5. DOMAIN asked = 1..Len(asked) /\ Len(asked) \in Nat
    BY <2>1
  <2>6. AskedOnceInOrder'
    BY <2>2, <2>4, <2>5 DEF AskInv, OrderInv, AskedOnceInOrder
  <2>7. \A k \in DOMAIN asked' : asked'[k] <= sensors_[request_iter].obis
    BY <2>2, <2>3, <2>4
  <2> QED
    BY <1>1, <1>2, <1>7, <2>6, <2>7 DEF AskInv, OrderInv, RegisterInv,
       Linking, BeforeAsk, AfterAsk, Asking, Reading, Exchanging
<1> QED
  <2>1. request_iter # end /\ UnitWanted(request_iter)
          => gx_register.obis = sensors_[request_iter].obis
    BY <1>2 DEF DataEnq, AskInv, RegisterInv
  <2> QED
    BY <1>4, <1>5, <1>6, <1>7, <2>1 DEF DataEnq, RequestData, SendDataRequest,
       SendReqAndNext, SetNextState

LEMMA AskNext ==
    ASSUME TypeOK, ControlInv, AskInv, DataNext
    PROVE  AskInv'
<1>1. AfterAsk /\ request_iter \in Positions
  BY DEF DataNext, AfterAsk, AskInv, OrderInv
<1>2. request_iter' = UpperBound(request_iter) /\ UNCHANGED asked
  BY DEF DataNext
<1>3. \A k \in DOMAIN asked : asked[k] <= sensors_[request_iter].obis
  BY <1>1 DEF AskInv, OrderInv
<1>4. \A k \in DOMAIN asked :
         request_iter' \in Positions => asked[k] < sensors_[request_iter'].obis
  <2> SUFFICES ASSUME NEW k \in DOMAIN asked, request_iter' \in Positions
               PROVE  asked[k] < sensors_[request_iter'].obis
    OBVIOUS
  <2>1. ~(request_iter' < UpperBound(request_iter))
    BY <1>1, <1>2, SensorTypes DEF Positions
  <2>2. ~(sensors_[request_iter'].obis <= sensors_[request_iter].obis)
    BY <1>1, <2>1, UpperBoundSeparates
  <2>3. asked[k] \in Nat
    BY AskedTypes DEF TypeOK
  <2> QED
    BY <1>1, <1>3, <2>2, <2>3, SensorTypes
<1>5. \/ state_' \in {"DATA_ENQ_UNIT", "SESSION_RELEASE"}
      \/ state_' = "WAIT" /\ wait_next' \in {"DATA_ENQ_UNIT", "SESSION_RELEASE"}
  BY DEF DataNext, SetNextStateDelayed
<1> QED
  BY <1>2, <1>4, <1>5 DEF AskInv, OrderInv, RegisterInv, AskedOnceInOrder,
     Linking, BeforeAsk, AfterAsk, Asking, Reading, Exchanging

LEMMA AskEnd ==
    ASSUME AskInv,
           \/ DataRecv \/ SessionRelease \/ DisconnectReq \/ PublishSensor
           \/ PublishEnd \/ MissionFailed
    PROVE  AskInv'
<1>1. CASE DataRecv
  BY <1>1 DEF DataRecv, iterVars, AskInv, OrderInv, RegisterInv, AskedOnceInOrder,
     Linking, BeforeAsk, AfterAsk, Asking, Reading, Exchanging
<1>2. CASE SessionRelease \/ DisconnectReq \/ PublishSensor \/ PublishEnd
  <2>1. UNCHANGED asked
    BY <1>2 DEF SessionRelease, DisconnectReq, PublishSensor, PublishEnd, iterVars
  <2>2. \/ state_' \in {"IDLE", "DISCONNECT_REQ", "PUBLISH"}
        \/ /\ state_' = "COMMS_TX"
           /\ reading_state_'.next_state \in {"DISCONNECT_REQ", "PUBLISH"}
    BY <1>2 DEF SessionRelease, DisconnectReq, PublishSensor, PublishEnd,
       CloseSession, SendReqAndNext, SetNextState
  <2>3. Elsewhere'
    BY <2>2 DEF Elsewhere, Linking, BeforeAsk, AfterAsk, Asking, Reading, Exchanging
  <2> QED
    BY <2>1, <2>3, AskElsewhere
<1>3. CASE MissionFailed
  BY <1>3, AskFails, AskReboot DEF MissionFailed, CloseSession, iterVars
<1> QED
  BY <1>1, <1>2, <1>3

LEMMA AskEnvironment ==
    ASSUME AskInv,
           MeterReplies \/ MeterSilent \/ (\E h \in Others : Other(h)) \/ UNCHANGED vars
    PROVE  AskInv'
<1>1. UNCHANGED <<state_, wait_next, reading_state_, asked, request_iter, sensor, gx_register>>
  BY DEF MeterReplies, MeterSilent, Other, vars, exchangeVars, iterVars, gxVars
<1> QED
  BY <1>1 DEF AskInv, OrderInv, RegisterInv, AskedOnceInOrder, UnitWanted,
     Linking, BeforeAsk, AfterAsk, Asking, Reading, Exchanging

LEMMA AskStep ==
    ASSUME TypeOK, RegistersKnown, ControlInv, AskInv, [Next]_vars
    PROVE  AskInv'
  BY AskOutside, AskComms, AskLink, AskUnit, AskData, AskNext, AskEnd,
     AskEnvironment, AskReboot DEF Next, Loop, OtherReboot

\* Unless cosem_init() refuses a register, a session asks for its objects in
\* their order and for none twice, with any meter and any failing maker.
THEOREM HubAsksInOrder == RegistersKnown => (SafeSpec => []AskedOnceInOrder)
<1> SUFFICES ASSUME RegistersKnown PROVE SafeSpec => []AskedOnceInOrder
  OBVIOUS
<1> DEFINE Inv == TypeOK /\ ControlInv /\ AskInv
<1>1. Init => Inv
  BY TypeInit, ControlInit, AskInit
<1>2. Inv /\ [Next]_vars => Inv'
  BY TypeStep, Step, AskStep
<1>3. Inv => AskedOnceInOrder
  BY DEF AskInv, OrderInv
<1> QED
  BY <1>1, <1>2, <1>3, PTL DEF SafeSpec

----------------------------------------------------------------------------
\* The same walk seen from the other side: what is behind request_iter has
\* been asked for.
Finished ==
    \/ state_ \in {"SESSION_RELEASE", "DISCONNECT_REQ", "PUBLISH"}
    \/ Exchanging /\ reading_state_.next_state \in {"DISCONNECT_REQ", "PUBLISH"}
    \/ state_ = "WAIT" /\ wait_next = "SESSION_RELEASE"

Asked == {asked[k] : k \in DOMAIN asked}

CoverInv ==
    /\ BeforeAsk => \A i \in Positions : i < request_iter => sensors_[i].obis \in Asked
    /\ AfterAsk => \A i \in Positions : i <= request_iter => sensors_[i].obis \in Asked
    /\ Finished => \A i \in Positions : sensors_[i].obis \in Asked

LEMMA CoverInit == Init => CoverInv
  BY DEF Init, CoverInv, BeforeAsk, AfterAsk, Finished, Asking, Reading, Exchanging

LEMMA CoverReboot == Reboot => CoverInv'
  BY DEF Reboot, CoverInv, BeforeAsk, AfterAsk, Finished, Asking, Reading, Exchanging

LEMMA CoverElsewhere ==
    ASSUME state_' \in {"IDLE", "TRY_LOCK_BUS", "OPEN_SESSION", "BUFFERS_REQ",
                        "ASSOCIATION_REQ", "MISSION_FAILED"}
    PROVE  CoverInv'
  BY DEF CoverInv, BeforeAsk, AfterAsk, Finished, Asking, Reading, Exchanging

LEMMA CoverOutside ==
    ASSUME ControlInv, CoverInv, BootTimeout \/ Update \/ Idle \/ TryLockBus
    PROVE  CoverInv'
<1>1. \/ state_' \in {"IDLE", "TRY_LOCK_BUS", "OPEN_SESSION"}
      \/ state_' = "WAIT" /\ wait_next' = "TRY_LOCK_BUS"
  BY DEF BootTimeout, Update, Idle, TryLockBus, SetNextStateDelayed
<1> QED
  BY <1>1 DEF CoverInv, BeforeAsk, AfterAsk, Finished, Asking, Reading, Exchanging

LEMMA CoverComms ==
    ASSUME ControlInv, CoverInv, Wait \/ CommsTx \/ RxTimeout \/ RxFrame
    PROVE  CoverInv'
<1>1. UNCHANGED <<asked, request_iter, wait_next>>
  BY DEF Wait, CommsTx, RxTimeout, RxFrame, iterVars
<1>2. Asked' = Asked
  BY <1>1 DEF Asked
<1>3. CASE Wait
  BY <1>1, <1>2, <1>3 DEF Wait, ControlInv, CoverInv, BeforeAsk, AfterAsk, Finished,
     Asking, Reading, Exchanging
<1>4. CASE /\ Exchanging /\ state_' \in {"COMMS_TX", "COMMS_RX"}
           /\ UNCHANGED reading_state_
  BY <1>1, <1>2, <1>4 DEF CoverInv, BeforeAsk, AfterAsk, Finished, Asking, Reading, Exchanging
<1>5. CASE Exchanging /\ state_' = reading_state_.next_state
  <2>1. reading_state_.next_state \in Continuations
    BY <1>5 DEF ControlInv, Exchanging
  <2> QED
    BY <1>1, <1>2, <1>5, <2>1 DEF Continuations, CoverInv, BeforeAsk, AfterAsk, Finished,
       Asking, Reading, Exchanging
<1>6. CASE state_' = "MISSION_FAILED"
  BY <1>6, CoverElsewhere
<1> QED
  BY <1>3, <1>4, <1>5, <1>6 DEF CommsTx, RxTimeout, GiveUp, RxFrame, GetDataFails,
     GetDataIncomplete, ParserAccepts, ParserRefuses, Exchanging

LEMMA CoverLink ==
    ASSUME AskInv, CoverInv, OpenSession \/ Associate
    PROVE  CoverInv'
<1>1. CASE OpenSession
  BY <1>1, CoverElsewhere DEF OpenSession, SetNextState
<1>2. CASE Associate
  <2>1. request_iter' = begin
    BY <1>2 DEF Associate, Linking, AskInv, OrderInv, iterVars
  <2>2. \A i \in Positions : ~(i < begin)
    BY SensorTypes DEF Positions, begin
  <2>3. CASE state_' \in {"IDLE", "ASSOCIATION_REQ"}
    BY <2>3, CoverElsewhere
  <2>4. CASE \/ state_' = "DATA_ENQ_UNIT"
             \/ /\ state_' = "COMMS_TX"
                /\ reading_state_'.next_state \in {"BUFFERS_RCV", "ASSOCIATION_RCV"}
    BY <2>1, <2>2, <2>4 DEF CoverInv, BeforeAsk, AfterAsk, Finished, Asking, Reading, Exchanging
  <2> QED
    BY <1>2, <2>3, <2>4 DEF Associate, SendReqAndNext, SetNextState
<1> QED
  BY <1>1, <1>2

LEMMA CoverAsk ==
    ASSUME TypeOK, UnknownObjects = {}, AskInv, CoverInv, DataEnqUnit \/ DataEnq
    PROVE  CoverInv'
<1>1. UNCHANGED request_iter
  BY DEF DataEnqUnit, DataEnq, iterVars
<1>2. \A i \in Positions : i < request_iter => sensors_[i].obis \in Asked
  BY DEF DataEnqUnit, DataEnq, BeforeAsk, CoverInv
<1>3. request_iter # end => request_iter \in Positions
  BY IterType
<1>4. CASE state_' = "IDLE"
  BY <1>4, CoverElsewhere
<1>5. CASE request_iter = end /\ state_' = "SESSION_RELEASE" /\ UNCHANGED asked
  <2>1. \A i \in Positions : i < request_iter
    BY <1>5, SensorTypes DEF Positions, end
  <2> QED
    BY <1>2, <1>5, <2>1 DEF CoverInv, Asked, BeforeAsk, AfterAsk, Finished,
       Asking, Reading, Exchanging
<1>6. CASE /\ UNCHANGED asked
           /\ \/ state_' = "DATA_ENQ"
              \/ state_' = "COMMS_TX" /\ reading_state_'.next_state = "DATA_ENQ"
  BY <1>1, <1>2, <1>6 DEF CoverInv, Asked, BeforeAsk, AfterAsk, Finished,
     Asking, Reading, Exchanging
<1>7. CASE /\ request_iter # end
           /\ state_' = "COMMS_TX" /\ reading_state_'.next_state = "DATA_RECV"
           /\ asked' = Append(asked, sensors_[request_iter].obis)
  <2>1. asked \in Seq(Obis \cup {0}) /\ sensors_[request_iter].obis \in Obis \cup {0}
    BY <1>3, <1>7, SensorTypes DEF TypeOK
  <2>2. /\ \A k \in DOMAIN asked : k \in DOMAIN asked' /\ asked'[k] = asked[k]
        /\ Len(asked) + 1 \in DOMAIN asked'
        /\ asked'[Len(asked) + 1] = sensors_[request_iter].obis
    BY <1>7, <2>1, AppendElements
  <2>3. Asked \subseteq Asked' /\ sensors_[request_iter].obis \in Asked'
    BY <2>2 DEF Asked
  <2>4. \A i \in Positions : i <= request_iter => i < request_iter \/ i = request_iter
    BY <1>3, <1>7, SensorTypes DEF Positions
  <2> QED
    BY <1>1, <1>2, <1>7, <2>3, <2>4 DEF CoverInv, BeforeAsk, AfterAsk, Finished,
       Asking, Reading, Exchanging
<1>8. CASE DataEnqUnit
  BY <1>4, <1>5, <1>6, <1>8 DEF DataEnqUnit, RequestUnit, SendReqAndNext, SetNextState, iterVars
<1>9. CASE DataEnq
  <2>1. request_iter # end /\ UnitWanted(request_iter)
          => gx_register.obis = sensors_[request_iter].obis
    BY <1>3, <1>9 DEF DataEnq, AskInv, RegisterInv
  <2> QED
    BY <1>4, <1>5, <1>7, <1>9, <2>1 DEF DataEnq, RequestData, SendDataRequest,
       SendReqAndNext, SetNextState
<1> QED
  BY <1>8, <1>9

LEMMA CoverNext ==
    ASSUME TypeOK, AskInv, CoverInv, DataNext
    PROVE  CoverInv'
<1>1. AfterAsk /\ request_iter \in Positions
  BY DEF DataNext, AfterAsk, AskInv, OrderInv
<1>2. request_iter' = UpperBound(request_iter) /\ Asked' = Asked
  BY DEF DataNext, Asked
<1>3. ASSUME NEW i \in Positions, i < request_iter' PROVE sensors_[i].obis \in Asked
  <2>1. CASE i <= request_iter
    BY <1>1, <2>1 DEF CoverInv
  <2>2. CASE request_iter <= i
    <3>1. sensors_[request_iter].obis <= sensors_[i].obis
      BY <1>1, <2>2, SensorsAssumption
    <3>2. sensors_[i].obis <= sensors_[request_iter].obis
      BY <1>1, <1>2, <1>3, UpperBoundSeparates
    <3>3. sensors_[i].obis = sensors_[request_iter].obis
      BY <1>1, <3>1, <3>2, SensorTypes
    <3>4. request_iter <= request_iter
      BY <1>1, SensorTypes DEF Positions
    <3> QED
      BY <1>1, <3>3, <3>4 DEF CoverInv
  <2> QED
    BY <1>1, <2>1, <2>2, SensorTypes DEF Positions
<1>4. request_iter' = end => \A i \in Positions : i < request_iter'
  BY SensorTypes DEF Positions, end
<1>5. \/ state_' = "DATA_ENQ_UNIT"
      \/ state_' = "SESSION_RELEASE" /\ request_iter' = end
      \/ state_' = "WAIT" /\ wait_next' = "DATA_ENQ_UNIT"
      \/ state_' = "WAIT" /\ wait_next' = "SESSION_RELEASE" /\ request_iter' = end
  BY DEF DataNext, SetNextStateDelayed
<1> QED
  BY <1>2, <1>3, <1>4, <1>5 DEF CoverInv, BeforeAsk, AfterAsk, Finished,
     Asking, Reading, Exchanging

LEMMA CoverEnd ==
    ASSUME CoverInv,
           \/ DataRecv \/ SessionRelease \/ DisconnectReq \/ PublishSensor
           \/ PublishEnd \/ MissionFailed
    PROVE  CoverInv'
<1>1. CASE DataRecv
  BY <1>1 DEF DataRecv, iterVars, CoverInv, Asked, BeforeAsk, AfterAsk, Finished,
     Asking, Reading, Exchanging
<1>2. CASE SessionRelease \/ DisconnectReq \/ PublishSensor
  <2>1. UNCHANGED asked /\ Finished
    BY <1>2 DEF SessionRelease, DisconnectReq, PublishSensor, iterVars, Finished
  <2>2. \/ state_' \in {"IDLE", "DISCONNECT_REQ", "PUBLISH"}
        \/ /\ state_' = "COMMS_TX"
           /\ reading_state_'.next_state \in {"DISCONNECT_REQ", "PUBLISH"}
    BY <1>2 DEF SessionRelease, DisconnectReq, PublishSensor, SendReqAndNext, SetNextState
  <2> QED
    BY <2>1, <2>2 DEF CoverInv, Asked, BeforeAsk, AfterAsk, Finished, Asking, Reading, Exchanging
<1>3. CASE PublishEnd \/ MissionFailed
  BY <1>3, CoverReboot, CoverElsewhere DEF PublishEnd, MissionFailed, CloseSession
<1> QED
  BY <1>1, <1>2, <1>3

LEMMA CoverEnvironment ==
    ASSUME CoverInv,
           MeterReplies \/ MeterSilent \/ (\E h \in Others : Other(h)) \/ UNCHANGED vars
    PROVE  CoverInv'
<1>1. UNCHANGED <<state_, wait_next, reading_state_, asked, request_iter>>
  BY DEF MeterReplies, MeterSilent, Other, vars, exchangeVars, iterVars
<1> QED
  BY <1>1 DEF CoverInv, Asked, BeforeAsk, AfterAsk, Finished, Asking, Reading, Exchanging

LEMMA CoverStep ==
    ASSUME TypeOK, UnknownObjects = {}, ControlInv, AskInv, CoverInv, [Next]_vars
    PROVE  CoverInv'
  BY CoverOutside, CoverComms, CoverLink, CoverAsk, CoverNext, CoverEnd,
     CoverEnvironment, CoverReboot DEF Next, Loop, OtherReboot

\* If cosem_init() accepts every object, a session that comes to its release
\* has asked for every object, whatever became of the requests.
THEOREM HubAsksAll == UnknownObjects = {} => (SafeSpec => []EveryObjectAsked)
<1> SUFFICES ASSUME UnknownObjects = {} PROVE SafeSpec => []EveryObjectAsked
  OBVIOUS
<1> DEFINE Inv == TypeOK /\ ControlInv /\ AskInv /\ CoverInv
<1>1. Init => Inv
  BY TypeInit, ControlInit, AskInit, CoverInit
<1>2. RegistersKnown
  BY DEF RegistersKnown
<1>3. Inv /\ [Next]_vars => Inv'
  BY <1>2, TypeStep, Step, AskStep, CoverStep
<1>4. Inv => EveryObjectAsked
  BY DEF CoverInv, Finished, EveryObjectAsked, Obis, Asked
<1> QED
  BY <1>1, <1>3, <1>4, PTL DEF SafeSpec

----------------------------------------------------------------------------
\* The line of an exchange that began with nothing left on it: the frames of
\* its reply and nothing else, and behind the last one nothing.
Sending == state_ = "COMMS_TX" /\ out_left > 0

LastForms == {"GOOD", "ERROR", "REJECT"}

ReplyOnLine ==
    /\ Len(owed) <= 1
    /\ \A k \in DOMAIN owed : owed[k].to = exchange.request
    /\ \A k \in DOMAIN uart :
          /\ uart[k].to = exchange.request
          /\ uart[k].form \in LastForms => k = Len(uart) /\ owed = <<>>

LineInv ==
    Exchanging /\ clean =>
        /\ ReplyOnLine
        /\ Sending => owed = <<>> /\ uart = <<>>

LEMMA QuietLine ==
    ASSUME owed = <<>>, uart = <<>>
    PROVE  ReplyOnLine
  BY DEF ReplyOnLine

LEMMA LineInit == Init => LineInv
  BY DEF Init, LineInv, Exchanging

LEMMA LineReboot == Reboot => LineInv'
  BY DEF Reboot, LineInv, Exchanging

LEMMA AgedNothing == Aged(<<>>) = <<>>
<1>1. DOMAIN <<>> = {}
  OBVIOUS
<1>2. Aged(<<>>) = [k \in {} |-> [<<>>[k] EXCEPT !.to = Earlier]]
  BY <1>1 DEF Aged
<1> QED
  BY <1>2

\* An exchange begins: it is clean if the line is quiet, and then ageing
\* leaves it so.
LEMMA LineSend ==
    ASSUME NEW req, NEW next, NEW critical, SendReqAndNext(req, next, critical)
    PROVE  LineInv'
<1>1. ASSUME clean' PROVE owed' = <<>> /\ uart' = <<>>
  <2>1. owed = <<>> /\ uart = <<>>
    BY <1>1 DEF SendReqAndNext
  <2>2. owed' = Aged(<<>>) /\ uart' = Aged(<<>>)
    BY <2>1 DEF SendReqAndNext
  <2> QED
    BY <2>2, AgedNothing
<1>2. ASSUME clean' PROVE ReplyOnLine'
  BY <1>1, <1>2 DEF ReplyOnLine
<1> QED
  BY <1>1, <1>2 DEF LineInv

LEMMA LinePass ==
    ASSUME ControlInv,
           \/ BootTimeout \/ Update \/ Idle \/ TryLockBus \/ Wait \/ OpenSession
           \/ Associate \/ DataEnqUnit \/ DataEnq \/ DataRecv \/ DataNext
           \/ SessionRelease \/ DisconnectReq \/ PublishSensor \/ PublishEnd
           \/ MissionFailed
    PROVE  LineInv'
<1>1. ASSUME ~Exchanging' PROVE LineInv'
  BY <1>1 DEF LineInv
<1>2. CASE BootTimeout \/ Update \/ Idle \/ TryLockBus \/ Wait \/ OpenSession
  BY <1>1, <1>2 DEF BootTimeout, Update, Idle, TryLockBus, Wait, OpenSession,
     SetNextStateDelayed, ControlInv, Exchanging
<1>3. CASE Associate \/ DataEnqUnit \/ SessionRelease \/ DisconnectReq
  BY <1>1, <1>3, LineSend DEF Associate, DataEnqUnit, RequestUnit, SessionRelease,
     DisconnectReq, SetNextState, Exchanging
<1>4. CASE DataEnq
  BY <1>1, <1>4, LineSend DEF DataEnq, RequestData, SendDataRequest, SetNextState, Exchanging
<1>5. CASE DataRecv \/ DataNext \/ PublishSensor \/ PublishEnd
  BY <1>1, <1>5 DEF DataRecv, DataNext, PublishSensor, PublishEnd, SetNextStateDelayed,
     CloseSession, Exchanging
<1>6. CASE MissionFailed
  BY <1>1, <1>6, LineReboot DEF MissionFailed, CloseSession, Exchanging
<1> QED
  BY <1>2, <1>3, <1>4, <1>5, <1>6

LEMMA LineTx ==
    ASSUME TypeOK, LineInv, CommsTx
    PROVE  LineInv'
<1> SUFFICES ASSUME clean PROVE LineInv'
  BY DEF CommsTx, LineInv
<1>1. Exchanging /\ Exchanging' /\ UNCHANGED <<uart, exchange>>
  BY DEF CommsTx, Exchanging
<1>2. CASE HasMoreToSend
  <2>1. owed = <<>> /\ uart = <<>>
    BY <1>1, <1>2 DEF HasMoreToSend, CommsTx, LineInv, Sending
  <2>2. CASE out_left = 1
    <3>1. owed' = <<>> \/ owed' = <<[to |-> exchange.request, parts |-> MaxParts]>>
      BY <1>2, <2>1, <2>2 DEF HasMoreToSend, CommsTx, Receive
    <3>2. Len(owed') <= 1 /\ \A k \in DOMAIN owed' : owed'[k].to = exchange.request
      <4>1. CASE owed' = <<>>
        BY <4>1
      <4>2. CASE owed' = <<[to |-> exchange.request, parts |-> MaxParts]>>
        BY <4>2
      <4> QED
        BY <3>1, <4>1, <4>2
    <3>3. ReplyOnLine'
      BY <1>1, <2>1, <3>2 DEF ReplyOnLine
    <3>4. ~Sending'
      BY <1>2, <2>2 DEF HasMoreToSend, CommsTx, Sending
    <3> QED
      BY <1>1, <3>3, <3>4 DEF LineInv
  <2>3. CASE out_left # 1
    <3>1. owed' = <<>> /\ uart' = <<>>
      BY <1>1, <1>2, <2>1, <2>3 DEF HasMoreToSend, CommsTx
    <3>2. ReplyOnLine'
      BY <3>1 DEF ReplyOnLine
    <3> QED
      BY <3>1, <3>2 DEF LineInv
  <2> QED
    BY <2>2, <2>3
<1>3. CASE ~HasMoreToSend
  <2>1. UNCHANGED owed /\ ~Sending'
    BY <1>3 DEF CommsTx, Sending
  <2> QED
    BY <1>1, <2>1 DEF LineInv, ReplyOnLine
<1> QED
  BY <1>2, <1>3

\* The frame that ends an exchange is the last one of it.
LEMMA LineRx ==
    ASSUME TypeOK, ControlInv, LineInv, RxFrame
    PROVE  LineInv'
<1> SUFFICES ASSUME clean PROVE LineInv'
  BY DEF RxFrame, LineInv
<1>1. Exchanging /\ ReplyOnLine /\ uart # <<>>
  BY DEF RxFrame, LineInv, Exchanging
<1>2. uart \in Seq(Frames)
  BY DEF TypeOK
<1>3. uart' = Tail(uart) /\ UNCHANGED owed
  BY DEF RxFrame
<1>4. 1 \in DOMAIN uart /\ Head(uart) = uart[1] /\ Len(uart) \in Nat
  BY <1>1, <1>2
<1>5. CASE GetDataIncomplete(Head(uart))
  <2>1. \A k \in DOMAIN uart' : /\ k + 1 \in DOMAIN uart /\ uart'[k] = uart[k + 1]
                                /\ k + 1 = Len(uart) => k = Len(uart')
    BY <1>1, <1>2, <1>3
  <2>2. ReplyOnLine'
    BY <1>1, <1>3, <1>5, <2>1 DEF ReplyOnLine, GetDataIncomplete
  <2>3. Exchanging' /\ ~Sending'
    BY <1>5 DEF RxFrame, GetDataIncomplete, Exchanging, Sending
  <2> QED
    BY <2>2, <2>3 DEF LineInv
<1>6. CASE ~GetDataIncomplete(Head(uart))
  <2>1. reading_state_.next_state \in Continuations
    BY <1>1 DEF ControlInv, Exchanging
  <2>2. ~Exchanging'
    BY <1>6, <2>1 DEF RxFrame, GetDataFails, ParserAccepts, ParserRefuses, Exchanging,
       Continuations
  <2> QED
    BY <2>2 DEF LineInv
<1> QED
  BY <1>5, <1>6

LEMMA LineGivenUp ==
    ASSUME ControlInv, RxTimeout
    PROVE  LineInv'
<1>1. reading_state_.next_state \in Continuations
  BY DEF RxTimeout, ControlInv
<1>2. ~Exchanging'
  BY <1>1 DEF RxTimeout, GiveUp, Exchanging, Continuations
<1> QED
  BY <1>2 DEF LineInv

LEMMA LineMeter ==
    ASSUME TypeOK, LineInv, MeterReplies \/ MeterSilent
    PROVE  LineInv'
<1>1. UNCHANGED <<state_, out_left, exchange, clean>> /\ owed # <<>>
  BY DEF MeterReplies, MeterSilent, exchangeVars
<1> SUFFICES ASSUME Exchanging, clean PROVE LineInv'
  BY <1>1 DEF LineInv, Exchanging
<1>2. owed \in Seq([to : Requests, parts : 0..MaxParts]) /\ uart \in Seq(Frames)
  BY DEF TypeOK
<1>3. Exchanging /\ ReplyOnLine /\ ~Sending
  BY <1>1 DEF LineInv
<1>4. Len(owed) <= 1
  BY <1>3 DEF ReplyOnLine
<1>5. Len(owed) = 1 /\ DOMAIN owed = {1} /\ Head(owed) = owed[1] /\ Tail(owed) = <<>>
  BY <1>1, <1>2, <1>4, OneElement
<1>6. ReplyOnLine'
  <2>1. CASE MeterSilent
    BY <1>1, <1>3, <1>5, <2>1 DEF MeterSilent, ReplyOnLine
  <2>2. CASE MeterReplies
    <3>1. PICK form \in {"PART", "BAD_PART"} \cup LastForms :
             /\ uart' = Append(uart, [to |-> exchange.request, form |-> form])
             /\ \/ owed' = [owed EXCEPT ![1].parts = @ - 1] /\ form \notin LastForms
                \/ owed' = <<>>
      BY <1>3, <1>5, <2>2 DEF MeterReplies, ReplyOnLine, LastForms
    <3>2. /\ Len(owed') <= 1
          /\ \A k \in DOMAIN owed' : owed'[k].to = exchange.request
      <4>1. CASE owed' = <<>>
        BY <4>1
      <4>2. CASE owed' = [owed EXCEPT ![1].parts = @ - 1]
        <5>1. Len(owed') = 1 /\ DOMAIN owed' = {1} /\ owed'[1].to = owed[1].to
          BY <1>2, <1>5, <4>2
        <5> QED
          BY <1>3, <1>5, <5>1 DEF ReplyOnLine
      <4> QED
        BY <3>1, <4>1, <4>2
    <3>3. \A k \in DOMAIN uart : uart[k].form \notin LastForms /\ uart[k].to = exchange.request
      BY <1>1, <1>3 DEF ReplyOnLine
    <3>4. \A k \in DOMAIN uart' :
             \/ k \in DOMAIN uart /\ uart'[k] = uart[k]
             \/ k = Len(uart') /\ uart'[k] = [to |-> exchange.request, form |-> form]
      BY <1>2, <3>1
    <3> QED
      BY <1>1, <3>1, <3>2, <3>3, <3>4 DEF ReplyOnLine
  <2> QED
    BY <2>1, <2>2
<1> QED
  BY <1>1, <1>3, <1>6 DEF LineInv, Exchanging, Sending

LEMMA LineStep ==
    ASSUME TypeOK, ControlInv, LineInv, [Next]_vars
    PROVE  LineInv'
<1>1. ASSUME UNCHANGED <<state_, out_left, exchange, clean, owed, uart>> PROVE LineInv'
  BY <1>1 DEF LineInv, ReplyOnLine, Exchanging, Sending
<1>2. CASE (\E h \in Others : Other(h)) \/ UNCHANGED vars
  <2>1. UNCHANGED <<state_, out_left, exchange, clean, owed, uart>>
    BY <1>2 DEF Other, vars, exchangeVars, lineVars
  <2> QED
    BY <1>1, <2>1
<1> QED
  BY <1>2, LinePass, LineTx, LineRx, LineGivenUp, LineMeter, LineReboot
     DEF Next, Loop, OtherReboot

----------------------------------------------------------------------------
\* The request on the line is for the object at request_iter, and behind a
\* clean exchange the register, or the clock, holds what was read from that
\* object or nothing.
HeldValue(i) == IF sensors_[i].class = "CLOCK" THEN gx_clock.value ELSE gx_register.value

UnitAsked ==
    \/ Asking
    \/ state_ = "DATA_ENQ" /\ request_iter \in Positions /\ UnitWanted(request_iter)

RequestInv ==
    /\ Asking => exchange.request = Request("UNIT", sensors_[request_iter].obis)
    /\ Reading => exchange.request = Request("DATA", sensors_[request_iter].obis)
    /\ Exchanging /\ ~Asking /\ ~Reading => exchange.request.kind \in LinkKinds

ScaleReady ==
    UnitAsked =>
        /\ gx_register.value = Unread
        /\ clean => gx_register.scaler \in {Unread, Request("UNIT", sensors_[request_iter].obis)}

ValueReady ==
    (Reading \/ state_ = "DATA_RECV") /\ clean =>
        HeldValue(request_iter) \in {Unread, Request("DATA", sensors_[request_iter].obis)}

ObjectInv == RequestInv /\ ScaleReady /\ ValueReady

LEMMA RequestFields ==
    /\ \A kind, o : Request(kind, o).kind = kind
    /\ \A o : Request("UNIT", o).kind \notin LinkKinds
    /\ \A o : Request("DATA", o).kind \notin LinkKinds
  BY DEF Request, LinkKinds

LEMMA FreshObjects ==
    \A o : /\ CosemInit(o).obis = o /\ CosemInit(o).value = Unread
           /\ CosemInit(o).scaler = Unread
           /\ InitClock(o).obis = o /\ InitClock(o).value = Unread
  BY DEF CosemInit, InitClock

\* Passes that send no request and do not lead to where one is looked at.
LEMMA ObjectElsewhere ==
    ASSUME state_' \notin {"COMMS_TX", "COMMS_RX", "DATA_ENQ", "DATA_RECV"}
    PROVE  ObjectInv'
  BY DEF ObjectInv, RequestInv, ScaleReady, ValueReady, UnitAsked, Asking, Reading, Exchanging

LEMMA ObjectInit == Init => ObjectInv
  BY DEF Init, ObjectInv, RequestInv, ScaleReady, ValueReady, UnitAsked, Asking,
     Reading, Exchanging

LEMMA ObjectQuietPass ==
    ASSUME ControlInv,
           \/ BootTimeout \/ Update \/ Idle \/ TryLockBus \/ Wait \/ OpenSession
           \/ DataRecv \/ DataNext \/ PublishSensor \/ PublishEnd \/ MissionFailed
    PROVE  ObjectInv'
  BY ObjectElsewhere DEF BootTimeout, Update, Idle, TryLockBus, Wait, OpenSession,
     DataRecv, DataNext, PublishSensor, PublishEnd, MissionFailed, CloseSession,
     SetNextStateDelayed, ControlInv, Reboot

LEMMA ObjectLink ==
    ASSUME Associate \/ SessionRelease \/ DisconnectReq
    PROVE  ObjectInv'
<1>1. ASSUME NEW kind \in LinkKinds, NEW next \in Continuations \ {"DATA_ENQ", "DATA_RECV"},
             NEW critical, SendReqAndNext(Request(kind, 0), next, critical)
      PROVE  ObjectInv'
  <2>1. CASE state_' = "IDLE"
    BY <2>1, ObjectElsewhere
  <2>2. CASE /\ state_' = "COMMS_TX" /\ reading_state_'.next_state = next
             /\ exchange'.request = Request(kind, 0)
    BY <2>2, RequestFields DEF ObjectInv, RequestInv, ScaleReady, ValueReady, UnitAsked,
       Asking, Reading, Exchanging
  <2> QED
    BY <1>1, <2>1, <2>2 DEF SendReqAndNext
<1>2. CASE state_' \in {"ASSOCIATION_REQ", "DATA_ENQ_UNIT", "DISCONNECT_REQ"}
  BY <1>2, ObjectElsewhere
<1>3. {"SNRM", "AARQ", "RLRQ", "DISC"} \subseteq LinkKinds
  BY DEF LinkKinds
<1>4. {"BUFFERS_RCV", "ASSOCIATION_RCV", "DISCONNECT_REQ", "PUBLISH"}
         \subseteq Continuations \ {"DATA_ENQ", "DATA_RECV"}
  BY DEF Continuations
<1> QED
  BY <1>1, <1>2, <1>3, <1>4 DEF Associate, SessionRelease, DisconnectReq, SetNextState

LEMMA ObjectUnit ==
    ASSUME RegistersKnown, DataEnqUnit
    PROVE  ObjectInv'
<1>1. UNCHANGED <<request_iter, sensor>>
  BY DEF DataEnqUnit, iterVars
<1>2. CASE state_' = "SESSION_RELEASE"
  BY <1>2, ObjectElsewhere
<1>3. CASE state_' = "DATA_ENQ" /\ ~UnitWanted(request_iter)
  <2>1. ~UnitWanted(request_iter)'
    BY <1>1, <1>3 DEF UnitWanted
  <2> QED
    BY <1>3, <2>1 DEF ObjectInv, RequestInv, ScaleReady, ValueReady, UnitAsked,
       Asking, Reading, Exchanging
<1>4. CASE /\ gx_register' = CosemInit(sensors_[request_iter].obis)
           /\ SendReqAndNext(Request("UNIT", sensors_[request_iter].obis), "DATA_ENQ", FALSE)
  <2>1. CASE state_' = "IDLE"
    BY <2>1, ObjectElsewhere
  <2>2. CASE /\ state_' = "COMMS_TX" /\ reading_state_'.next_state = "DATA_ENQ"
             /\ exchange'.request = Request("UNIT", sensors_[request_iter].obis)
    <3>1. Asking' /\ ~Reading' /\ state_' # "DATA_RECV"
      BY <2>2 DEF Asking, Reading, Exchanging
    <3>2. gx_register'.value = Unread /\ gx_register'.scaler = Unread
      BY <1>4, FreshObjects
    <3> QED
      BY <1>1, <2>2, <3>1, <3>2 DEF ObjectInv, RequestInv, ScaleReady, ValueReady
  <2> QED
    BY <1>4, <2>1, <2>2 DEF SendReqAndNext
<1>5. UnitWanted(request_iter) => request_iter \notin UnknownObjects
  BY DEF RegistersKnown, UnitWanted
<1> QED
  BY <1>2, <1>3, <1>4, <1>5 DEF DataEnqUnit, RequestUnit, SetNextState

LEMMA ObjectData ==
    ASSUME TypeOK, AskInv, ObjectInv, DataEnq
    PROVE  ObjectInv'
<1> DEFINE o == sensors_[request_iter].obis
           clock == sensors_[request_iter].class = "CLOCK"
<1>1. CASE state_' \in {"SESSION_RELEASE", "DATA_NEXT"}
  BY <1>1, ObjectElsewhere
<1>2. CASE /\ SendDataRequest(o)
           /\ \/ clock /\ gx_clock' = InitClock(o)
              \/ ~clock /\ gx_register' = CosemInit(o)
              \/ ~clock /\ gx_register.value = Unread /\ UNCHANGED gxVars
  <2>1. UNCHANGED request_iter
    BY DEF DataEnq
  <2>2. HeldValue(request_iter)' = Unread
    BY <1>2, <2>1, FreshObjects DEF gxVars, HeldValue
  <2>3. CASE state_' = "IDLE"
    BY <2>3, ObjectElsewhere
  <2>4. CASE /\ state_' = "COMMS_TX" /\ reading_state_'.next_state = "DATA_RECV"
             /\ exchange'.request = Request("DATA", o)
    <3>1. Reading' /\ ~UnitAsked' /\ ~Asking'
      BY <2>4 DEF Asking, Reading, Exchanging, UnitAsked
    <3> QED
      BY <2>1, <2>2, <2>4, <3>1 DEF ObjectInv, RequestInv, ScaleReady, ValueReady
  <2> QED
    BY <1>2, <2>3, <2>4 DEF SendDataRequest, SendReqAndNext
<1>3. request_iter # end /\ UnitWanted(request_iter) =>
         gx_register.obis = o /\ gx_register.value = Unread
  BY IterType DEF DataEnq, AskInv, RegisterInv, ObjectInv, ScaleReady, UnitAsked
<1> QED
  BY <1>1, <1>2, <1>3 DEF DataEnq, RequestData, SetNextState

\* What a frame is read into: the scaler for a unit request, the value of the
\* object for a data request.
LEMMA ParseRead ==
    ASSUME TypeOK, LineInv, ObjectInv, RxFrame
    PROVE  /\ Asking => gx_register'.value = gx_register.value
           /\ Asking /\ clean =>
                gx_register'.scaler \in {gx_register.scaler,
                                         Request("UNIT", sensors_[request_iter].obis)}
           /\ Reading /\ clean =>
                HeldValue(request_iter)' \in {HeldValue(request_iter),
                                              Request("DATA", sensors_[request_iter].obis)}
<1>1. Exchanging /\ UNCHANGED request_iter /\ (Reading => ~Asking)
  BY DEF RxFrame, Exchanging, iterVars, Reading, Asking
<1>2. clean => Head(uart).to = exchange.request
  <2>1. SUFFICES ASSUME clean PROVE Head(uart).to = exchange.request
    OBVIOUS
  <2>2. uart # <<>> /\ uart \in Seq(Frames)
    BY DEF RxFrame, TypeOK
  <2>3. 1 \in DOMAIN uart /\ Head(uart) = uart[1]
    BY <2>2
  <2> QED
    BY <1>1, <2>1, <2>3 DEF LineInv, ReplyOnLine
<1>3. CASE UNCHANGED gxVars
  BY <1>1, <1>3 DEF gxVars, HeldValue
<1>4. CASE Parse(Head(uart))
  <2>1. /\ gx_register \in [obis : Obis \cup {0}, value : Requests, scaler : Requests]
        /\ gx_clock \in [obis : Obis \cup {0}, value : Requests]
    BY DEF TypeOK
  <2>2. CASE Asking
    <3>1. exchange.request = Request("UNIT", sensors_[request_iter].obis)
      BY <2>2 DEF ObjectInv, RequestInv
    <3>2. gx_register' = [gx_register EXCEPT !.scaler = Head(uart).to]
      BY <1>4, <3>1, RequestFields DEF Parse
    <3> QED
      BY <1>1, <1>2, <2>1, <2>2, <3>1, <3>2
  <2>3. CASE Reading
    <3>1. exchange.request = Request("DATA", sensors_[request_iter].obis)
      BY <2>3 DEF ObjectInv, RequestInv
    <3>2. IF sensors_[request_iter].class = "CLOCK"
            THEN gx_clock' = [gx_clock EXCEPT !.value = Head(uart).to]
            ELSE gx_register' = [gx_register EXCEPT !.value = Head(uart).to]
      BY <1>4, <3>1, RequestFields DEF Parse
    <3>3. HeldValue(request_iter)' = Head(uart).to
      BY <1>1, <2>1, <3>2 DEF HeldValue
    <3> QED
      BY <1>1, <1>2, <2>3, <3>1, <3>3
  <2> QED
    BY <2>2, <2>3
<1> QED
  BY <1>3, <1>4 DEF RxFrame, GetDataFails, GetDataIncomplete, ParserAccepts, ParserRefuses

LEMMA ObjectComms ==
    ASSUME TypeOK, ControlInv, LineInv, ObjectInv, CommsTx \/ RxTimeout \/ RxFrame
    PROVE  ObjectInv'
<1>1. Exchanging /\ UNCHANGED <<request_iter, sensor, clean>>
  BY DEF CommsTx, RxTimeout, RxFrame, Exchanging, iterVars
<1>2. exchange'.request = exchange.request
  <2>1. exchange \in [request : Requests,
                      last_error : {"OK", "HARDWARE_FAULT", "PARSE_ERROR"}]
    BY DEF TypeOK
  <2> QED
    BY <2>1 DEF CommsTx, RxTimeout, RxFrame, GetDataFails, GetDataIncomplete,
       ParserAccepts, ParserRefuses
<1>3. /\ Asking => gx_register'.value = Unread
      /\ Asking /\ clean =>
           gx_register'.scaler \in {Unread, Request("UNIT", sensors_[request_iter].obis)}
      /\ Reading /\ clean =>
           HeldValue(request_iter)' \in {Unread, Request("DATA", sensors_[request_iter].obis)}
  <2>1. CASE UNCHANGED gxVars
    BY <1>1, <2>1 DEF gxVars, HeldValue, ObjectInv, ScaleReady, ValueReady, UnitAsked
  <2>2. CASE RxFrame
    BY <2>2, ParseRead DEF ObjectInv, ScaleReady, ValueReady, UnitAsked
  <2> QED
    BY <2>1, <2>2 DEF CommsTx, RxTimeout
<1>4. CASE state_' \in {"COMMS_TX", "COMMS_RX"} /\ UNCHANGED reading_state_
  <2>1. /\ Exchanging' /\ (Asking' <=> Asking) /\ (Reading' <=> Reading)
        /\ UnitAsked' => Asking
    BY <1>1, <1>4 DEF Exchanging, Asking, Reading, UnitAsked
  <2> QED
    BY <1>1, <1>2, <1>3, <1>4, <2>1 DEF ObjectInv, RequestInv, ScaleReady, ValueReady
<1>5. CASE state_' = reading_state_.next_state
  <2>1. reading_state_.next_state \in Continuations
    BY <1>1 DEF ControlInv, Exchanging
  <2>2. /\ ~Exchanging' /\ (state_' = "DATA_RECV" => Reading)
        /\ UnitAsked' => Asking
    BY <1>1, <1>5, <2>1 DEF Continuations, Exchanging, Reading, Asking, UnitAsked
  <2>3. ~Asking' /\ ~Reading'
    BY <2>2 DEF Asking, Reading
  <2> QED
    BY <1>1, <1>3, <2>2, <2>3 DEF ObjectInv, RequestInv, ScaleReady, ValueReady
<1>6. CASE state_' = "MISSION_FAILED"
  BY <1>6, ObjectElsewhere
<1> QED
  BY <1>4, <1>5, <1>6 DEF CommsTx, RxTimeout, GiveUp, RxFrame, GetDataFails,
     GetDataIncomplete, ParserAccepts, ParserRefuses

LEMMA ObjectStep ==
    ASSUME RegistersKnown, TypeOK, ControlInv, LineInv, AskInv, ObjectInv, [Next]_vars
    PROVE  ObjectInv'
<1>1. CASE MeterReplies \/ MeterSilent \/ (\E h \in Others : Other(h)) \/ UNCHANGED vars
  <2>1. UNCHANGED <<state_, reading_state_, exchange, clean, gx_register, gx_clock,
                    request_iter, sensor>>
    BY <1>1 DEF MeterReplies, MeterSilent, Other, vars, exchangeVars, iterVars, gxVars
  <2> QED
    BY <2>1 DEF ObjectInv, RequestInv, ScaleReady, ValueReady, HeldValue, UnitAsked,
       UnitWanted, Asking, Reading, Exchanging
<1>2. CASE Reboot
  BY <1>2, ObjectElsewhere DEF Reboot
<1> QED
  BY <1>1, <1>2, ObjectQuietPass, ObjectLink, ObjectUnit, ObjectData, ObjectComms
     DEF Next, Loop, OtherReboot

\* A sensor takes what its own object holds.
OwnReading ==
    \A i \in Positions : clean =>
        /\ TakesValue(i) => sensor'[i].value \in {Unread, Request("DATA", sensors_[i].obis)}
        /\ TakesScale(i) => sensor'[i].scale \in {Unread, Request("UNIT", sensors_[i].obis)}

LEMMA TakesNothing ==
    ASSUME \A i \in Positions :
               /\ sensor'[i].has_value => sensor[i].has_value /\ sensor'[i].value = sensor[i].value
               /\ sensor'[i].has_scale => sensor[i].has_scale
    PROVE  OwnReading
  BY DEF OwnReading, TakesValue, TakesScale

LEMMA OwnStep ==
    ASSUME TypeOK, AskInv, ObjectInv, [Next]_vars
    PROVE  OwnReading
<1>1. sensor \in [Positions -> SensorState]
  BY DEF TypeOK, SensorState
<1>2. CASE UNCHANGED sensor
  BY <1>2, TakesNothing
<1>3. CASE Reboot
  BY <1>3, TakesNothing DEF Reboot, InitSensor
<1>4. CASE DataEnq
  <2>1. CASE /\ request_iter # end /\ UnitWanted(request_iter)
             /\ sensor' = [sensor EXCEPT ![request_iter].has_scale = TRUE,
                                         ![request_iter].scale = gx_register.scaler]
    <3>1. clean => gx_register.scaler \in {Unread, Request("UNIT", sensors_[request_iter].obis)}
      BY <1>4, <2>1, IterType DEF DataEnq, ObjectInv, ScaleReady, UnitAsked
    <3>2. \A i \in Positions : /\ sensor'[i].has_value = sensor[i].has_value
                               /\ sensor'[i].value = sensor[i].value
      BY <1>1, <2>1 DEF SensorState
    <3>3. \A i \in Positions : i # request_iter => sensor'[i] = sensor[i]
      BY <1>1, <2>1 DEF SensorState
    <3>4. request_iter \in Positions => sensor'[request_iter].scale = gx_register.scaler
      BY <1>1, <2>1 DEF SensorState
    <3> QED
      BY <3>1, <3>2, <3>3, <3>4 DEF OwnReading, TakesValue, TakesScale
  <2> QED
    BY <1>2, <1>4, <2>1 DEF DataEnq, SetSensorScaleAndUnit
<1>5. CASE DataRecv
  <2>1. ASSUME NEW value, clean => value \in {Unread, Request("DATA", sensors_[request_iter].obis)},
               SetValue(request_iter, value)
        PROVE  OwnReading
    <3>1. sensor' = [sensor EXCEPT ![request_iter].has_value = TRUE,
                                   ![request_iter].value = value]
      BY <2>1 DEF SetValue
    <3>2. \A i \in Positions : sensor'[i].has_scale = sensor[i].has_scale
      BY <1>1, <3>1 DEF SensorState
    <3>3. \A i \in Positions : i # request_iter => sensor'[i] = sensor[i]
      BY <1>1, <3>1 DEF SensorState
    <3>4. request_iter \in Positions => sensor'[request_iter].value = value
      BY <1>1, <3>1 DEF SensorState
    <3> QED
      BY <2>1, <3>2, <3>3, <3>4 DEF OwnReading, TakesValue, TakesScale
  <2>2. clean => HeldValue(request_iter) \in {Unread, Request("DATA", sensors_[request_iter].obis)}
    BY <1>5 DEF DataRecv, ObjectInv, ValueReady
  <2> QED
    BY <1>2, <1>5, <2>1, <2>2 DEF DataRecv, SetSensorValue, HasRegisterValue, HeldValue
<1>6. CASE PublishSensor
  <2>1. \/ UNCHANGED sensor
        \/ sensor' = [sensor EXCEPT ![sensor_iter].has_value = FALSE,
                                    ![sensor_iter].value = Unread]
    BY <1>6 DEF PublishSensor, Publish
  <2>2. \A i \in Positions :
           /\ sensor'[i].has_scale = sensor[i].has_scale
           /\ sensor'[i] = sensor[i] \/ sensor'[i].has_value = FALSE
    BY <1>1, <2>1 DEF SensorState
  <2> QED
    BY <2>2, TakesNothing
<1> QED
  BY <1>2, <1>3, <1>4, <1>5, <1>6 DEF Next, Loop, OtherReboot, vars, BootTimeout, Update,
     Idle, TryLockBus, Wait, CommsTx, RxTimeout, RxFrame, OpenSession, Associate,
     DataEnqUnit, DataNext, SessionRelease, DisconnectReq, PublishEnd, MissionFailed,
     MeterReplies, MeterSilent, Other

\* Whatever the meter answers, damages or leaves out, a sensor takes readings
\* and a scale of its own object only, in every exchange that began on a
\* clean line.
THEOREM HubOwnReadings == RegistersKnown => (SafeSpec => OwnReadingsOnly)
<1> SUFFICES ASSUME RegistersKnown PROVE SafeSpec => OwnReadingsOnly
  OBVIOUS
<1> DEFINE Inv == TypeOK /\ ControlInv /\ LineInv /\ AskInv /\ ObjectInv
<1>1. Init => Inv
  BY TypeInit, ControlInit, LineInit, AskInit, ObjectInit
<1>2. Inv /\ [Next]_vars => Inv'
  BY TypeStep, Step, LineStep, AskStep, ObjectStep
<1>3. Inv /\ [Next]_vars => [OwnReading]_vars
  BY OwnStep
<1> QED
  BY <1>1, <1>2, <1>3, PTL DEF SafeSpec, OwnReadingsOnly, OwnReading

----------------------------------------------------------------------------
\* The exchanges of a session in units.

\* What FramePhase looks at says "received" until an exchange ends, and
\* nothing is on its way when the device starts.
FreshInv ==
    /\ Exchanging => exchange.last_error = "OK" /\ reading_state_.err_invalid_frames = 0
    /\ state_ = "NOT_INITIALIZED" => owed = <<>>

\* A pass of the session between two exchanges, or one that begins one.
BetweenPass ==
    \/ Update \/ Idle \/ TryLockBus \/ Wait \/ OpenSession \/ Associate
    \/ DataEnqUnit \/ DataEnq \/ DataRecv \/ DataNext \/ SessionRelease
    \/ DisconnectReq \/ PublishSensor \/ PublishEnd \/ MissionFailed \/ BootTimeout

NothingOnLine == owed = <<>> /\ uart = <<>>

Begins ==
    /\ state_ # "NOT_INITIALIZED" /\ state_' = "COMMS_TX"
    /\ out_left' \in 1..MaxPasses
    /\ exchange'.last_error = "OK" /\ reading_state_'.err_invalid_frames = 0
    /\ clean' = NothingOnLine

Stays == ~Exchanging' /\ state_' # "NOT_INITIALIZED"

\* Between two exchanges the hub puts nothing on the line.
KeepsQuiet == NothingOnLine => NothingOnLine'

LEMMA BeginsOrStays ==
    ASSUME NEW request, NEW next_state, NEW mission_critical,
           SendReqAndNext(request, next_state, mission_critical),
           state_ # "NOT_INITIALIZED"
    PROVE  (Begins \/ Stays) /\ KeepsQuiet
<1>1. Begins \/ Stays
  BY DEF SendReqAndNext, Begins, Stays, Exchanging, NothingOnLine
<1>2. KeepsQuiet
  <2> SUFFICES ASSUME owed = <<>>, uart = <<>> PROVE NothingOnLine'
    BY DEF KeepsQuiet, NothingOnLine
  <2>1. owed' = Aged(<<>>) /\ uart' = Aged(<<>>)
    BY DEF SendReqAndNext
  <2> QED
    BY <2>1, AgedNothing DEF NothingOnLine
<1> QED
  BY <1>1, <1>2

LEMMA PassKind ==
    ASSUME ControlInv, BetweenPass
    PROVE  /\ ~Exchanging
           /\ Reboot \/ ((Stays \/ Begins) /\ KeepsQuiet)
<1>1. CASE BootTimeout \/ Update \/ Idle \/ TryLockBus \/ Wait \/ OpenSession
  BY <1>1 DEF BootTimeout, Update, Idle, TryLockBus, Wait, OpenSession, lineVars,
     SetNextStateDelayed, SetNextState, ControlInv, Exchanging, Stays, KeepsQuiet,
     NothingOnLine
<1>2. CASE Associate
  BY <1>2, BeginsOrStays DEF Associate, SetNextState, Exchanging, Stays, lineVars,
     KeepsQuiet, NothingOnLine
<1>3. CASE DataEnqUnit
  BY <1>3, BeginsOrStays DEF DataEnqUnit, RequestUnit, SetNextState, Exchanging, Stays,
     lineVars, KeepsQuiet, NothingOnLine
<1>4. CASE DataEnq
  BY <1>4, BeginsOrStays DEF DataEnq, RequestData, SendDataRequest, SetNextState,
     Exchanging, Stays, lineVars, KeepsQuiet, NothingOnLine
<1>5. CASE SessionRelease \/ DisconnectReq
  BY <1>5, BeginsOrStays DEF SessionRelease, DisconnectReq, SetNextState, Exchanging,
     Stays, lineVars, KeepsQuiet, NothingOnLine
<1>6. CASE DataRecv \/ DataNext \/ PublishSensor \/ PublishEnd
  BY <1>6 DEF DataRecv, DataNext, PublishSensor, PublishEnd, SetNextStateDelayed,
     CloseSession, Exchanging, Stays, lineVars, KeepsQuiet, NothingOnLine
<1>7. CASE MissionFailed
  BY <1>7 DEF MissionFailed, CloseSession, lineVars, Exchanging, Stays, KeepsQuiet,
     NothingOnLine
<1> QED
  BY <1>1, <1>2, <1>3, <1>4, <1>5, <1>6, <1>7 DEF BetweenPass

LEMMA NextKinds ==
    ASSUME [Next]_vars
    PROVE  \/ BetweenPass \/ CommsTx \/ RxTimeout \/ RxFrame \/ MeterReplies \/ MeterSilent
           \/ Reboot
           \/ UNCHANGED <<state_, reading_state_, exchange, out_left, owed, uart, clean>>
<1>1. CASE UNCHANGED vars
  BY <1>1 DEF vars, exchangeVars, lineVars
<1>2. CASE \E h \in Others : Other(h)
  BY <1>2 DEF Other, exchangeVars, lineVars
<1> QED
  BY <1>1, <1>2 DEF Next, Loop, OtherReboot, BetweenPass

\* Where a pass of COMMS_RX that ends an exchange leads to.
LEMMA ExchangeEnd ==
    ASSUME ControlInv, state_ = "COMMS_RX",
           state_' \in {"MISSION_FAILED", reading_state_.next_state}
    PROVE  Stays
  BY DEF ControlInv, Continuations, Exchanging, Stays

LEMMA FreshStep ==
    ASSUME TypeOK, ControlInv, FreshInv, [Next]_vars
    PROVE  FreshInv'
<1>1. CASE BetweenPass
  <2>1. CASE Reboot
    BY <2>1 DEF Reboot, FreshInv, Exchanging
  <2>2. CASE ~Reboot
    BY <1>1, <2>2, PassKind DEF FreshInv, Begins, Stays
  <2> QED
    BY <2>1, <2>2
<1>2. CASE CommsTx
  BY <1>2 DEF CommsTx, FreshInv, Exchanging
<1>3. CASE RxTimeout
  <2>1. Stays
    BY <1>3, ExchangeEnd DEF RxTimeout, GiveUp
  <2> QED
    BY <2>1 DEF Stays, FreshInv
<1>4. CASE RxFrame
  <2>1. CASE GetDataIncomplete(Head(uart))
    BY <1>4, <2>1 DEF RxFrame, GetDataIncomplete, FreshInv, Exchanging
  <2>2. CASE GetDataFails(Head(uart)) \/ ParserAccepts(Head(uart)) \/ ParserRefuses(Head(uart))
    <3>1. Stays
      BY <1>4, <2>2, ExchangeEnd DEF RxFrame, GetDataFails, ParserAccepts, ParserRefuses
    <3> QED
      BY <3>1 DEF Stays, FreshInv
  <2> QED
    BY <1>4, <2>1, <2>2 DEF RxFrame
<1>5. CASE MeterReplies \/ MeterSilent
  BY <1>5 DEF MeterReplies, MeterSilent, exchangeVars, FreshInv, Exchanging
<1>6. CASE Reboot
  BY <1>6 DEF Reboot, FreshInv, Exchanging
<1>7. CASE UNCHANGED <<state_, reading_state_, exchange, out_left, owed, uart, clean>>
  BY <1>7 DEF FreshInv, Exchanging
<1> QED
  BY <1>1, <1>2, <1>3, <1>4, <1>5, <1>6, <1>7, NextKinds

\* What is seen of the hub between two exchanges, and in one that began with
\* something of an earlier one on the line.
LEMMA FramesBetween ==
    ASSUME ~Exchanging
    PROVE  /\ FrameAnswer = "NONE" /\ FramesWaiting = 0
           /\ state_ # "NOT_INITIALIZED" => FramePhase \in Units!Ended
           /\ state_ = "NOT_INITIALIZED" => FramePhase = "OFF"
           /\ FrameLine = IF NothingOnLine THEN "CLEAN" ELSE "DIRTY"
  BY DEF Exchanging, FrameAnswer, FramesWaiting, FramePhase, Units!Ended, FrameLine,
     NothingOnLine

LEMMA FramesMuddled ==
    ASSUME Exchanging, ~clean
    PROVE  FrameAnswer = "NONE" /\ FramesWaiting = 0 /\ FrameLine = "DIRTY"
  BY DEF FrameAnswer, FramesWaiting, FrameLine

LEMMA FramesRestart ==
    ASSUME Reboot
    PROVE  Units!Restart
<1>1. /\ FrameAnswer' = "NONE" /\ FramesWaiting' = 0 /\ FramePhase' = "OFF"
      /\ FrameLine' = "CLEAN"
  BY DEF Reboot, Exchanging, FrameAnswer, FramesWaiting, FramePhase, FrameLine
<1> QED
  BY <1>1 DEF Units!Restart, Units!Quiet

LEMMA FramesPass ==
    ASSUME ControlInv, LineInv', BetweenPass
    PROVE  Units!FrameNext
<1>1. ~Exchanging
  BY PassKind
<1>2. /\ FrameAnswer = "NONE" /\ FramesWaiting = 0 /\ FramePhase \in Units!Ended \cup {"OFF"}
      /\ FrameLine = IF NothingOnLine THEN "CLEAN" ELSE "DIRTY"
  BY <1>1, FramesBetween
<1>3. CASE Reboot
  BY <1>3, FramesRestart DEF Units!FrameNext
<1>4. CASE Stays /\ KeepsQuiet
  <2>1. /\ FrameAnswer' = "NONE" /\ FramesWaiting' = 0
        /\ FramePhase' \in Units!Ended
    BY <1>4 DEF Stays, Exchanging, FrameAnswer, FramesWaiting, FramePhase, Units!Ended
  <2>2. FrameLine' = IF NothingOnLine' THEN "CLEAN" ELSE "DIRTY"
    BY <1>4 DEF Stays, FrameLine, NothingOnLine
  <2>3. FrameLine' \in {FrameLine, "CLEAN"}
    BY <1>2, <1>4, <2>2 DEF KeepsQuiet
  <2>4. Units!Between
    BY <1>2, <2>1, <2>3 DEF Units!Between
  <2> QED
    BY <2>4 DEF Units!FrameNext
<1>5. CASE Begins
  <2>1. FramePhase \in Units!Ended
    BY <1>1, <1>5, FramesBetween DEF Begins
  <2>2. FramePhase' = "SENDING"
    <3>1. out_left' > 0
      BY <1>5, LinkAssumption DEF Begins
    <3> QED
      BY <1>5, <3>1 DEF Begins, FramePhase, HasMoreToSend
  <2>3. Exchanging' /\ (clean' => uart' = <<>>)
    <3>1. Exchanging' /\ Sending'
      <4>1. out_left' > 0
        BY <1>5, LinkAssumption DEF Begins
      <4> QED
        BY <1>5, <4>1 DEF Begins, Exchanging, Sending
    <3> QED
      BY <3>1 DEF LineInv
  <2>4. FrameLine' = FrameLine
    BY <1>2, <1>5, <2>3 DEF Begins, FrameLine
  <2>5. FrameAnswer' = (IF FrameLine = "CLEAN" THEN "OWED" ELSE "NONE") /\ FramesWaiting' = 0
    <3>1. CASE clean'
      BY <1>2, <1>5, <2>2, <2>3, <3>1 DEF Begins, FrameAnswer, FramesWaiting
    <3>2. CASE ~clean'
      BY <1>2, <1>5, <2>2, <2>3, <3>2 DEF Begins, FrameAnswer, FramesWaiting
    <3> QED
      BY <3>1, <3>2
  <2>6. Units!Request
    BY <2>1, <2>2, <2>4, <2>5 DEF Units!Request
  <2> QED
    BY <2>6 DEF Units!FrameNext
<1> QED
  BY <1>3, <1>4, <1>5, PassKind

LEMMA FramesTx ==
    ASSUME TypeOK, LineInv, CommsTx
    PROVE  Units!FrameNext \/ UNCHANGED Units!frameVars
<1>1. /\ state_ = "COMMS_TX" /\ Exchanging /\ Exchanging' /\ uart' = uart
      /\ clean' = clean
  BY DEF CommsTx, Exchanging
<1>2. FramesWaiting' = FramesWaiting /\ FrameLine' = FrameLine
  BY <1>1 DEF FramesWaiting, FrameLine
<1>3. CASE HasMoreToSend
  <2>1. /\ state_' = "COMMS_TX" /\ out_left' = out_left - 1
        /\ out_left \in Nat /\ out_left > 0
    BY <1>1, <1>3, LinkAssumption DEF HasMoreToSend, CommsTx, TypeOK
  <2>2. FramePhase = "SENDING" /\ FrameAnswer = IF clean THEN "OWED" ELSE "NONE"
    BY <1>1, <1>3 DEF FramePhase, FrameAnswer
  <2>3. CASE out_left = 1
    <3>1. clean => owed' # <<>>
      <4> SUFFICES ASSUME clean PROVE owed' # <<>>
        OBVIOUS
      <4>1. Receive(exchange.request)
        BY <1>3, <2>3 DEF HasMoreToSend, CommsTx
      <4>2. owed = <<>> /\ Len(owed) < MaxOwed
        <5>1. owed = <<>>
          BY <1>1, <2>1 DEF LineInv, Sending
        <5> QED
          BY <5>1, LinkAssumption
      <4>3. owed' = Append(<<>>, [to |-> exchange.request, parts |-> MaxParts])
        BY <4>1, <4>2 DEF Receive
      <4> QED
        BY <4>3
    <3>2. FramePhase' = "SENT"
      BY <2>1, <2>3 DEF FramePhase, HasMoreToSend
    <3>3. FrameAnswer' = FrameAnswer
      BY <1>1, <2>2, <3>1 DEF FrameAnswer
    <3>4. Units!Sent
      BY <1>2, <2>2, <3>2, <3>3 DEF Units!Sent
    <3> QED
      BY <3>4 DEF Units!FrameNext
  <2>4. CASE out_left # 1
    <3>1. FramePhase' = "SENDING"
      BY <2>1, <2>4 DEF FramePhase, HasMoreToSend
    <3>2. FrameAnswer' = FrameAnswer
      BY <1>1, <2>2, <3>1 DEF FrameAnswer
    <3> QED
      BY <1>2, <2>2, <3>1, <3>2 DEF Units!frameVars
  <2> QED
    BY <2>3, <2>4
<1>4. CASE ~HasMoreToSend
  <2>1. state_' = "COMMS_RX" /\ owed' = owed
    BY <1>4 DEF CommsTx
  <2>2. FramePhase = "SENT" /\ FramePhase' = "LISTENING"
    BY <1>1, <1>4, <2>1 DEF FramePhase
  <2>3. FrameAnswer' = FrameAnswer
    BY <1>1, <2>1, <2>2 DEF FrameAnswer
  <2>4. Units!Listen
    BY <1>2, <2>2, <2>3 DEF Units!Listen
  <2> QED
    BY <2>4 DEF Units!FrameNext
<1> QED
  BY <1>3, <1>4

\* However an exchange ends, its frames are none of the next one's answer.
LEMMA FramesEnd ==
    ASSUME state_ = "COMMS_RX", Stays
    PROVE  /\ FramePhase = "LISTENING" /\ Units!Quiet' /\ FrameLine' \in Units!Lines
           /\ FrameLine' = IF NothingOnLine' THEN "CLEAN" ELSE "DIRTY"
<1>1. FramePhase = "LISTENING"
  BY DEF FramePhase
<1>2. FrameAnswer' = "NONE" /\ FramesWaiting' = 0
  BY DEF Stays, FrameAnswer, FramesWaiting
<1>3. FrameLine' = IF NothingOnLine' THEN "CLEAN" ELSE "DIRTY"
  BY DEF Stays, FrameLine, NothingOnLine
<1> QED
  BY <1>1, <1>2, <1>3 DEF Units!Quiet, Units!Lines

\* An exchange that began on a dirty line may end in any way.
LEMMA FramesMuddle ==
    ASSUME state_ = "COMMS_RX", Stays, ~clean
    PROVE  Units!Muddle
<1>1. FrameLine = "DIRTY"
  BY FramesMuddled DEF Exchanging
<1>2. FramePhase' \in Units!Ended
  BY DEF Stays, Exchanging, FramePhase, Units!Ended
<1> QED
  BY <1>1, <1>2, FramesEnd DEF Units!Muddle, Units!End

LEMMA FramesTimeout ==
    ASSUME TypeOK, ControlInv, RxTimeout
    PROVE  Units!FrameNext
<1>1. /\ state_ = "COMMS_RX" /\ Exchanging /\ Stays
      /\ exchange'.last_error = "HARDWARE_FAULT"
  <2>1. Stays
    BY ExchangeEnd DEF RxTimeout, GiveUp
  <2>2. exchange \in [request : Requests, last_error : {"OK", "HARDWARE_FAULT", "PARSE_ERROR"}]
    BY DEF TypeOK
  <2> QED
    BY <2>1, <2>2 DEF RxTimeout, Exchanging
<1>2. FramePhase' = "TIMED_OUT"
  BY <1>1 DEF Stays, Exchanging, FramePhase
<1>3. CASE clean
  <2>1. uart \in Seq(Frames) /\ Len(uart) \in Nat /\ (Len(uart) = 0 => uart = <<>>)
    <3>1. uart \in Seq(Frames)
      BY DEF TypeOK
    <3> QED
      BY <3>1
  <2>2. FramesWaiting = Len(uart)
    BY <1>1, <1>3 DEF FramesWaiting
  <2>3. FrameAnswer = "DONE" => FramesWaiting > 0
    <3>1. FrameAnswer = "DONE" => uart # <<>>
      BY DEF FrameAnswer
    <3> QED
      BY <2>1, <2>2, <3>1
  <2>4. FramesWaiting = 0 \/ LateReplies
    BY <2>2 DEF RxTimeout, RxTimedOut
  <2>5. Units!Timeout
    BY <1>1, <1>2, <2>3, <2>4, FramesEnd DEF Units!Timeout, Units!End
  <2> QED
    BY <2>5 DEF Units!FrameNext
<1>4. CASE ~clean
  BY <1>1, <1>4, FramesMuddle DEF Units!FrameNext
<1> QED
  BY <1>3, <1>4

LEMMA TailLast ==
    ASSUME NEW S, NEW s \in Seq(S), Len(s) > 0, Len(s) # 1
    PROVE  Tail(s) # <<>> /\ Tail(s)[Len(Tail(s))] = s[Len(s)]
<1>1. Len(s) \in Nat
  OBVIOUS
<1>2. Len(s) > 1
  <2>1. \A n \in Nat : n > 0 /\ n # 1 => n > 1
    OBVIOUS
  <2> QED
    BY <1>1, <2>1
<1>3. s # <<>>
  <2>1. Len(<<>>) = 0
    OBVIOUS
  <2> QED
    BY <1>2, <2>1
<1>4. /\ Tail(s) \in Seq(S) /\ Len(Tail(s)) = Len(s) - 1
      /\ \A k \in 1..(Len(s) - 1) : Tail(s)[k] = s[k + 1]
  BY <1>1, <1>3
<1>5. Len(Tail(s)) \in 1..(Len(s) - 1) /\ Len(Tail(s)) + 1 = Len(s)
  BY <1>1, <1>2, <1>4
<1>6. Tail(s) # <<>>
  <2>1. Len(<<>>) = 0 /\ Len(Tail(s)) # 0
    BY <1>5
  <2> QED
    BY <2>1
<1> QED
  BY <1>4, <1>5, <1>6

\* A frame of an exchange that began on a clean line is taken.
LEMMA FramesRxClean ==
    ASSUME TypeOK, ControlInv, LineInv, FreshInv, RxFrame, clean
    PROVE  Units!FrameNext
<1> DEFINE frame == Head(uart)
<1>1. /\ state_ = "COMMS_RX" /\ Exchanging /\ ReplyOnLine /\ uart # <<>>
      /\ uart' = Tail(uart) /\ owed' = owed /\ clean' = clean
      /\ exchange.last_error = "OK" /\ reading_state_.err_invalid_frames = 0
  BY DEF RxFrame, LineInv, FreshInv, Exchanging
<1>2. /\ uart \in Seq(Frames) /\ Len(uart) \in Nat /\ Len(uart) > 0
      /\ 1 \in DOMAIN uart /\ frame = uart[1] /\ Len(uart') = Len(uart) - 1
  <2>1. uart \in Seq(Frames)
    BY DEF TypeOK
  <2> QED
    BY <1>1, <2>1
<1>3. FramesWaiting = Len(uart) /\ FramePhase = "LISTENING" /\ FrameLine = "CLEAN"
  BY <1>1 DEF FramesWaiting, FramePhase, FrameLine
<1>4. CASE GetDataFails(frame)
  <2>1. Stays
    BY <1>1, <1>4, ExchangeEnd DEF GetDataFails
  <2>2. exchange' = exchange /\ reading_state_'.err_invalid_frames = 1
    BY <1>1, <1>4 DEF GetDataFails, TypeOK
  <2>3. FramePhase' = "REFUSED"
    BY <1>1, <2>1, <2>2 DEF Stays, Exchanging, FramePhase
  <2>4. Units!RefuseFrame
    BY <1>1, <1>2, <1>3, <2>1, <2>3, FramesEnd DEF Units!RefuseFrame, Units!End
  <2> QED
    BY <2>4 DEF Units!FrameNext
<1>5. CASE GetDataIncomplete(frame)
  <2>1. state_' = "COMMS_RX" /\ Exchanging' /\ uart[1].form = "PART"
    BY <1>1, <1>2, <1>5 DEF GetDataIncomplete, Exchanging
  <2>2. FramePhase' = "LISTENING" /\ FramesWaiting' = Len(uart) - 1 /\ FrameLine' = "CLEAN"
    BY <1>1, <1>2, <2>1 DEF FramePhase, FramesWaiting, FrameLine
  <2>3. ~Units!AtLast
    <3> SUFFICES ASSUME FrameAnswer = "DONE", FramesWaiting = 1 PROVE FALSE
      BY DEF Units!AtLast
    <3>1. uart[Len(uart)].form # "PART"
      BY DEF FrameAnswer
    <3> QED
      BY <1>3, <2>1, <3>1
  <2>4. FrameAnswer' = FrameAnswer
    <3>1. CASE Len(uart) = 1
      <4>1. uart' = <<>>
        BY <1>1, <1>2, <3>1
      <4> QED
        BY <1>1, <1>3, <2>1, <2>2, <3>1, <4>1 DEF FrameAnswer
    <3>2. CASE Len(uart) # 1
      <4>1. uart' # <<>> /\ uart'[Len(uart')] = uart[Len(uart)]
        BY <1>1, <1>2, <3>2, TailLast
      <4> QED
        BY <1>1, <1>3, <2>1, <2>2, <4>1 DEF FrameAnswer
    <3> QED
      BY <3>1, <3>2
  <2>5. Units!TakeFrame
    BY <1>2, <1>3, <2>2, <2>3, <2>4 DEF Units!TakeFrame
  <2> QED
    BY <2>5 DEF Units!FrameNext
<1>6. CASE ParserAccepts(frame) \/ ParserRefuses(frame)
  <2>1. Stays /\ frame.form \in LastForms
    BY <1>1, <1>6, ExchangeEnd DEF ParserAccepts, ParserRefuses, LastForms
  <2>2. Len(uart) = 1 /\ owed = <<>>
    BY <1>1, <1>2, <2>1 DEF ReplyOnLine
  <2>3. exchange'.last_error # "HARDWARE_FAULT" /\ reading_state_' = reading_state_
    <3>1. exchange \in [request : Requests,
                        last_error : {"OK", "HARDWARE_FAULT", "PARSE_ERROR"}]
      BY DEF TypeOK
    <3>2. CASE ParserAccepts(frame)
      BY <3>1, <3>2 DEF ParserAccepts
    <3>3. CASE ParserRefuses(frame)
      BY <3>1, <3>3 DEF ParserRefuses
    <3> QED
      BY <1>6, <3>2, <3>3
  <2>4. FramePhase' = "RECEIVED"
    BY <1>1, <2>1, <2>3 DEF Stays, Exchanging, FramePhase
  <2>5. Units!AtLast
    <3>1. FrameAnswer = "DONE"
      BY <1>1, <1>2, <1>3, <2>1, <2>2 DEF FrameAnswer, LastForms
    <3> QED
      BY <1>3, <2>2, <3>1 DEF Units!AtLast
  <2>6. NothingOnLine'
    BY <1>1, <1>2, <2>2 DEF NothingOnLine
  <2>7. Units!TakeLast
    BY <1>1, <2>1, <2>4, <2>5, <2>6, FramesEnd DEF Units!TakeLast, Units!End
  <2> QED
    BY <2>7 DEF Units!FrameNext
<1> QED
  BY <1>4, <1>5, <1>6 DEF RxFrame

LEMMA FramesRx ==
    ASSUME TypeOK, ControlInv, LineInv, FreshInv, RxFrame
    PROVE  Units!FrameNext \/ UNCHANGED Units!frameVars
<1>1. CASE clean
  BY <1>1, FramesRxClean
<1>2. CASE ~clean
  <2>1. state_ = "COMMS_RX" /\ Exchanging /\ ~clean'
    BY <1>2 DEF RxFrame, Exchanging
  <2>2. CASE GetDataIncomplete(Head(uart))
    <3>1. state_' = state_ /\ Exchanging'
      BY <2>1, <2>2 DEF GetDataIncomplete, Exchanging
    <3>2. FrameAnswer = "NONE" /\ FramesWaiting = 0 /\ FrameLine = "DIRTY"
      BY <1>2, <2>1, FramesMuddled
    <3>3. FrameAnswer' = "NONE" /\ FramesWaiting' = 0 /\ FrameLine' = "DIRTY"
      BY <2>1, <3>1 DEF FrameAnswer, FramesWaiting, FrameLine
    <3>4. FramePhase' = FramePhase
      BY <2>1, <3>1 DEF FramePhase
    <3> QED
      BY <3>2, <3>3, <3>4 DEF Units!frameVars
  <2>3. CASE GetDataFails(Head(uart)) \/ ParserAccepts(Head(uart)) \/ ParserRefuses(Head(uart))
    <3>1. Stays
      BY <2>1, <2>3, ExchangeEnd DEF GetDataFails, ParserAccepts, ParserRefuses
    <3> QED
      BY <1>2, <2>1, <3>1, FramesMuddle DEF Units!FrameNext
  <2> QED
    BY <2>2, <2>3 DEF RxFrame
<1> QED
  BY <1>1, <1>2

\* The meter's part in an exchange that began on a clean line.
LEMMA FramesMeterClean ==
    ASSUME TypeOK, LineInv, MeterReplies \/ MeterSilent, Exchanging, clean
    PROVE  Units!FrameNext
<1>1. UNCHANGED <<state_, reading_state_, out_left, exchange, clean>> /\ owed # <<>>
  BY DEF MeterReplies, MeterSilent, exchangeVars
<1>2. owed \in Seq([to : Requests, parts : 0..MaxParts]) /\ uart \in Seq(Frames)
  BY DEF TypeOK
<1>3. Exchanging' /\ ReplyOnLine /\ ~Sending
  BY <1>1 DEF LineInv, Exchanging
<1>4. /\ Len(owed) = 1 /\ DOMAIN owed = {1} /\ Tail(owed) = <<>>
  BY <1>1, <1>2, <1>3, OneElement DEF ReplyOnLine
<1>5. /\ FramePhase \in {"SENT", "LISTENING"} /\ FramePhase' = FramePhase
      /\ FrameLine' = FrameLine
  BY <1>1, <1>3 DEF FramePhase, Exchanging, Sending, HasMoreToSend, FrameLine
<1>6. FrameAnswer = "OWED" /\ FramesWaiting = Len(uart)
  BY <1>1, <1>3 DEF FrameAnswer, FramesWaiting
<1>7. \A k \in DOMAIN uart : uart[k].form \notin LastForms
  BY <1>1, <1>3 DEF ReplyOnLine
<1>8. CASE MeterSilent
  <2>1. owed' = <<>> /\ uart' = uart
    BY <1>4, <1>8 DEF MeterSilent
  <2>2. uart # <<>> => uart[Len(uart)].form \notin LastForms
    BY <1>2, <1>7
  <2>3. FrameAnswer' = "SILENT" /\ FramesWaiting' = FramesWaiting
    BY <1>1, <1>3, <1>5, <2>1, <2>2 DEF FrameAnswer, FramesWaiting, LastForms
  <2>4. Units!Silence
    BY <1>5, <1>6, <2>3 DEF Units!Silence
  <2> QED
    BY <2>4 DEF Units!FrameNext
<1>9. CASE MeterReplies
  <2>1. PICK form \in {"PART", "BAD_PART"} \cup LastForms :
           /\ uart' = Append(uart, [to |-> Head(owed).to, form |-> form])
           /\ \/ owed' = [owed EXCEPT ![1].parts = @ - 1]
              \/ owed' = <<>> /\ form \in LastForms
    BY <1>4, <1>9 DEF MeterReplies, LastForms
  <2>2. /\ uart' # <<>> /\ Len(uart') = Len(uart) + 1
        /\ uart'[Len(uart')].form = form
    BY <1>2, <2>1
  <2>3. FramesWaiting' = FramesWaiting + 1
    BY <1>1, <1>3, <1>6, <2>2 DEF FramesWaiting
  <2>4. FrameAnswer' \in {"OWED", "DONE"}
    <3>1. CASE owed' = <<>> /\ form \in LastForms
      BY <1>1, <1>3, <1>5, <2>2, <3>1 DEF FrameAnswer, LastForms
    <3>2. CASE owed' = [owed EXCEPT ![1].parts = @ - 1]
      <4>1. DOMAIN owed' = {1}
        BY <1>4, <3>2
      <4>2. owed' # <<>>
        BY <4>1
      <4> QED
        BY <1>1, <1>3, <4>2 DEF FrameAnswer
    <3> QED
      BY <2>1, <3>1, <3>2
  <2>5. Units!FrameArrives
    BY <1>5, <1>6, <2>3, <2>4 DEF Units!FrameArrives
  <2> QED
    BY <2>5 DEF Units!FrameNext
<1> QED
  BY <1>8, <1>9

LEMMA FramesMeter ==
    ASSUME TypeOK, LineInv, FreshInv, MeterReplies \/ MeterSilent
    PROVE  Units!FrameNext \/ UNCHANGED Units!frameVars
<1>1. UNCHANGED <<state_, reading_state_, out_left, exchange, clean>> /\ owed # <<>>
  BY DEF MeterReplies, MeterSilent, exchangeVars
<1>2. FramePhase' = FramePhase /\ Exchanging' = Exchanging
  BY <1>1 DEF FramePhase, HasMoreToSend, Exchanging
<1>3. CASE ~Exchanging
  <2>1. /\ FrameAnswer = "NONE" /\ FramesWaiting = 0 /\ FrameLine = "DIRTY"
        /\ FramePhase \in Units!Ended
    BY <1>1, <1>3, FramesBetween DEF FreshInv, NothingOnLine
  <2>2. FrameAnswer' = "NONE" /\ FramesWaiting' = 0 /\ FrameLine' \in {"CLEAN", "DIRTY"}
    BY <1>2, <1>3 DEF FrameAnswer, FramesWaiting, FrameLine
  <2>3. Units!Between
    BY <1>2, <2>1, <2>2 DEF Units!Between
  <2> QED
    BY <2>3 DEF Units!FrameNext
<1>4. CASE Exchanging /\ ~clean
  <2>1. FrameAnswer = "NONE" /\ FramesWaiting = 0 /\ FrameLine = "DIRTY"
    BY <1>4, FramesMuddled
  <2>2. FrameAnswer' = "NONE" /\ FramesWaiting' = 0 /\ FrameLine' = "DIRTY"
    BY <1>1, <1>2, <1>4 DEF FrameAnswer, FramesWaiting, FrameLine
  <2> QED
    BY <1>2, <2>1, <2>2 DEF Units!frameVars
<1> QED
  BY <1>3, <1>4, FramesMeterClean

LEMMA FramesStep ==
    ASSUME TypeOK, ControlInv, LineInv, LineInv', FreshInv, [Next]_vars
    PROVE  [Units!FrameNext]_(Units!frameVars)
<1>1. CASE UNCHANGED <<state_, reading_state_, exchange, out_left, owed, uart, clean>>
  <2>1. UNCHANGED <<FramePhase, FrameAnswer, FramesWaiting, FrameLine>>
    BY <1>1 DEF FramePhase, FrameAnswer, FramesWaiting, FrameLine, Exchanging, HasMoreToSend
  <2> QED
    BY <2>1 DEF Units!frameVars
<1>2. CASE Reboot
  BY <1>2, FramesRestart DEF Units!FrameNext
<1> QED
  BY <1>1, <1>2, NextKinds, FramesPass, FramesTx, FramesTimeout, FramesRx, FramesMeter

LEMMA FramesInit == Init => Units!FrameInit /\ FreshInv
<1> SUFFICES ASSUME Init PROVE Units!FrameInit /\ FreshInv
  OBVIOUS
<1>1. state_ = "NOT_INITIALIZED" /\ ~Exchanging /\ owed = <<>> /\ uart = <<>>
  BY DEF Init, Exchanging
<1>2. /\ FramePhase = "OFF" /\ FrameAnswer = "NONE" /\ FramesWaiting = 0
      /\ FrameLine = "CLEAN"
  BY <1>1, FramesBetween DEF NothingOnLine
<1> QED
  BY <1>1, <1>2 DEF Units!FrameInit, Units!Quiet, FreshInv

\* With any meter and any sensors, what the hub makes of a request and of the
\* frames on the line, in whatever state of a session, is an exchange of
\* FrameExchange: late replies, and the rest of a reply that was refused, make
\* the line of the next exchange a dirty one and nothing else.
THEOREM HubImplementsFrames == SafeSpec => ImplementsFrames
<1> DEFINE Inv == TypeOK /\ ControlInv /\ LineInv /\ FreshInv
<1>1. Init => Inv /\ Units!FrameInit
  BY TypeInit, ControlInit, LineInit, FramesInit
<1>2. Inv /\ [Next]_vars => Inv'
  BY TypeStep, Step, LineStep, FreshStep
<1>3. Inv /\ [Next]_vars => [Units!FrameNext]_(Units!frameVars)
  BY <1>2, FramesStep
<1> QED
  BY <1>1, <1>2, <1>3, PTL DEF SafeSpec, ImplementsFrames, Units!FrameSpec

----------------------------------------------------------------------------
\* A session comes to an end: the variant behind SessionEnds.

\* Where the session goes on when its exchange or its delay is over.
Target ==
    IF Exchanging THEN reading_state_.next_state
    ELSE IF state_ = "WAIT" THEN wait_next ELSE state_

Opening == {"OPEN_SESSION", "BUFFERS_REQ", "BUFFERS_RCV", "ASSOCIATION_REQ", "ASSOCIATION_RCV"}
OfObject == {"DATA_ENQ_UNIT", "DATA_ENQ", "DATA_RECV", "DATA_NEXT"}

\* Objects still to read, the one that is being read among them.
ObjectsLeft ==
    CASE Target \in Opening -> end + 1
      [] Target \in OfObject -> end + 1 - request_iter
      [] OTHER -> 0

\* States that are left of the opening, of one object, or of the end.
StagesLeft ==
    CASE Target \in {"OPEN_SESSION"} -> 5
      [] Target \in {"BUFFERS_REQ", "DATA_ENQ_UNIT", "SESSION_RELEASE"} -> 4
      [] Target \in {"BUFFERS_RCV", "DATA_ENQ", "DISCONNECT_REQ"} -> 3
      [] Target \in {"ASSOCIATION_REQ", "DATA_RECV", "PUBLISH"} -> 2
      [] Target \in {"ASSOCIATION_RCV", "DATA_NEXT", "MISSION_FAILED"} -> 1
      [] OTHER -> 0

\* ... with the way to Target counted as one more.
StatesLeft == 2 * StagesLeft + (IF Target = state_ THEN 0 ELSE 1)

SensorsLeft == IF state_ = "PUBLISH" THEN end - sensor_iter ELSE 0
PassesLeft == IF state_ = "COMMS_TX" THEN out_left + 1 ELSE 0
PartsLeft == IF owed = <<>> THEN 0 ELSE Head(owed).parts

\* What is left of a session, most important first.
SessionRank ==
    <<ObjectsLeft, StatesLeft, SensorsLeft, PassesLeft, Len(owed), PartsLeft, Len(uart)>>

\* Whatever the meter does, and with late replies and failing makers too,
\* each step of a session's hub or of its meter leaves less of the session to
\* do, and another hub's step leaves all of it, or reboots.
SessionProgress ==
    [][InSession =>
           \/ SessionRank' \in [1..7 -> Nat] /\ Below(SessionRank', SessionRank)
           \/ SessionRank' = SessionRank /\ \E h \in Others : Other(h)]_vars
RankTypes ==
    /\ ObjectsLeft \in Nat /\ StagesLeft \in Nat /\ StatesLeft \in Nat
    /\ SensorsLeft \in Nat /\ PassesLeft \in Nat
    /\ Len(owed) \in Nat /\ PartsLeft \in Nat /\ Len(uart) \in Nat

LEMMA RankOf == TypeOK => RankTypes
<1> SUFFICES ASSUME TypeOK PROVE RankTypes
  OBVIOUS
<1>1. end \in Nat /\ request_iter \in 1..end /\ sensor_iter \in 1..end
  BY BoundTypes DEF TypeOK, begin
<1>2. ObjectsLeft \in Nat
  BY <1>1 DEF ObjectsLeft
<1>3. StagesLeft \in Nat
  BY DEF StagesLeft
<1>4. StatesLeft \in Nat
  BY <1>3 DEF StatesLeft
<1>5. SensorsLeft \in Nat
  BY <1>1 DEF SensorsLeft
<1>6. PassesLeft \in Nat
  <2>1. out_left \in Nat
    BY BoundTypes DEF TypeOK
  <2> QED
    BY <2>1 DEF PassesLeft
<1>7. owed \in Seq(Owed) /\ uart \in Seq(Frames)
  BY DEF TypeOK, Owed
<1>8. PartsLeft \in Nat
  <2>1. CASE owed # <<>>
    <3>1. Head(owed) \in Owed
      BY <1>7, <2>1, HeadType
    <3> QED
      BY <3>1, BoundTypes DEF PartsLeft, Owed
  <2> QED
    BY <2>1 DEF PartsLeft
<1> QED
  BY <1>2, <1>3, <1>4, <1>5, <1>6, <1>7, <1>8 DEF RankTypes

\* Less of a session: Below, one place after the other.
LessLeft == SessionRank' \in [1..7 -> Nat] /\ Below(SessionRank', SessionRank)

LEMMA LessAt ==
    ASSUME RankTypes', NEW i \in 1..7, SessionRank'[i] < SessionRank[i],
           \A j \in 1..(i - 1) : SessionRank'[j] = SessionRank[j]
    PROVE  LessLeft
<1>1. DOMAIN SessionRank = 1..7
  BY DEF SessionRank
<1>2. SessionRank' \in [1..7 -> Nat]
  <2>1. \A a, b, c, d, e, f, g \in Nat : <<a, b, c, d, e, f, g>> \in [1..7 -> Nat]
    OBVIOUS
  <2> QED
    BY <2>1, Zenon DEF SessionRank, RankTypes
<1> HIDE DEF SessionRank
<1> QED
  BY <1>1, <1>2 DEF LessLeft, Below

LEMMA RankPlaces ==
    /\ SessionRank[1] = ObjectsLeft /\ SessionRank[2] = StatesLeft
    /\ SessionRank[3] = SensorsLeft /\ SessionRank[4] = PassesLeft
    /\ SessionRank[5] = Len(owed) /\ SessionRank[6] = PartsLeft
    /\ SessionRank[7] = Len(uart)
    /\ SessionRank'[1] = ObjectsLeft' /\ SessionRank'[2] = StatesLeft'
    /\ SessionRank'[3] = SensorsLeft' /\ SessionRank'[4] = PassesLeft'
    /\ SessionRank'[5] = Len(owed') /\ SessionRank'[6] = PartsLeft'
    /\ SessionRank'[7] = Len(uart')
BY DEF SessionRank

LEMMA PlacesBefore ==
    /\ \A j \in 1..(1 - 1) : FALSE
    /\ \A j \in 1..(2 - 1) : j = 1
    /\ \A j \in 1..(3 - 1) : j \in {1, 2}
    /\ \A j \in 1..(4 - 1) : j \in {1, 2, 3}
    /\ \A j \in 1..(5 - 1) : j \in {1, 2, 3, 4}
    /\ \A j \in 1..(6 - 1) : j \in {1, 2, 3, 4, 5}
    /\ \A j \in 1..(7 - 1) : j \in {1, 2, 3, 4, 5, 6}
OBVIOUS

\* A session that moves on: to another object, or to another state of it.
LEMMA MovesOn ==
    ASSUME RankTypes, RankTypes',
           \/ ObjectsLeft' < ObjectsLeft
           \/ ObjectsLeft' <= ObjectsLeft /\ StatesLeft' < StatesLeft
    PROVE  LessLeft
<1>1. \/ ObjectsLeft' < ObjectsLeft
      \/ ObjectsLeft' = ObjectsLeft /\ StatesLeft' < StatesLeft
  BY DEF RankTypes
<1> QED
  BY <1>1, RankPlaces, PlacesBefore, LessAt

\* A state further on counts, the way to it included.
LEMMA FewerStages ==
    ASSUME RankTypes, RankTypes', StagesLeft' < StagesLeft
    PROVE  StatesLeft' < StatesLeft
<1> DEFINE m == StagesLeft'
           n == StagesLeft
<1>1. StatesLeft' \in {2 * m, 2 * m + 1} /\ StatesLeft \in {2 * n, 2 * n + 1}
  BY DEF RankTypes, StatesLeft
<1>2. m \in Nat /\ n \in Nat /\ m < n
  BY DEF RankTypes
<1> HIDE DEF m, n
<1> QED
  BY <1>1, <1>2

\* The hub leaves the session: nothing of it is left.
LEMMA LeavesSession ==
    ASSUME TypeOK, ControlInv, RankTypes, RankTypes', InSession, ~InSession'
    PROVE  LessLeft
<1>1. Target' \in {"NOT_INITIALIZED", "IDLE", "TRY_LOCK_BUS"}
  BY DEF InSession, Waiting, Target, Exchanging
<1>2. ObjectsLeft' = 0 /\ StagesLeft' = 0
  BY <1>1 DEF ObjectsLeft, StagesLeft, Opening, OfObject
<1>3. Target \in Opening \cup OfObject
                  \cup {"SESSION_RELEASE", "DISCONNECT_REQ", "PUBLISH", "MISSION_FAILED"}
  BY DEF ControlInv, Continuations, InSession, Waiting, Target, Exchanging, States,
     Opening, OfObject
<1>4. StagesLeft > 0
  BY <1>3 DEF StagesLeft, Opening, OfObject
<1> QED
  BY <1>2, <1>4, FewerStages, MovesOn DEF RankTypes

\* From its data request to DATA_NEXT there is an object at request_iter.
IterInv == AfterAsk => request_iter # end

LEMMA IterStep ==
    ASSUME TypeOK, ControlInv, IterInv, [Next]_vars
    PROVE  IterInv'
<1>1. CASE UNCHANGED vars
  BY <1>1 DEF vars, exchangeVars, iterVars, IterInv, AfterAsk, Reading, Exchanging
<1>2. CASE BootTimeout \/ Update \/ Idle \/ TryLockBus \/ Reboot
  <2>1. state_' \in {"NOT_INITIALIZED", "IDLE", "TRY_LOCK_BUS", "WAIT", "OPEN_SESSION"}
    BY <1>2 DEF BootTimeout, Update, Idle, TryLockBus, Reboot, SetNextStateDelayed
  <2> QED
    BY <2>1 DEF IterInv, AfterAsk, Reading, Exchanging
<1>3. CASE Wait
  BY <1>3 DEF Wait, ControlInv, IterInv, AfterAsk, Reading, Exchanging
<1>4. CASE CommsTx \/ RxTimeout \/ RxFrame
  <2>1. Exchanging /\ request_iter' = request_iter
    BY <1>4 DEF CommsTx, RxTimeout, RxFrame, iterVars, Exchanging
  <2>2. \/ state_' \in {"COMMS_TX", "COMMS_RX"} /\ UNCHANGED reading_state_
        \/ state_' \in {reading_state_.next_state, "MISSION_FAILED"}
    BY <1>4 DEF CommsTx, RxTimeout, GiveUp, RxFrame, GetDataFails,
       GetDataIncomplete, ParserAccepts, ParserRefuses
  <2>3. reading_state_.next_state \in Continuations
    BY <2>1 DEF ControlInv, Exchanging
  <2> QED
    BY <2>1, <2>2, <2>3 DEF IterInv, AfterAsk, Reading, Exchanging, Continuations
<1>5. CASE \/ OpenSession \/ Associate \/ DataEnqUnit \/ SessionRelease
           \/ DisconnectReq \/ PublishSensor \/ PublishEnd
           \/ MissionFailed /\ ~Reboot
  <2>1. \/ state_' \notin {"DATA_RECV", "DATA_NEXT", "COMMS_TX", "COMMS_RX"}
        \/ state_' = "COMMS_TX" /\ reading_state_'.next_state # "DATA_RECV"
    BY <1>5 DEF OpenSession, Associate, DataEnqUnit, RequestUnit, SessionRelease,
       DisconnectReq, PublishSensor, PublishEnd, MissionFailed, CloseSession,
       SetNextState, SendReqAndNext
  <2> QED
    BY <2>1 DEF IterInv, AfterAsk, Reading, Exchanging
<1>6. CASE DataEnq
  <2>1. request_iter' = request_iter
    BY <1>6 DEF DataEnq
  <2>2. request_iter = end => state_' = "SESSION_RELEASE"
    BY <1>6 DEF DataEnq, SetNextState
  <2> QED
    BY <2>1, <2>2 DEF IterInv, AfterAsk, Reading, Exchanging
<1>7. CASE DataRecv
  BY <1>7 DEF DataRecv, iterVars, IterInv, AfterAsk
<1>8. CASE DataNext
  <2>1. state_' \in {"DATA_ENQ_UNIT", "SESSION_RELEASE", "WAIT"}
    BY <1>8 DEF DataNext, SetNextStateDelayed
  <2> QED
    BY <2>1 DEF IterInv, AfterAsk, Reading, Exchanging
<1>9. CASE MeterReplies \/ MeterSilent \/ \E h \in Others : Other(h)
  <2>1. UNCHANGED <<state_, reading_state_, request_iter>>
    BY <1>9 DEF MeterReplies, MeterSilent, Other, exchangeVars, iterVars
  <2> QED
    BY <2>1 DEF IterInv, AfterAsk, Reading, Exchanging
<1> QED
  BY <1>1, <1>2, <1>3, <1>4, <1>5, <1>6, <1>7, <1>8, <1>9 DEF Next, Loop,
     MissionFailed, OtherReboot

\* A handler of the session sends a request, or goes on to another state.
LEMMA HandlerTarget ==
    ASSUME NEW req, NEW next \in Continuations, NEW critical,
           SendReqAndNext(req, next, critical), InSession'
    PROVE  Target' = next
BY DEF SendReqAndNext, Target, Exchanging, InSession, Waiting

LEMMA StateTarget ==
    ASSUME state_' \notin {"COMMS_TX", "COMMS_RX", "WAIT"}
    PROVE  Target' = state_'
BY DEF Target, Exchanging

\* The objects that are left follow Target and request_iter.
LEMMA ObjectsOf ==
    /\ (Target \in Opening => ObjectsLeft = end + 1)
    /\ (Target \in OfObject => ObjectsLeft = end + 1 - request_iter)
    /\ (Target \notin Opening \cup OfObject => ObjectsLeft = 0)
    /\ (Target' \in Opening => ObjectsLeft' = end + 1)
    /\ (Target' \in OfObject => ObjectsLeft' = end + 1 - request_iter')
    /\ (Target' \notin Opening \cup OfObject => ObjectsLeft' = 0)
BY DEF ObjectsLeft, Opening, OfObject, end

LEMMA HandlerLess ==
    ASSUME TypeOK, RankTypes, RankTypes', IterInv, InSession',
           \/ OpenSession \/ Associate \/ DataEnqUnit \/ DataEnq \/ DataRecv
           \/ DataNext \/ SessionRelease \/ DisconnectReq
    PROVE  LessLeft
<1>1. end \in Nat /\ request_iter \in 1..end
  BY BoundTypes DEF TypeOK, begin
<1>2. Target = state_
  BY DEF OpenSession, Associate, DataEnqUnit, DataEnq, DataRecv, DataNext,
     SessionRelease, DisconnectReq, Target, Exchanging
<1>3. CASE OpenSession \/ Associate
  <2>1. \/ state_ = "OPEN_SESSION" /\ Target' = "BUFFERS_REQ"
        \/ state_ = "BUFFERS_REQ" /\ Target' = "BUFFERS_RCV"
        \/ state_ = "BUFFERS_RCV" /\ Target' = "ASSOCIATION_REQ"
        \/ state_ = "ASSOCIATION_REQ" /\ Target' = "ASSOCIATION_RCV"
        \/ /\ state_ = "ASSOCIATION_RCV" /\ Target' = "DATA_ENQ_UNIT"
           /\ request_iter' = request_iter
    BY <1>3, HandlerTarget, StateTarget DEF OpenSession, Associate, SetNextState,
       Continuations, iterVars
  <2>2. CASE Target' = "DATA_ENQ_UNIT"
    <3>1. ObjectsLeft' < ObjectsLeft
      BY <1>1, <1>2, <2>1, <2>2, ObjectsOf DEF Opening, OfObject
    <3> QED
      BY <3>1, MovesOn
  <2>3. CASE Target' # "DATA_ENQ_UNIT"
    <3>1. Target \in Opening /\ Target' \in Opening
      BY <1>2, <2>1, <2>3 DEF Opening
    <3>2. StagesLeft' < StagesLeft
      BY <1>2, <2>1, <2>3 DEF StagesLeft
    <3>3. ObjectsLeft' <= ObjectsLeft
      BY <1>1, <3>1, ObjectsOf
    <3> QED
      BY <3>2, <3>3, FewerStages, MovesOn
  <2> QED
    BY <2>2, <2>3
<1>4. CASE DataEnqUnit \/ DataEnq \/ DataRecv
  <2>1. request_iter' = request_iter
    BY <1>4 DEF DataEnqUnit, DataEnq, DataRecv, iterVars
  <2>2. \/ Target' = "SESSION_RELEASE"
        \/ state_ = "DATA_ENQ_UNIT" /\ Target' = "DATA_ENQ"
        \/ state_ = "DATA_ENQ" /\ Target' \in {"DATA_RECV", "DATA_NEXT"}
        \/ state_ = "DATA_RECV" /\ Target' = "DATA_NEXT"
    BY <1>4, HandlerTarget, StateTarget DEF DataEnqUnit, RequestUnit, DataEnq,
       RequestData, SendDataRequest, DataRecv, SetNextState, Continuations
  <2>3. state_ \in OfObject
    BY <1>4 DEF DataEnqUnit, DataEnq, DataRecv, OfObject
  <2>4. CASE Target' = "SESSION_RELEASE"
    <3>1. ObjectsLeft' < ObjectsLeft
      BY <1>1, <1>2, <2>3, <2>4, ObjectsOf DEF Opening, OfObject
    <3> QED
      BY <3>1, MovesOn
  <2>5. CASE Target' # "SESSION_RELEASE"
    <3>1. Target \in OfObject /\ Target' \in OfObject
      BY <1>2, <2>2, <2>5 DEF OfObject
    <3>2. StagesLeft' < StagesLeft
      BY <1>2, <2>2, <2>5 DEF StagesLeft
    <3>3. ObjectsLeft' <= ObjectsLeft
      BY <1>1, <2>1, <3>1, ObjectsOf
    <3> QED
      BY <3>2, <3>3, FewerStages, MovesOn
  <2> QED
    BY <2>4, <2>5
<1>5. CASE DataNext
  <2>1. request_iter \in Positions
    BY <1>5, IterType DEF DataNext, IterInv, AfterAsk
  <2>2. request_iter' \in 1..end /\ request_iter' > request_iter
    <3>1. request_iter' = UpperBound(request_iter)
      BY <1>5 DEF DataNext
    <3>2. request_iter < UpperBound(request_iter)
      <4>1. sensors_[request_iter].obis <= sensors_[request_iter].obis
        BY <2>1, SensorTypes
      <4> QED
        BY <2>1, <4>1, UpperBoundSeparates
    <3>3. UpperBound(request_iter) \in 1..end
      BY UpperBoundType
    <3> QED
      BY <1>1, <3>1, <3>2, <3>3
  <2>3. Target' \in {"SESSION_RELEASE", "DATA_ENQ_UNIT"}
    BY <1>5 DEF DataNext, SetNextStateDelayed, Target, Exchanging
  <2>4. Target \in OfObject
    BY <1>2, <1>5 DEF DataNext, OfObject
  <2>5. ObjectsLeft' < ObjectsLeft
    BY <1>1, <2>2, <2>3, <2>4, ObjectsOf DEF Opening, OfObject
  <2> QED
    BY <2>5, MovesOn
<1>6. CASE SessionRelease \/ DisconnectReq
  <2>1. \/ state_ = "SESSION_RELEASE" /\ Target' = "DISCONNECT_REQ"
        \/ state_ = "DISCONNECT_REQ" /\ Target' = "PUBLISH"
    BY <1>6, HandlerTarget, StateTarget DEF SessionRelease, DisconnectReq,
       SetNextState, Continuations
  <2>2. StagesLeft' < StagesLeft
    BY <1>2, <2>1 DEF StagesLeft
  <2>3. ObjectsLeft' = 0 /\ ObjectsLeft = 0
    BY <1>2, <2>1, ObjectsOf DEF Opening, OfObject
  <2> QED
    BY <2>2, <2>3, FewerStages, MovesOn
<1> QED
  BY <1>3, <1>4, <1>5, <1>6

\* The end of an exchange or of a delay: the hub is where it was on the way
\* to, or gives the session up.
LEMMA ArrivalLess ==
    ASSUME RankTypes, RankTypes', ControlInv, Exchanging \/ state_ = "WAIT",
           InSession, request_iter' = request_iter,
           state_' \in {Target, "MISSION_FAILED"}
    PROVE  LessLeft
<1>1. Target \in Continuations \cup {"DATA_ENQ_UNIT", "SESSION_RELEASE"}
  BY DEF ControlInv, InSession, Waiting, Target, Exchanging
<1>2. Target # state_ /\ Target' = state_'
  BY <1>1, StateTarget DEF Continuations, Exchanging
<1>3. StatesLeft = 2 * StagesLeft + 1 /\ StatesLeft' = 2 * StagesLeft'
  <2>1. \A n \in Nat : 2 * n + 0 = 2 * n
    OBVIOUS
  <2> QED
    BY <1>2, <2>1, Zenon DEF StatesLeft, RankTypes
<1>4. CASE state_' = Target
  <2>1. ObjectsLeft' = ObjectsLeft /\ StagesLeft' = StagesLeft
    BY <1>2, <1>4 DEF ObjectsLeft, StagesLeft
  <2>2. \A n \in Nat : 2 * n < 2 * n + 1
    OBVIOUS
  <2>3. StatesLeft' < StatesLeft
    BY <1>3, <2>1, <2>2, Zenon DEF RankTypes
  <2> QED
    BY <2>1, <2>3, MovesOn DEF RankTypes
<1>5. CASE state_' = "MISSION_FAILED"
  <2>1. ObjectsLeft' = 0 /\ StagesLeft' = 1
    BY <1>2, <1>5, ObjectsOf DEF Opening, OfObject, StagesLeft
  <2>2. StagesLeft \in {1, 2, 3, 4, 5}
    BY <1>1 DEF StagesLeft, Continuations
  <2>3. StatesLeft' < StatesLeft
    BY <1>3, <2>1, <2>2
  <2> QED
    BY <2>1, <2>3, MovesOn DEF RankTypes
<1> QED
  BY <1>4, <1>5

LEMMA TailLength ==
    ASSUME NEW S, NEW s \in Seq(S), s # <<>>
    PROVE  Len(Tail(s)) = Len(s) - 1 /\ Len(s) \in Nat
OBVIOUS

\* A pass that waits, talks to the meter or publishes.
LEMMA PassLess ==
    ASSUME TypeOK, ControlInv, RankTypes, RankTypes', InSession,
           Wait \/ CommsTx \/ RxTimeout \/ RxFrame \/ PublishSensor
    PROVE  LessLeft
<1>1. request_iter' = request_iter
  BY DEF Wait, CommsTx, RxTimeout, RxFrame, PublishSensor, iterVars
<1>2. CASE Wait
  BY <1>1, <1>2, ArrivalLess DEF Wait, Target, Exchanging
<1>3. CASE CommsTx
  <2>1. Exchanging /\ state_ = "COMMS_TX" /\ UNCHANGED <<reading_state_, sensor_iter>>
    BY <1>3 DEF CommsTx, Exchanging, iterVars
  <2>2. state_' \in {"COMMS_TX", "COMMS_RX"} /\ Target' = Target
    BY <1>3, <2>1 DEF CommsTx, Target, Exchanging
  <2>3. Target # state_ /\ Target' # state_'
    BY <2>1, <2>2 DEF ControlInv, Continuations, Target, Exchanging
  <2>4. ObjectsLeft' = ObjectsLeft /\ StagesLeft' = StagesLeft
    BY <1>1, <2>2 DEF ObjectsLeft, StagesLeft
  <2>5. StatesLeft' = StatesLeft
    BY <2>3, <2>4 DEF StatesLeft
  <2>6. SensorsLeft' = SensorsLeft
    BY <2>1, <2>2 DEF SensorsLeft
  <2>7. PassesLeft' < PassesLeft
    <3>1. out_left \in Nat
      BY BoundTypes DEF TypeOK
    <3> QED
      BY <1>3, <3>1 DEF CommsTx, PassesLeft, HasMoreToSend
  <2> QED
    BY <2>4, <2>5, <2>6, <2>7, RankPlaces, PlacesBefore, LessAt
<1>4. CASE RxTimeout
  BY <1>1, <1>4, ArrivalLess DEF RxTimeout, GiveUp, Target, Exchanging
<1>5. CASE RxFrame
  <2>1. /\ Exchanging /\ state_ = "COMMS_RX" /\ uart # <<>> /\ uart' = Tail(uart)
        /\ UNCHANGED <<sensor_iter, out_left, owed>>
    BY <1>5 DEF RxFrame, Exchanging, iterVars
  <2>2. \/ state_' \in {reading_state_.next_state, "MISSION_FAILED"}
        \/ state_' = "COMMS_RX" /\ UNCHANGED reading_state_
    BY <1>5 DEF RxFrame, GetDataFails, GetDataIncomplete, ParserAccepts, ParserRefuses
  <2>3. CASE state_' \in {reading_state_.next_state, "MISSION_FAILED"}
    BY <1>1, <2>1, <2>3, ArrivalLess DEF Target
  <2>4. CASE state_' = "COMMS_RX" /\ UNCHANGED reading_state_
    <3>1. UNCHANGED <<state_, Target>>
      BY <2>1, <2>4 DEF Target, Exchanging
    <3>2. /\ ObjectsLeft' = ObjectsLeft /\ StatesLeft' = StatesLeft
          /\ SensorsLeft' = SensorsLeft /\ PassesLeft' = PassesLeft
          /\ Len(owed') = Len(owed) /\ PartsLeft' = PartsLeft
      BY <1>1, <2>1, <3>1 DEF ObjectsLeft, StatesLeft, StagesLeft, SensorsLeft,
         PassesLeft, PartsLeft
    <3>3. Len(uart') < Len(uart)
      BY <2>1, TailLength DEF TypeOK
    <3> QED
      BY <3>2, <3>3, RankPlaces, PlacesBefore, LessAt
  <2> QED
    BY <2>2, <2>3, <2>4
<1>6. CASE PublishSensor
  <2>1. state_ = "PUBLISH" /\ state_' = "PUBLISH" /\ sensor_iter' = sensor_iter + 1
    BY <1>6 DEF PublishSensor
  <2>2. Target = "PUBLISH" /\ Target' = "PUBLISH"
    BY <2>1 DEF Target, Exchanging
  <2>3. ObjectsLeft' = ObjectsLeft /\ StatesLeft' = StatesLeft
    BY <1>1, <2>1, <2>2 DEF ObjectsLeft, StatesLeft, StagesLeft
  <2>4. SensorsLeft' < SensorsLeft
    <3>1. end \in Nat /\ sensor_iter \in 1..end
      BY BoundTypes DEF TypeOK, begin
    <3>2. \A m, n \in Nat : m - (n + 1) < m - n
      OBVIOUS
    <3>3. SensorsLeft = end - sensor_iter /\ SensorsLeft' = end - (sensor_iter + 1)
      BY <2>1 DEF SensorsLeft, end
    <3> QED
      BY <3>1, <3>2, <3>3
  <2> QED
    BY <2>3, <2>4, RankPlaces, PlacesBefore, LessAt
<1> QED
  BY <1>2, <1>3, <1>4, <1>5, <1>6

\* What is left of the hub's own part.
LEMMA HubPlaces ==
    ASSUME UNCHANGED <<state_, wait_next, reading_state_, out_left, iterVars>>
    PROVE  /\ ObjectsLeft' = ObjectsLeft /\ StatesLeft' = StatesLeft
           /\ SensorsLeft' = SensorsLeft /\ PassesLeft' = PassesLeft
<1>1. Target' = Target
  BY DEF Target, Exchanging
<1> QED
  BY <1>1 DEF iterVars, ObjectsLeft, StatesLeft, StagesLeft, SensorsLeft, PassesLeft

LEMMA MeterLess ==
    ASSUME TypeOK, RankTypes, RankTypes', MeterReplies \/ MeterSilent
    PROVE  LessLeft
<1>1. UNCHANGED <<state_, wait_next, reading_state_, out_left, iterVars>>
  BY DEF MeterReplies, MeterSilent, exchangeVars
<1>2. owed \in Seq(Owed) /\ owed # <<>>
  BY DEF TypeOK, Owed, MeterReplies, MeterSilent
<1>3. CASE owed' = Tail(owed)
  <2>1. Len(owed') < Len(owed)
    BY <1>2, <1>3, TailLength
  <2> QED
    BY <1>1, <2>1, HubPlaces, RankPlaces, PlacesBefore, LessAt
<1>4. CASE Head(owed).parts > 0 /\ owed' = [owed EXCEPT ![1].parts = @ - 1]
  <2>1. Len(owed) \in Nat /\ 1 \in DOMAIN owed /\ DOMAIN owed = 1..Len(owed)
    BY <1>2
  <2>2. owed[1] = Head(owed) /\ owed[1] \in Owed
    BY <1>2, <2>1, ElementOfSeq
  <2>3. Len(owed') = Len(owed) /\ owed' # <<>> /\ Head(owed') = owed'[1]
    BY <1>2, <1>4, <2>1
  <2>4. owed'[1].parts = owed[1].parts - 1
    BY <1>4, <2>1, <2>2 DEF Owed
  <2>5. PartsLeft' < PartsLeft
    BY <1>2, <2>2, <2>3, <2>4, BoundTypes DEF PartsLeft, Owed
  <2> QED
    BY <1>1, <2>3, <2>5, HubPlaces, RankPlaces, PlacesBefore, LessAt
<1> QED
  BY <1>3, <1>4 DEF MeterReplies, MeterSilent

LEMMA SessionLess ==
    ASSUME TypeOK, TypeOK', ControlInv, IterInv, InSession, Next
    PROVE  LessLeft \/ (SessionRank' = SessionRank /\ \E h \in Others : Other(h))
<1>1. RankTypes /\ RankTypes'
  <2>1. TypeOK' => RankTypes'
    BY RankOf, PTL
  <2> QED
    BY <2>1, RankOf
<1>2. CASE ~InSession'
  BY <1>1, <1>2, LeavesSession
<1>3. CASE InSession' /\ \/ OpenSession \/ Associate \/ DataEnqUnit \/ DataEnq
                         \/ DataRecv \/ DataNext \/ SessionRelease \/ DisconnectReq
  BY <1>1, <1>3, HandlerLess
<1>4. CASE Wait \/ CommsTx \/ RxTimeout \/ RxFrame \/ PublishSensor
  BY <1>1, <1>4, PassLess
<1>5. CASE MeterReplies \/ MeterSilent
  BY <1>1, <1>5, MeterLess
<1>6. ASSUME NEW h \in Others, Other(h) PROVE SessionRank' = SessionRank
  <2>1. UNCHANGED <<state_, wait_next, reading_state_, out_left, iterVars, owed, uart>>
    BY <1>6 DEF Other, exchangeVars, lineVars
  <2> QED
    BY <2>1, HubPlaces DEF SessionRank, PartsLeft
<1>7. CASE BootTimeout \/ Update \/ Idle \/ TryLockBus
  BY <1>7 DEF BootTimeout, Update, Idle, TryLockBus, InSession, Waiting
<1>8. CASE PublishEnd \/ MissionFailed \/ \E h \in Others : OtherReboot(h)
  <2>1. ~InSession'
    BY <1>8 DEF PublishEnd, MissionFailed, OtherReboot, Reboot, CloseSession, InSession
  <2> QED
    BY <1>2, <2>1
<1> QED
  BY <1>2, <1>3, <1>4, <1>5, <1>6, <1>7, <1>8 DEF Next, Loop

\* A session goes forward with every step of its own: no reply, timeout,
\* failed read or late frame brings it back to where it was.  With fairness
\* of loop() it ends, and the UART comes free.
THEOREM HubSessionGoesOn == SafeSpec => SessionProgress
<1> DEFINE Inv == TypeOK /\ ControlInv /\ IterInv
<1>1. Init => Inv
  <2>1. Init => IterInv
    BY DEF Init, IterInv, AfterAsk, Reading, Exchanging
  <2> QED
    BY <2>1, TypeInit, ControlInit
<1>2. Inv /\ [Next]_vars => Inv'
  BY TypeStep, Step, IterStep
<1>3. Inv /\ Inv' /\ [Next]_vars
        => [InSession =>
               \/ SessionRank' \in [1..7 -> Nat] /\ Below(SessionRank', SessionRank)
               \/ SessionRank' = SessionRank /\ \E h \in Others : Other(h)]_vars
  BY SessionLess DEF LessLeft
<1> QED
  BY <1>1, <1>2, <1>3, PTL DEF SafeSpec, SessionProgress
=============================================================================
