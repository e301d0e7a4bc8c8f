-------------------------- MODULE DlmsCosemProofs --------------------------
(***************************************************************************)
(* Proofs about DlmsCosem, for any sensors, configuration, other hubs and  *)
(* bounds, a meter that answers late, and request makers that fail.        *)
(***************************************************************************)
EXTENDS DlmsCosem, FiniteSetTheorems, TLAPS

\* The states in which a session goes on when an exchange is over.
Continuations == {"BUFFERS_RCV", "ASSOCIATION_RCV", "DATA_ENQ", "DATA_RECV",
                  "DISCONNECT_REQ", "PUBLISH"}

\* Where the hub can be sent by a reply, a timeout or the end of a delay:
\* the two remembered states lead on within the session.
ControlInv ==
    /\ state_ \in States
    /\ state_ \in {"COMMS_TX", "COMMS_RX"} => reading_state_.next_state \in Continuations
    /\ state_ = "WAIT" => wait_next \in {"TRY_LOCK_BUS", "DATA_ENQ_UNIT", "SESSION_RELEASE"}

\* A step of the hub, seen from the UARTs.
Hidden == SelfPhase' = SelfPhase /\ UNCHANGED busVars

SelfBoots ==
    SelfPhase = "NOT_INITIALIZED" /\ SelfPhase' = "IDLE" /\ UNCHANGED busVars
SelfUpdates ==
    SelfPhase = "IDLE" /\ SelfPhase' = "WAITING" /\ UNCHANGED busVars
SelfOpens ==
    /\ SelfPhase = "WAITING" /\ SelfPhase' = "SESSION"
    /\ TryLock(parent_[Self]) /\ UNCHANGED others
SelfCloses ==
    /\ SelfPhase = "SESSION" /\ SelfPhase' = "IDLE"
    /\ Unlock(parent_[Self]) /\ UNCHANGED others
SelfLoses ==
    /\ MakerCanFail
    /\ SelfPhase = "SESSION" /\ SelfPhase' = "IDLE" /\ UNCHANGED busVars
Reboots ==
    /\ SelfPhase = "SESSION" \/ \E h \in Others : others[h] = "SESSION"
    /\ SelfPhase' = "NOT_INITIALIZED"
    /\ others' = InitOthers
    /\ locked_objects_' = {}
OtherSteps(h) ==
    /\ SelfPhase' = SelfPhase
    /\ \/ OtherBoot(h) \/ OtherUpdate(h) \/ OtherOpen(h)
       \/ OtherClose(h) \/ OtherLoses(h)

StepKind ==
    \/ Hidden \/ SelfBoots \/ SelfUpdates \/ SelfOpens \/ SelfCloses
    \/ SelfLoses \/ Reboots
    \/ \E h \in Others : OtherSteps(h)

----------------------------------------------------------------------------
\* A hub sends a request from within its session and stays in it, unless the
\* maker fails.
LEMMA SendStep ==
    ASSUME NEW req, NEW next \in Continuations, NEW critical,
           SelfPhase = "SESSION", SendReqAndNext(req, next, critical),
           UNCHANGED busVars
    PROVE  ControlInv' /\ (Hidden \/ SelfLoses)
<1>1. CASE state_' = "COMMS_TX" /\ reading_state_'.next_state = next
  <2>1. SelfPhase' = "SESSION"
    BY <1>1 DEF SelfPhase, Waiting
  <2> QED
    BY <1>1, <2>1 DEF ControlInv, States, Hidden
<1>2. CASE MakerCanFail /\ state_' = "IDLE"
  <2>1. SelfPhase' = "IDLE"
    BY <1>2 DEF SelfPhase, Waiting
  <2> QED
    BY <1>2, <2>1 DEF ControlInv, States, SelfLoses
<1> QED
  BY <1>1, <1>2 DEF SendReqAndNext

\* A pass that goes on to another state of the session is hidden.
LEMMA GoOnStep ==
    ASSUME SelfPhase = "SESSION",
           state_' \in States \ {"NOT_INITIALIZED", "IDLE", "TRY_LOCK_BUS", "WAIT",
                                 "COMMS_TX", "COMMS_RX"},
           UNCHANGED busVars
    PROVE  ControlInv' /\ Hidden
  BY DEF SelfPhase, Waiting, ControlInv, Hidden, States

LEMMA TalkingIsSession ==
    ASSUME state_ \notin {"NOT_INITIALIZED", "IDLE", "TRY_LOCK_BUS", "WAIT"}
    PROVE  SelfPhase = "SESSION"
  BY DEF SelfPhase, Waiting

----------------------------------------------------------------------------
LEMMA RebootStep ==
    ASSUME Reboot, SelfPhase = "SESSION" \/ \E h \in Others : others[h] = "SESSION"
    PROVE  ControlInv' /\ Reboots
  BY DEF Reboot, Reboots, ControlInv, States, SelfPhase, Waiting

LEMMA BeforeSessionStep ==
    ASSUME ControlInv, BootTimeout \/ Update \/ Idle \/ TryLockBus
    PROVE  ControlInv' /\ StepKind
<1>1. CASE BootTimeout
  BY <1>1 DEF BootTimeout, ControlInv, States, StepKind, SelfBoots, SelfPhase, Waiting
<1>2. CASE Update
  BY <1>2 DEF Update, ControlInv, States, StepKind, SelfUpdates, SelfPhase, Waiting
<1>3. CASE Idle
  BY <1>3 DEF Idle, ControlInv, States, StepKind, Hidden, SelfPhase, Waiting
<1>4. CASE TryLockBus
  BY <1>4 DEF TryLockBus, SetNextStateDelayed, ControlInv, States, StepKind,
     SelfOpens, Hidden, SelfPhase, Waiting, busVars
<1> QED
  BY <1>1, <1>2, <1>3, <1>4

LEMMA WaitStep == ASSUME ControlInv, Wait PROVE ControlInv' /\ Hidden
  BY DEF Wait, ControlInv, Hidden, SelfPhase, Waiting, States, busVars

LEMMA CommsStep ==
    ASSUME ControlInv, CommsTx \/ RxTimeout \/ RxFrame
    PROVE  ControlInv' /\ Hidden
<1>1. SelfPhase = "SESSION"
  BY TalkingIsSession DEF CommsTx, RxTimeout, RxFrame
<1>2. UNCHANGED busVars
  BY DEF CommsTx, RxTimeout, RxFrame, busVars
<1>3. CASE CommsTx
  <2>1. reading_state_' = reading_state_ /\ state_' \in {"COMMS_TX", "COMMS_RX"}
    BY <1>3 DEF CommsTx
  <2> QED
    BY <1>1, <1>2, <1>3, <2>1 DEF CommsTx, ControlInv, Hidden, States, SelfPhase, Waiting
<1>4. CASE RxTimeout
  <2>1. state_' \in Continuations \cup {"MISSION_FAILED"}
    BY <1>4 DEF RxTimeout, GiveUp, ControlInv
  <2> QED
    BY <1>1, <1>2, <2>1, GoOnStep DEF Continuations, States
<1>5. CASE RxFrame
  <2>1. \/ state_' \in Continuations \cup {"MISSION_FAILED"}
        \/ state_' = "COMMS_RX" /\ reading_state_' = reading_state_
    BY <1>5 DEF RxFrame, GetDataFails, GetDataIncomplete, ParserAccepts,
       ParserRefuses, ControlInv
  <2>2. CASE state_' = "COMMS_RX" /\ reading_state_' = reading_state_
    BY <1>1, <1>2, <1>5, <2>2 DEF RxFrame, ControlInv, Hidden, States, SelfPhase, Waiting
  <2> QED
    BY <1>1, <1>2, <2>1, <2>2, GoOnStep DEF Continuations, States
<1> QED
  BY <1>3, <1>4, <1>5

LEMMA SessionStep ==
    ASSUME ControlInv,
           \/ OpenSession \/ Associate \/ DataEnqUnit \/ DataEnq \/ DataRecv
           \/ DataNext \/ SessionRelease \/ DisconnectReq \/ PublishSensor
    PROVE  ControlInv' /\ (Hidden \/ SelfLoses)
<1>1. SelfPhase = "SESSION"
  BY TalkingIsSession DEF OpenSession, Associate, DataEnqUnit, DataEnq, DataRecv,
     DataNext, SessionRelease, DisconnectReq, PublishSensor
<1>2. UNCHANGED busVars
  BY DEF OpenSession, Associate, DataEnqUnit, DataEnq, DataRecv, DataNext,
     SessionRelease, DisconnectReq, PublishSensor, busVars
<1>3. CASE OpenSession
  BY <1>1, <1>2, <1>3, GoOnStep DEF OpenSession, SetNextState, States
<1>4. CASE Associate
  BY <1>1, <1>2, <1>4, GoOnStep, SendStep DEF Associate, SetNextState, States, Continuations
<1>5. CASE DataEnqUnit
  BY <1>1, <1>2, <1>5, GoOnStep, SendStep DEF DataEnqUnit, RequestUnit,
     SetNextState, States, Continuations
<1>6. CASE DataEnq
  BY <1>1, <1>2, <1>6, GoOnStep, SendStep DEF DataEnq, RequestData, SendDataRequest,
     SetNextState, States, Continuations
<1>7. CASE DataRecv
  BY <1>1, <1>2, <1>7, GoOnStep DEF DataRecv, States
<1>8. CASE DataNext
  <2>1. \/ state_' \in {"DATA_ENQ_UNIT", "SESSION_RELEASE"}
        \/ state_' = "WAIT" /\ wait_next' \in {"DATA_ENQ_UNIT", "SESSION_RELEASE"}
    BY <1>8 DEF DataNext, SetNextStateDelayed
  <2> QED
    BY <1>1, <1>2, <2>1 DEF ControlInv, Hidden, States, SelfPhase, Waiting
<1>9. CASE SessionRelease
  BY <1>1, <1>2, <1>9, GoOnStep, SendStep DEF SessionRelease, SetNextState,
     States, Continuations
<1>10. CASE DisconnectReq
  BY <1>1, <1>2, <1>10, SendStep DEF DisconnectReq, Continuations
<1>11. CASE PublishSensor
  BY <1>1, <1>2, <1>11, GoOnStep DEF PublishSensor, States
<1> QED
  BY <1>3, <1>4, <1>5, <1>6, <1>7, <1>8, <1>9, <1>10, <1>11

LEMMA CloseStep ==
    ASSUME ControlInv, PublishEnd \/ MissionFailed
    PROVE  ControlInv' /\ (SelfCloses \/ Reboots)
<1>1. SelfPhase = "SESSION"
  BY TalkingIsSession DEF PublishEnd, MissionFailed
<1>2. CASE CloseSession /\ UNCHANGED others
  BY <1>1, <1>2 DEF CloseSession, ControlInv, States, SelfCloses, SelfPhase, Waiting
<1>3. CASE Reboot
  BY <1>1, <1>3, RebootStep
<1> QED
  BY <1>2, <1>3 DEF PublishEnd, MissionFailed

LEMMA EnvironmentStep ==
    ASSUME ControlInv,
           \/ MeterReplies \/ MeterSilent
           \/ \E h \in Others : Other(h) \/ OtherReboot(h)
    PROVE  ControlInv' /\ StepKind
<1>1. CASE MeterReplies \/ MeterSilent
  <2>1. UNCHANGED <<state_, wait_next, reading_state_, busVars>>
    BY <1>1 DEF MeterReplies, MeterSilent, exchangeVars
  <2> QED
    BY <2>1 DEF ControlInv, StepKind, Hidden, SelfPhase, Waiting
<1>2. ASSUME NEW h \in Others, Other(h) PROVE ControlInv' /\ StepKind
  <2>1. UNCHANGED <<state_, wait_next, reading_state_>>
    BY <1>2 DEF Other, exchangeVars
  <2> QED
    BY <1>2, <2>1 DEF Other, ControlInv, StepKind, OtherSteps, SelfPhase, Waiting
<1>3. ASSUME NEW h \in Others, OtherReboot(h) PROVE ControlInv' /\ StepKind
  BY <1>3, RebootStep DEF OtherReboot, StepKind
<1> QED
  BY <1>1, <1>2, <1>3

\* Every step of the program is one of a few kinds for the UARTs.
LEMMA Step == ControlInv /\ [Next]_vars => ControlInv' /\ StepKind
<1> SUFFICES ASSUME ControlInv, [Next]_vars PROVE ControlInv' /\ StepKind
  OBVIOUS
<1>1. CASE UNCHANGED vars
  <2>1. UNCHANGED <<state_, wait_next, reading_state_, busVars>>
    BY <1>1 DEF vars, exchangeVars
  <2> QED
    BY <2>1 DEF ControlInv, StepKind, Hidden, SelfPhase, Waiting
<1>2. CASE Next
  BY <1>2, BeforeSessionStep, WaitStep, CommsStep, SessionStep, CloseStep,
     EnvironmentStep DEF Next, Loop, StepKind
<1> QED
  BY <1>1, <1>2

LEMMA ControlInit == Init => ControlInv
  BY DEF Init, ControlInv, States

----------------------------------------------------------------------------
\* The hub and a hub of its UART are never both in a session, whatever the
\* maker of a request does.  Inductive only with the same for the other hubs
\* among themselves, since one of them may unlock the UART.
OthersHold ==
    /\ others \in [Others -> {"NOT_INITIALIZED", "IDLE", "WAITING", "SESSION"}]
    /\ \A h \in Others : others[h] = "SESSION" => parent_[h] \in locked_objects_
    /\ \A g, h \in Others :
          g # h /\ others[g] = "SESSION" /\ others[h] = "SESSION"
             => parent_[g] # parent_[h]

SelfHolds ==
    SelfPhase = "SESSION" => parent_[Self] \in locked_objects_ /\ ~OtherTalks

LockInv == OthersHold /\ SelfHolds

LEMMA PhaseOfSession == ControlInv => (InSession <=> SelfPhase = "SESSION")
  BY DEF ControlInv, States, InSession, SelfPhase, Waiting

LEMMA LockInit == Init => LockInv
  BY DEF Init, LockerInit, InitOthers, LockInv, OthersHold, SelfHolds,
     OtherTalks, SelfPhase, Waiting

\* A step of another hub.
LEMMA OtherLockStep ==
    ASSUME LockInv, NEW h \in Others, OtherSteps(h)
    PROVE  LockInv'
<1>1. SelfPhase' = SelfPhase
  BY DEF OtherSteps
<1>2. ASSUME NEW p \in {"IDLE", "WAITING"}, others[h] # "SESSION",
             others' = [others EXCEPT ![h] = p], UNCHANGED locked_objects_
      PROVE  LockInv'
  <2>1. \A g \in Others : others'[g] = "SESSION" <=> others[g] = "SESSION"
    BY <1>2 DEF LockInv, OthersHold
  <2> QED
    BY <1>1, <1>2, <2>1 DEF LockInv, OthersHold, SelfHolds, OtherTalks
<1>3. CASE OtherOpen(h)
  <2>1. \A g \in Others : others'[g] = "SESSION" <=> g = h \/ others[g] = "SESSION"
    BY <1>3 DEF OtherOpen, LockInv, OthersHold
  <2>2. OthersHold'
    BY <1>3, <2>1 DEF OtherOpen, TryLock, LockInv, OthersHold
  <2>3. SelfHolds'
    BY <1>1, <1>3, <2>1 DEF OtherOpen, TryLock, LockInv, SelfHolds, OtherTalks
  <2> QED
    BY <2>2, <2>3 DEF LockInv
<1>4. CASE OtherClose(h)
  <2>1. \A g \in Others : others'[g] = "SESSION" <=> g # h /\ others[g] = "SESSION"
    BY <1>4 DEF OtherClose, LockInv, OthersHold
  <2>2. \A g \in Others : g # h /\ others[g] = "SESSION" => parent_[g] # parent_[h]
    BY <1>4 DEF OtherClose, LockInv, OthersHold
  <2>3. SelfPhase = "SESSION" => parent_[Self] # parent_[h]
    BY <1>4 DEF OtherClose, LockInv, SelfHolds, OtherTalks
  <2>4. OthersHold'
    BY <1>4, <2>1, <2>2 DEF OtherClose, Unlock, LockInv, OthersHold
  <2>5. SelfHolds'
    BY <1>1, <1>4, <2>1, <2>3 DEF OtherClose, Unlock, LockInv, SelfHolds, OtherTalks
  <2> QED
    BY <2>4, <2>5 DEF LockInv
<1>5. CASE OtherLoses(h)
  <2>1. \A g \in Others : others'[g] = "SESSION" <=> g # h /\ others[g] = "SESSION"
    BY <1>5 DEF OtherLoses, LockInv, OthersHold
  <2>2. OthersHold'
    BY <1>5, <2>1 DEF OtherLoses, LockInv, OthersHold
  <2>3. SelfHolds'
    BY <1>1, <1>5, <2>1 DEF OtherLoses, LockInv, SelfHolds, OtherTalks
  <2> QED
    BY <2>2, <2>3 DEF LockInv
<1> QED
  BY <1>2, <1>3, <1>4, <1>5 DEF OtherSteps, OtherBoot, OtherUpdate

LEMMA LockStep == LockInv /\ StepKind => LockInv'
<1> SUFFICES ASSUME LockInv, StepKind PROVE LockInv'
  OBVIOUS
<1>1. CASE Hidden
  BY <1>1 DEF Hidden, busVars, LockInv, OthersHold, SelfHolds, OtherTalks
<1>2. CASE SelfBoots \/ SelfUpdates \/ SelfLoses
  BY <1>2 DEF SelfBoots, SelfUpdates, SelfLoses, busVars, LockInv, OthersHold, SelfHolds
<1>3. CASE SelfOpens
  BY <1>3 DEF SelfOpens, TryLock, LockInv, OthersHold, SelfHolds, OtherTalks
<1>4. CASE SelfCloses
  <2>1. \A h \in Others : others[h] = "SESSION" => parent_[h] # parent_[Self]
    BY <1>4 DEF SelfCloses, LockInv, SelfHolds, OtherTalks
  <2> QED
    BY <1>4, <2>1 DEF SelfCloses, Unlock, LockInv, OthersHold, SelfHolds
<1>5. CASE Reboots
  BY <1>5 DEF Reboots, InitOthers, LockInv, OthersHold, SelfHolds
<1>6. CASE \E h \in Others : OtherSteps(h)
  BY <1>6, OtherLockStep
<1> QED
  BY <1>1, <1>2, <1>3, <1>4, <1>5, <1>6 DEF StepKind

\* From the lock to the unlock the UART belongs to this hub alone.
THEOREM HubHasUart == SafeSpec => []UartIsOurs
<1>1. Init => ControlInv /\ LockInv
  BY ControlInit, LockInit
<1>2. (ControlInv /\ LockInv) /\ [Next]_vars => (ControlInv /\ LockInv)'
  BY Step, LockStep
<1>3. ControlInv /\ LockInv => UartIsOurs
  BY PhaseOfSession DEF LockInv, SelfHolds, UartIsOurs
<1> QED
  BY <1>1, <1>2, <1>3, PTL DEF SafeSpec

----------------------------------------------------------------------------
\* While no maker fails, a locked UART has a hub that is going to unlock it.
LockUsed ==
    parent_[Self] \in locked_objects_ => SelfPhase = "SESSION" \/ OtherTalks

LEMMA LockUsedStep ==
    ASSUME ~MakerCanFail, LockInv, LockUsed, StepKind
    PROVE  LockUsed'
<1>1. CASE Hidden
  BY <1>1 DEF Hidden, busVars, LockUsed, OtherTalks
<1>2. CASE SelfBoots \/ SelfUpdates
  BY <1>2 DEF SelfBoots, SelfUpdates, busVars, LockUsed, OtherTalks
<1>3. CASE SelfOpens
  BY <1>3 DEF SelfOpens, LockUsed
<1>4. CASE SelfCloses
  BY <1>4 DEF SelfCloses, Unlock, LockUsed
<1>5. CASE Reboots
  BY <1>5 DEF Reboots, LockUsed
<1>6. ASSUME NEW h \in Others, OtherSteps(h) PROVE LockUsed'
  <2>1. \A g \in Others : g # h => others'[g] = others[g]
    BY <1>6 DEF OtherSteps, OtherBoot, OtherUpdate, OtherOpen, OtherClose, OtherLoses,
       LockInv, OthersHold
  <2>2. CASE OtherBoot(h) \/ OtherUpdate(h)
    BY <1>6, <2>1, <2>2 DEF OtherSteps, OtherBoot, OtherUpdate, LockUsed, OtherTalks
  <2>3. CASE OtherOpen(h)
    BY <1>6, <2>1, <2>3 DEF OtherSteps, OtherOpen, TryLock, LockUsed, OtherTalks,
       LockInv, OthersHold
  <2>4. CASE OtherClose(h)
    BY <1>6, <2>1, <2>4 DEF OtherSteps, OtherClose, Unlock, LockUsed, OtherTalks
  <2> QED
    BY <1>6, <2>2, <2>3, <2>4 DEF OtherSteps, OtherLoses
<1> QED
  BY <1>1, <1>2, <1>3, <1>4, <1>5, <1>6 DEF StepKind, SelfLoses

\* However a session ends, the UART is left unlocked for the others.
THEOREM HubLeavesUart == ~MakerCanFail => (SafeSpec => []NoLockLeft)
<1> SUFFICES ASSUME ~MakerCanFail PROVE SafeSpec => []NoLockLeft
  OBVIOUS
<1> DEFINE Inv == ControlInv /\ LockInv /\ LockUsed
<1>1. Init => Inv
  BY ControlInit, LockInit DEF Init, LockerInit, LockUsed
<1>2. Inv /\ [Next]_vars => Inv'
  BY Step, LockStep, LockUsedStep
<1>3. Inv => NoLockLeft
  BY PhaseOfSession DEF LockUsed, NoLockLeft
<1> QED
  BY <1>1, <1>2, <1>3, PTL DEF SafeSpec

----------------------------------------------------------------------------
\* The refinement: each kind of step is a step of DlmsBus, or hidden from it.
LEMMA PhaseInit == Init => Bus!BusInit
<1> SUFFICES ASSUME Init PROVE Bus!BusInit
  OBVIOUS
<1>1. SelfPhase = "NOT_INITIALIZED"
  BY DEF Init, SelfPhase
<1>2. Phase = [h \in Others \cup {Self} |-> "NOT_INITIALIZED"]
  BY <1>1 DEF Init, InitOthers, Phase
<1>3. LostUarts = {}
  BY DEF Init, LockerInit, LostUarts
<1> QED
  BY <1>2, <1>3 DEF Init, LockerInit, Bus!BusInit, Bus!LockerInit

\* Only the phase of this hub changes ...
LEMMA SelfPhaseStep ==
    ASSUME UNCHANGED others
    PROVE  Phase' = [Phase EXCEPT ![Self] = SelfPhase'] /\ Phase[Self] = SelfPhase
  BY BusAssumption DEF Phase

\* ... or only the phase of another one.
LEMMA OtherPhaseStep ==
    ASSUME UNCHANGED SelfPhase, NEW h \in Others, NEW p,
           others \in [Others -> {"NOT_INITIALIZED", "IDLE", "WAITING", "SESSION"}],
           others' = [others EXCEPT ![h] = p]
    PROVE  Phase' = [Phase EXCEPT ![h] = p] /\ Phase[h] = others[h]
  BY BusAssumption DEF Phase

BusHubs == Others \cup {Self}

\* LockInv in the terms of DlmsBus.
PhaseInv ==
    \A h \in BusHubs : Phase[h] = "SESSION" =>
        /\ parent_[h] \in locked_objects_
        /\ \A g \in BusHubs : g # h /\ Phase[g] = "SESSION" => parent_[g] # parent_[h]

LEMMA PhaseInvHolds == LockInv => PhaseInv
  BY BusAssumption DEF LockInv, OthersHold, SelfHolds, OtherTalks, PhaseInv,
     BusHubs, Phase

\* What the four ways a phase and its lock change do to the UARTs lost.
LEMMA LostKept ==
    ASSUME NEW h \in BusHubs, NEW p, Phase' = [Phase EXCEPT ![h] = p],
           Phase[h] = "SESSION" <=> p = "SESSION", UNCHANGED locked_objects_
    PROVE  LostUarts' = LostUarts
<1>1. \A g \in BusHubs : Phase'[g] = "SESSION" <=> Phase[g] = "SESSION"
  BY DEF Phase, BusHubs
<1> QED
  BY <1>1 DEF LostUarts, BusHubs

LEMMA LostOpened ==
    ASSUME NEW h \in BusHubs, Phase' = [Phase EXCEPT ![h] = "SESSION"],
           TryLock(parent_[h])
    PROVE  LostUarts' = LostUarts
<1>1. \A g \in BusHubs : Phase'[g] = "SESSION" <=> g = h \/ Phase[g] = "SESSION"
  BY DEF Phase, BusHubs
<1> QED
  BY <1>1 DEF LostUarts, BusHubs, TryLock

LEMMA LostClosed ==
    ASSUME NEW h \in BusHubs, Phase' = [Phase EXCEPT ![h] = "IDLE"],
           Phase[h] = "SESSION", Unlock(parent_[h])
    PROVE  LostUarts' = LostUarts
<1>1. \A g \in BusHubs : Phase'[g] = "SESSION" <=> g # h /\ Phase[g] = "SESSION"
  BY DEF Phase, BusHubs
<1> QED
  BY <1>1 DEF LostUarts, BusHubs, Unlock

LEMMA LostLost ==
    ASSUME PhaseInv, NEW h \in BusHubs, Phase' = [Phase EXCEPT ![h] = "IDLE"],
           Phase[h] = "SESSION", UNCHANGED locked_objects_
    PROVE  LostUarts' = LostUarts \cup {parent_[h]}
<1>1. \A g \in BusHubs : Phase'[g] = "SESSION" <=> g # h /\ Phase[g] = "SESSION"
  BY DEF Phase, BusHubs
<1>2. parent_[h] \in locked_objects_
  BY DEF PhaseInv
<1>3. \A g \in BusHubs : g # h /\ Phase[g] = "SESSION" => parent_[g] # parent_[h]
  BY DEF PhaseInv
<1> QED
  BY <1>1, <1>2, <1>3 DEF LostUarts, BusHubs

\* A step of one hub, whichever it is.
LEMMA PhaseStep ==
    ASSUME PhaseInv, NEW h \in BusHubs, NEW p, Phase' = [Phase EXCEPT ![h] = p],
           \/ Phase[h] = "NOT_INITIALIZED" /\ p = "IDLE" /\ UNCHANGED locked_objects_
           \/ Phase[h] = "IDLE" /\ p = "WAITING" /\ UNCHANGED locked_objects_
           \/ Phase[h] = "WAITING" /\ p = "SESSION" /\ TryLock(parent_[h])
           \/ Phase[h] = "SESSION" /\ p = "IDLE" /\ Unlock(parent_[h])
           \/ MakerCanFail /\ Phase[h] = "SESSION" /\ p = "IDLE" /\ UNCHANGED locked_objects_
    PROVE  Bus!BusNext
<1>1. CASE Phase[h] = "NOT_INITIALIZED" /\ p = "IDLE" /\ UNCHANGED locked_objects_
  <2>1. Bus!BootTimeout(h)
    BY <1>1, LostKept DEF Bus!BootTimeout, Bus!Polled, BusHubs
  <2> QED
    BY <2>1 DEF Bus!BusNext, BusHubs
<1>2. CASE Phase[h] = "IDLE" /\ p = "WAITING" /\ UNCHANGED locked_objects_
  <2>1. Bus!Update(h)
    BY <1>2, LostKept DEF Bus!Update
  <2> QED
    BY <2>1 DEF Bus!BusNext, BusHubs
<1>3. CASE Phase[h] = "WAITING" /\ p = "SESSION" /\ TryLock(parent_[h])
  <2>1. Bus!OpenSession(h)
    BY <1>3, LostOpened DEF TryLock, Bus!OpenSession, Bus!TryLock
  <2> QED
    BY <2>1 DEF Bus!BusNext, BusHubs
<1>4. CASE Phase[h] = "SESSION" /\ p = "IDLE" /\ Unlock(parent_[h])
  <2>1. Bus!CloseSession(h)
    BY <1>4, LostClosed DEF Unlock, Bus!CloseSession, Bus!Unlock
  <2> QED
    BY <2>1 DEF Bus!BusNext, BusHubs
<1>5. CASE MakerCanFail /\ Phase[h] = "SESSION" /\ p = "IDLE" /\ UNCHANGED locked_objects_
  <2>1. Bus!LoseSession(h)
    BY <1>5, LostLost DEF Bus!LoseSession
  <2> QED
    BY <2>1 DEF Bus!BusNext, BusHubs
<1> QED
  BY <1>1, <1>2, <1>3, <1>4, <1>5

LEMMA BusStep ==
    ASSUME LockInv, StepKind
    PROVE  Bus!BusNext \/ UNCHANGED Bus!busVars
<1> USE PhaseInvHolds
<1>1. CASE Hidden
  <2>1. Phase' = Phase
    BY <1>1 DEF Hidden, busVars, Phase
  <2>2. LostUarts' = LostUarts
    BY <1>1, <2>1 DEF Hidden, busVars, LostUarts
  <2> QED
    BY <1>1, <2>1, <2>2 DEF Hidden, busVars, Bus!busVars
<1>2. CASE SelfBoots \/ SelfUpdates \/ SelfOpens \/ SelfCloses \/ SelfLoses
  <2>1. UNCHANGED others /\ Self \in BusHubs
    BY <1>2 DEF SelfBoots, SelfUpdates, SelfOpens, SelfCloses, SelfLoses, busVars, BusHubs
  <2>2. Phase' = [Phase EXCEPT ![Self] = SelfPhase'] /\ Phase[Self] = SelfPhase
    BY <2>1, SelfPhaseStep
  <2> QED
    BY <1>2, <2>1, <2>2, PhaseStep DEF SelfBoots, SelfUpdates, SelfOpens, SelfCloses,
       SelfLoses, busVars
<1>3. CASE Reboots
  <2>1. PICK h \in Others \cup {Self} : Phase[h] = "SESSION"
    BY <1>3, BusAssumption DEF Reboots, Phase
  <2>2. Phase' = [g \in Others \cup {Self} |-> "NOT_INITIALIZED"]
    BY <1>3 DEF Reboots, InitOthers, Phase
  <2>3. LostUarts' = {}
    BY <1>3 DEF Reboots, LostUarts
  <2>4. Bus!Reboot(h)
    BY <1>3, <2>1, <2>2, <2>3 DEF Reboots, Bus!Reboot
  <2> QED
    BY <2>4 DEF Bus!BusNext
<1>4. ASSUME NEW h \in Others, OtherSteps(h)
      PROVE  Bus!BusNext \/ UNCHANGED Bus!busVars
  <2>1. PICK p : others' = [others EXCEPT ![h] = p]
    BY <1>4 DEF OtherSteps, OtherBoot, OtherUpdate, OtherOpen, OtherClose, OtherLoses
  <2>2. others'[h] = p
    BY <2>1 DEF LockInv, OthersHold
  <2>3. Phase' = [Phase EXCEPT ![h] = p] /\ Phase[h] = others[h]
    BY <1>4, <2>1, OtherPhaseStep DEF OtherSteps, LockInv, OthersHold
  <2>4. \/ others[h] = "NOT_INITIALIZED" /\ p = "IDLE" /\ UNCHANGED locked_objects_
        \/ others[h] = "IDLE" /\ p = "WAITING" /\ UNCHANGED locked_objects_
        \/ others[h] = "WAITING" /\ p = "SESSION" /\ TryLock(parent_[h])
        \/ others[h] = "SESSION" /\ p = "IDLE" /\ Unlock(parent_[h])
        \/ MakerCanFail /\ others[h] = "SESSION" /\ p = "IDLE" /\ UNCHANGED locked_objects_
    BY <1>4, <2>2 DEF OtherSteps, OtherBoot, OtherUpdate, OtherOpen, OtherClose,
       OtherLoses, LockInv, OthersHold
  <2> QED
    BY <2>3, <2>4, PhaseStep DEF BusHubs
<1> QED
  BY <1>1, <1>2, <1>3, <1>4 DEF StepKind

\* The hub with its meter and the other hubs behave as the hubs of DlmsBus:
\* whatever happens inside a session is hidden, and a maker that fails is the
\* one way to lose the UART.
THEOREM HubImplementsBus == SafeSpec => ImplementsBus
<1>1. Init => ControlInv /\ LockInv /\ Bus!BusInit
  BY ControlInit, LockInit, PhaseInit
<1>2. (ControlInv /\ LockInv) /\ [Next]_vars => (ControlInv /\ LockInv)'
  BY Step, LockStep
<1>3. (ControlInv /\ LockInv) /\ [Next]_vars => [Bus!BusNext]_(Bus!busVars)
  BY Step, BusStep
<1> QED
  BY <1>1, <1>2, <1>3, PTL DEF SafeSpec, ImplementsBus, Bus!BusSafeSpec
----------------------------------------------------------------------------
\* Types.

LEMMA ElementOfSeq ==
    ASSUME NEW S, NEW s \in Seq(S), NEW i \in 1..Len(s)
    PROVE  s[i] \in S
  OBVIOUS

LEMMA HeadType ==
    ASSUME NEW S, NEW s \in Seq(S), s # <<>>
    PROVE  Head(s) \in S
  OBVIOUS

LEMMA TailType ==
    ASSUME NEW S, NEW s \in Seq(S), s # <<>>
    PROVE  Tail(s) \in Seq(S)
  OBVIOUS

LEMMA AppendType ==
    ASSUME NEW S, NEW s \in Seq(S), NEW e \in S
    PROVE  Append(s, e) \in Seq(S)
  OBVIOUS

LEMMA SensorTypes ==
    /\ Len(sensors_) \in Nat
    /\ \A i \in Positions :
          /\ sensors_[i].obis \in Nat \ {0}
          /\ sensors_[i].obis \in Obis
          /\ sensors_[i].publish \in BOOLEAN
<1> USE SensorsAssumption
<1>1. Len(sensors_) \in Nat
  OBVIOUS
<1>2. ASSUME NEW i \in Positions
      PROVE  /\ sensors_[i].obis \in Nat \ {0}
             /\ sensors_[i].obis \in Obis
             /\ sensors_[i].publish \in BOOLEAN
  <2>1. sensors_[i] \in [obis : Nat \ {0}, type : {"SENSOR", "TEXT_SENSOR"},
                         class : {"DATA", "REGISTER", "CLOCK", "OTHER"},
                         publish : BOOLEAN]
    BY <1>2, ElementOfSeq DEF Positions
  <2> QED
    BY <1>2, <2>1 DEF Obis
<1> QED
  BY <1>1, <1>2

\* upper_bound() passes over the sensors up to the key, and only those: they
\* stand together at the front of the multimap.
LEMMA UpperBoundType ==
    ASSUME NEW i
    PROVE  UpperBound(i) \in 1..end
<1> DEFINE S == {k \in Positions : sensors_[k].obis <= sensors_[i].obis}
<1>1. IsFiniteSet(Positions) /\ Cardinality(Positions) = Len(sensors_)
  <2>1. /\ IsFiniteSet(1..Len(sensors_))
        /\ Cardinality(1..Len(sensors_)) =
             IF 1 > Len(sensors_) THEN 0 ELSE Len(sensors_) - 1 + 1
    BY SensorTypes, FS_Interval
  <2> QED
    BY <2>1, SensorTypes DEF Positions
<1>2. IsFiniteSet(S) /\ Cardinality(S) <= Len(sensors_)
  BY <1>1, FS_Subset
<1>3. Cardinality(S) \in Nat
  BY <1>2, FS_CardinalityType
<1> QED
  BY <1>2, <1>3, SensorTypes DEF UpperBound, end

LEMMA RequestTypes ==
    /\ Unread \in Requests
    /\ \A kind \in LinkKinds : Request(kind, 0) \in Requests
    /\ \A kind \in ReadKinds, o \in Obis \cup {0} : Request(kind, o) \in Requests
  BY DEF Unread, Request, Requests, LinkKinds, ReadKinds

ReadingState == [next_state : States, mission_critical : BOOLEAN,
                 err_invalid_frames : Nat]
SensorState == [has_value : BOOLEAN, value : Requests, has_scale : BOOLEAN, scale : Requests]
Register == [obis : Obis \cup {0}, value : Requests, scaler : Requests]
Owed == [to : Requests, parts : 0..MaxParts]
Stats == [failures_ : 0..255, invalid_frames_ : Nat]

LEMMA SensorFields ==
    ASSUME NEW s \in [Positions -> SensorState], NEW i, NEW v \in Requests
    PROVE  /\ [s EXCEPT ![i].has_value = TRUE, ![i].value = v] \in [Positions -> SensorState]
           /\ [s EXCEPT ![i].has_scale = TRUE, ![i].scale = v] \in [Positions -> SensorState]
<1>1. CASE i \in Positions
  <2>1. s[i] \in SensorState
    BY <1>1
  <2>2. /\ [s[i] EXCEPT !.has_value = TRUE, !.value = v] \in SensorState
        /\ [s[i] EXCEPT !.has_scale = TRUE, !.scale = v] \in SensorState
    BY <2>1 DEF SensorState
  <2>3. /\ [s EXCEPT ![i].has_value = TRUE, ![i].value = v]
              = [s EXCEPT ![i] = [s[i] EXCEPT !.has_value = TRUE, !.value = v]]
        /\ [s EXCEPT ![i].has_scale = TRUE, ![i].scale = v]
              = [s EXCEPT ![i] = [s[i] EXCEPT !.has_scale = TRUE, !.scale = v]]
    BY <1>1
  <2> QED
    BY <2>2, <2>3
<1>2. CASE i \notin Positions
  <2>1. /\ [s EXCEPT ![i].has_value = TRUE, ![i].value = v] = s
        /\ [s EXCEPT ![i].has_scale = TRUE, ![i].scale = v] = s
    BY <1>2
  <2> QED
    BY <2>1
<1> QED
  BY <1>1, <1>2

\* TypeOK in three parts: where the hub is in an exchange, what it has read,
\* and what is around it.
ExchangeTypes ==
    /\ state_ \in States
    /\ wait_next \in States
    /\ reading_state_ \in ReadingState
    /\ exchange \in [request : Requests,
                     last_error : {"OK", "HARDWARE_FAULT", "PARSE_ERROR"}]
    /\ out_left \in 0..MaxPasses
    /\ reply \in [complete : BOOLEAN, dataType : {"NONE", "VALUE"}]
    /\ clean \in BOOLEAN

ReadingTypes ==
    /\ gx_register \in Register
    /\ gx_clock \in [obis : Obis \cup {0}, value : Requests]
    /\ request_iter \in begin..end
    /\ sensor_iter \in begin..end
    /\ sensor \in [Positions -> SensorState]
    /\ asked \in Seq(Obis \cup {0})

AroundTypes ==
    /\ indicate \in [session : BOOLEAN, connection : BOOLEAN, transmission : BOOLEAN]
    /\ stats \in Stats
    /\ others \in [Others -> {"NOT_INITIALIZED", "IDLE", "WAITING", "SESSION"}]
    /\ locked_objects_ \subseteq Uarts
    /\ owed \in Seq(Owed)
    /\ uart \in Seq(Frames)

LEMMA TypeParts == TypeOK <=> ExchangeTypes /\ ReadingTypes /\ AroundTypes
  BY DEF TypeOK, ExchangeTypes, ReadingTypes, AroundTypes, ReadingState,
     SensorState, Register, Owed, Stats

LEMMA InitialTypes ==
    /\ InitReading \in ReadingState
    /\ InitExchange \in [request : Requests,
                         last_error : {"OK", "HARDWARE_FAULT", "PARSE_ERROR"}]
    /\ InitReply \in [complete : BOOLEAN, dataType : {"NONE", "VALUE"}]
    /\ \A o \in Obis \cup {0} :
          /\ CosemInit(o) \in Register
          /\ InitClock(o) \in [obis : Obis \cup {0}, value : Requests]
    /\ InitSensor \in [Positions -> SensorState]
    /\ InitIndicate \in [session : BOOLEAN, connection : BOOLEAN, transmission : BOOLEAN]
    /\ InitStats \in Stats
<1>1. Unread \in Requests
  BY RequestTypes
<1> QED
  BY <1>1 DEF InitReading, InitExchange, InitReply, CosemInit, InitClock, InitSensor,
     InitIndicate, InitStats, States, ReadingState, SensorState, Register, Stats

LEMMA BoundTypes ==
    /\ MaxPasses \in Nat \ {0} /\ MaxParts \in Nat
    /\ begin \in begin..end
    /\ end \in Nat /\ end = Len(sensors_) + 1
    /\ 0 \in Obis \cup {0}
  BY LinkAssumption, SensorTypes DEF begin, end

LEMMA TypeInit == Init => TypeOK
<1> SUFFICES ASSUME Init PROVE TypeOK
  OBVIOUS
<1>1. ExchangeTypes
  BY InitialTypes, BoundTypes DEF Init, ExchangeTypes, States
<1>2. ReadingTypes
  BY InitialTypes, BoundTypes DEF Init, ReadingTypes
<1>3. AroundTypes
  BY InitialTypes DEF Init, AroundTypes, InitOthers, LockerInit
<1> QED
  BY <1>1, <1>2, <1>3, TypeParts

LEMMA RebootType ==
    ASSUME Reboot
    PROVE  ExchangeTypes' /\ ReadingTypes' /\ AroundTypes'
<1>1. ExchangeTypes'
  BY InitialTypes, BoundTypes DEF Reboot, ExchangeTypes, States
<1>2. ReadingTypes'
  BY InitialTypes, BoundTypes DEF Reboot, ReadingTypes
<1>3. AroundTypes'
  BY InitialTypes DEF Reboot, AroundTypes, InitOthers
<1> QED
  BY <1>1, <1>2, <1>3

----------------------------------------------------------------------------
\* What a pass leaves alone keeps its type.
LEMMA KeepExchange ==
    ASSUME ExchangeTypes, UNCHANGED <<wait_next, exchangeVars>>, state_' \in States
    PROVE  ExchangeTypes'
  BY DEF ExchangeTypes, exchangeVars

LEMMA KeepReading ==
    ASSUME ReadingTypes, UNCHANGED <<gxVars, iterVars, sensor>>
    PROVE  ReadingTypes'
  BY DEF ReadingTypes, gxVars, iterVars

LEMMA KeepAround ==
    ASSUME AroundTypes, UNCHANGED <<indicate, stats, busVars, lineVars>>
    PROVE  AroundTypes'
  BY DEF AroundTypes, busVars, lineVars

LEMMA BeforeSessionType ==
    ASSUME ExchangeTypes, ReadingTypes, AroundTypes,
           BootTimeout \/ Update \/ Idle \/ TryLockBus \/ Wait
    PROVE  ExchangeTypes' /\ ReadingTypes' /\ AroundTypes'
<1>1. ReadingTypes'
  BY KeepReading DEF BootTimeout, Update, Idle, TryLockBus, Wait
<1>2. ExchangeTypes'
  BY DEF BootTimeout, Update, Idle, TryLockBus, Wait, SetNextStateDelayed,
     ExchangeTypes, exchangeVars, States
<1>3. AroundTypes'
  <2>1. parent_[Self] \in Uarts
    BY BusAssumption
  <2>2. CASE BootTimeout
    BY <2>2 DEF BootTimeout, AroundTypes, busVars
  <2>3. CASE Update \/ Wait
    BY <2>3, KeepAround DEF Update, Wait
  <2>4. CASE Idle
    BY <2>4 DEF Idle, AroundTypes, busVars, lineVars
  <2>5. CASE TryLockBus
    BY <2>1, <2>5 DEF TryLockBus, TryLock, AroundTypes, lineVars
  <2> QED
    BY <2>2, <2>3, <2>4, <2>5
<1> QED
  BY <1>1, <1>2, <1>3

LEMMA AgedTypes ==
    ASSUME AroundTypes
    PROVE  Aged(owed) \in Seq(Owed) /\ Aged(uart) \in Seq(Frames)
<1>1. Earlier \in Requests
  BY DEF Earlier, Request, Requests
<1>2. \A reply_ \in Owed : [reply_ EXCEPT !.to = Earlier] \in Owed
  BY <1>1 DEF Owed
<1>3. \A frame \in Frames : [frame EXCEPT !.to = Earlier] \in Frames
  BY <1>1 DEF Frames
<1>4. owed \in Seq(Owed) /\ uart \in Seq(Frames)
  BY DEF AroundTypes
<1>5. Aged(owed) \in Seq(Owed)
  BY <1>2, <1>4 DEF Aged
<1>6. Aged(uart) \in Seq(Frames)
  BY <1>3, <1>4 DEF Aged
<1> QED
  BY <1>5, <1>6

\* The iterators, what is asked and the reading of a sensor.
LEMMA SessionAroundType ==
    ASSUME AroundTypes,
           \/ Associate \/ DataEnqUnit \/ DataEnq \/ DataRecv \/ DataNext
           \/ SessionRelease \/ DisconnectReq \/ PublishSensor \/ OpenSession
    PROVE  AroundTypes'
<1>1. UNCHANGED <<indicate, stats, busVars>>
  BY DEF Associate, DataEnqUnit, DataEnq, DataRecv, DataNext, SessionRelease,
     DisconnectReq, PublishSensor, OpenSession
<1>2. CASE OpenSession
  BY <1>2 DEF OpenSession, AroundTypes, busVars
<1>3. CASE UNCHANGED lineVars
  BY <1>1, <1>3, KeepAround
<1>4. CASE owed' = Aged(owed) /\ uart' = Aged(uart)
  <2>1. owed' \in Seq(Owed) /\ uart' \in Seq(Frames)
    BY <1>4, AgedTypes DEF AroundTypes
  <2> QED
    BY <1>1, <2>1 DEF AroundTypes, busVars
<1> QED
  BY <1>2, <1>3, <1>4 DEF Associate, DataEnqUnit, DataEnq, DataRecv, DataNext,
     SessionRelease, DisconnectReq, PublishSensor, RequestUnit, RequestData,
     SendDataRequest, SendReqAndNext, SetNextState

LEMMA SendTypes ==
    ASSUME ExchangeTypes, NEW req \in Requests, NEW next \in States,
           NEW critical \in BOOLEAN, SendReqAndNext(req, next, critical),
           UNCHANGED wait_next
    PROVE  ExchangeTypes'
<1>1. reply' \in [complete : BOOLEAN, dataType : {"NONE", "VALUE"}]
  BY InitialTypes DEF SendReqAndNext
<1>2. exchange' \in [request : Requests, last_error : {"OK", "HARDWARE_FAULT", "PARSE_ERROR"}]
  BY DEF SendReqAndNext
<1>3. out_left' \in 0..MaxPasses
  BY BoundTypes DEF SendReqAndNext
<1>4. reading_state_' \in ReadingState
  BY DEF SendReqAndNext, ExchangeTypes, ReadingState
<1>5. state_' \in States
  BY DEF SendReqAndNext, States
<1>6. clean' \in BOOLEAN
  BY DEF SendReqAndNext
<1> QED
  BY <1>1, <1>2, <1>3, <1>4, <1>5, <1>6 DEF ExchangeTypes

\* An exchange: reply, error and the object that is read into.
LEMMA CommsExchangeType ==
    ASSUME ExchangeTypes, CommsTx \/ RxTimeout \/ RxFrame
    PROVE  ExchangeTypes'
<1>1. CASE CommsTx
  BY <1>1, BoundTypes DEF CommsTx, HasMoreToSend, ExchangeTypes, States
<1>2. CASE RxTimeout
  <2>1. /\ reading_state_' \in ReadingState
        /\ state_' \in States
    BY <1>2 DEF RxTimeout, GiveUp, ExchangeTypes, ReadingState, States
  <2>2. exchange' \in [request : Requests, last_error : {"OK", "HARDWARE_FAULT", "PARSE_ERROR"}]
    BY <1>2 DEF RxTimeout, ExchangeTypes
  <2> QED
    BY <1>2, <2>1, <2>2 DEF RxTimeout, ExchangeTypes
<1>3. CASE RxFrame
  <2>1. PICK frame : \/ GetDataFails(frame)
                     \/ GetDataIncomplete(frame)
                     \/ ParserAccepts(frame)
                     \/ ParserRefuses(frame)
    BY <1>3 DEF RxFrame
  <2>2. UNCHANGED <<wait_next, out_left, clean>>
    BY <1>3 DEF RxFrame
  <2>3. CASE GetDataFails(frame)
    BY <2>2, <2>3 DEF GetDataFails, ExchangeTypes, ReadingState
  <2>4. CASE GetDataIncomplete(frame)
    BY <2>2, <2>4 DEF GetDataIncomplete, ExchangeTypes
  <2>5. CASE ParserAccepts(frame)
    BY <2>2, <2>5 DEF ParserAccepts, Complete, ExchangeTypes, ReadingState
  <2>6. CASE ParserRefuses(frame)
    BY <2>2, <2>6 DEF ParserRefuses, Complete, ExchangeTypes, ReadingState, States
  <2> QED
    BY <2>1, <2>3, <2>4, <2>5, <2>6
<1> QED
  BY <1>1, <1>2, <1>3

LEMMA CommsReadingType ==
    ASSUME ReadingTypes, AroundTypes, CommsTx \/ RxTimeout \/ RxFrame
    PROVE  ReadingTypes'
<1>1. CASE CommsTx \/ RxTimeout
  BY <1>1, KeepReading DEF CommsTx, RxTimeout
<1>2. CASE RxFrame
  <2>1. Head(uart) \in Frames
    BY <1>2 DEF RxFrame, AroundTypes
  <2>2. Head(uart).to \in Requests
    BY <2>1 DEF Frames
  <2>3. \/ UNCHANGED gxVars
        \/ gx_register' = [gx_register EXCEPT !.scaler = Head(uart).to] /\ UNCHANGED gx_clock
        \/ gx_register' = [gx_register EXCEPT !.value = Head(uart).to] /\ UNCHANGED gx_clock
        \/ gx_clock' = [gx_clock EXCEPT !.value = Head(uart).to] /\ UNCHANGED gx_register
    BY <1>2 DEF RxFrame, GetDataFails, GetDataIncomplete, ParserAccepts, ParserRefuses, Parse
  <2>4. /\ gx_register' \in Register
        /\ gx_clock' \in [obis : Obis \cup {0}, value : Requests]
    BY <2>2, <2>3 DEF ReadingTypes, Register, gxVars
  <2> QED
    BY <1>2, <2>4 DEF RxFrame, ReadingTypes, iterVars
<1> QED
  BY <1>1, <1>2

LEMMA CommsAroundType ==
    ASSUME ExchangeTypes, AroundTypes, CommsTx \/ RxTimeout \/ RxFrame
    PROVE  AroundTypes'
<1>1. CASE CommsTx
  <2>1. exchange.request \in Requests
    BY DEF ExchangeTypes
  <2>2. [to |-> exchange.request, parts |-> MaxParts] \in Owed
    BY <2>1, BoundTypes DEF Owed
  <2>3. owed' \in Seq(Owed)
    <3>1. owed \in Seq(Owed)
      BY DEF AroundTypes
    <3>2. \/ owed' = owed
          \/ owed' = Append(owed, [to |-> exchange.request, parts |-> MaxParts])
      BY <1>1 DEF CommsTx, Receive
    <3> QED
      BY <2>2, <3>1, <3>2, AppendType
  <2> QED
    BY <1>1, <2>3 DEF CommsTx, AroundTypes, busVars
<1>2. CASE RxTimeout
  <2>1. stats' \in Stats
    <3>1. stats \in Stats /\ reading_state_.err_invalid_frames \in Nat
      BY DEF ExchangeTypes, ReadingState, AroundTypes
    <3>2. stats.invalid_frames_ + reading_state_.err_invalid_frames \in Nat
      BY <3>1 DEF Stats
    <3> QED
      BY <1>2, <3>1, <3>2 DEF RxTimeout, Stats
  <2>2. indicate' \in [session : BOOLEAN, connection : BOOLEAN, transmission : BOOLEAN]
    BY <1>2 DEF RxTimeout, IndicateTimeout, AroundTypes
  <2>3. owed' \in Seq(Owed)
    BY <1>2 DEF RxTimeout, AroundTypes
  <2> QED
    BY <1>2, <2>1, <2>2, <2>3 DEF RxTimeout, AroundTypes, busVars
<1>3. CASE RxFrame
  BY <1>3 DEF RxFrame, AroundTypes, busVars
<1> QED
  BY <1>1, <1>2, <1>3

----------------------------------------------------------------------------
LEMMA SessionExchangeType ==
    ASSUME ExchangeTypes, ReadingTypes,
           \/ OpenSession \/ Associate \/ DataEnqUnit \/ DataEnq \/ DataRecv
           \/ DataNext \/ SessionRelease \/ DisconnectReq \/ PublishSensor
    PROVE  ExchangeTypes'
<1>1. {"OPEN_SESSION", "BUFFERS_REQ", "BUFFERS_RCV", "ASSOCIATION_REQ", "ASSOCIATION_RCV",
       "DATA_ENQ_UNIT", "DATA_ENQ", "DATA_RECV", "DATA_NEXT", "SESSION_RELEASE",
       "DISCONNECT_REQ", "PUBLISH", "WAIT"} \subseteq States
  BY DEF States
<1>2. CASE OpenSession \/ DataRecv \/ PublishSensor
  BY <1>1, <1>2, KeepExchange DEF OpenSession, SetNextState, DataRecv, PublishSensor,
     ExchangeTypes
<1>3. CASE Associate
  <2>1. Request("SNRM", 0) \in Requests /\ Request("AARQ", 0) \in Requests
    BY RequestTypes DEF LinkKinds
  <2> QED
    BY <1>1, <1>3, <2>1, KeepExchange, SendTypes DEF Associate, SetNextState
<1>4. CASE DataEnqUnit
  <2>1. CASE SetNextState("DATA_ENQ") \/ SetNextState("SESSION_RELEASE")
    BY <1>1, <1>4, <2>1, KeepExchange DEF DataEnqUnit, SetNextState
  <2>2. CASE request_iter # end /\ RequestUnit(request_iter) /\ request_iter \notin UnknownObjects
    <3>1. request_iter \in Positions
      BY <2>2, BoundTypes, SensorTypes DEF ReadingTypes, Positions, begin
    <3>2. Request("UNIT", sensors_[request_iter].obis) \in Requests
      BY <3>1, SensorTypes, RequestTypes DEF ReadKinds
    <3> QED
      BY <1>1, <1>4, <2>2, <3>2, SendTypes DEF DataEnqUnit, RequestUnit
  <2> QED
    BY <1>4, <2>1, <2>2 DEF DataEnqUnit, RequestUnit
<1>5. CASE DataEnq
  <2>1. CASE SetNextState("DATA_NEXT") \/ SetNextState("SESSION_RELEASE")
    BY <1>1, <1>5, <2>1, KeepExchange DEF DataEnq, SetNextState
  <2>2. ASSUME NEW o \in Obis \cup {0}, SendReqAndNext(Request("DATA", o), "DATA_RECV", FALSE)
        PROVE  ExchangeTypes'
    <3>1. Request("DATA", o) \in Requests
      BY RequestTypes DEF ReadKinds
    <3> QED
      BY <1>1, <1>5, <2>2, <3>1, SendTypes DEF DataEnq
  <2>3. request_iter # end => sensors_[request_iter].obis \in Obis
    BY BoundTypes, SensorTypes DEF ReadingTypes, Positions, begin
  <2>4. gx_register.obis \in Obis \cup {0}
    BY DEF ReadingTypes, Register
  <2> QED
    BY <1>5, <2>1, <2>2, <2>3, <2>4 DEF DataEnq, RequestData, SendDataRequest
<1>6. CASE DataNext
  BY <1>1, <1>6 DEF DataNext, SetNextStateDelayed, ExchangeTypes, exchangeVars
<1>7. CASE SessionRelease
  <2>1. Request("RLRQ", 0) \in Requests
    BY RequestTypes DEF LinkKinds
  <2> QED
    BY <1>1, <1>7, <2>1, KeepExchange, SendTypes DEF SessionRelease, SetNextState
<1>8. CASE DisconnectReq
  <2>1. Request("DISC", 0) \in Requests
    BY RequestTypes DEF LinkKinds
  <2> QED
    BY <1>1, <1>8, <2>1, SendTypes DEF DisconnectReq
<1> QED
  BY <1>2, <1>3, <1>4, <1>5, <1>6, <1>7, <1>8

LEMMA SessionReadingType ==
    ASSUME ExchangeTypes, ReadingTypes,
           \/ OpenSession \/ Associate \/ DataEnqUnit \/ DataEnq \/ DataRecv
           \/ DataNext \/ SessionRelease \/ DisconnectReq \/ PublishSensor
    PROVE  ReadingTypes'
<1>1. CASE Associate \/ DisconnectReq
  BY <1>1, KeepReading DEF Associate, DisconnectReq
<1>2. CASE OpenSession \/ SessionRelease
  <2>1. asked' \in Seq(Obis \cup {0})
    <3>1. asked' = <<>> \/ asked' = asked
      BY <1>2 DEF OpenSession, SessionRelease
    <3> QED
      <4>1. asked \in Seq(Obis \cup {0})
        BY DEF ReadingTypes
      <4>2. <<>> \in Seq(Obis \cup {0})
        OBVIOUS
      <4> QED
        BY <3>1, <4>1, <4>2
  <2> QED
    BY <1>2, <2>1, BoundTypes DEF OpenSession, SessionRelease, ReadingTypes, gxVars
<1>3. request_iter # end => sensors_[request_iter].obis \in Obis \cup {0}
  BY BoundTypes, SensorTypes DEF ReadingTypes, Positions, begin
<1>4. CASE DataEnqUnit
  <2>1. gx_register' \in Register
    <3>1. \/ UNCHANGED gx_register
          \/ request_iter # end /\ gx_register' = CosemInit(sensors_[request_iter].obis)
      BY <1>4 DEF DataEnqUnit, RequestUnit
    <3> QED
      BY <1>3, <3>1, InitialTypes DEF ReadingTypes
  <2> QED
    BY <1>4, <2>1 DEF DataEnqUnit, ReadingTypes, iterVars
<1>5. CASE DataEnq
  <2>1. CASE request_iter = end
    BY <1>5, <2>1 DEF DataEnq, ReadingTypes, gxVars
  <2>2. CASE request_iter # end
    <3>1. gx_register' \in Register
      BY <1>3, <1>5, <2>2, InitialTypes DEF DataEnq, RequestData, ReadingTypes, gxVars
    <3>2. gx_clock' \in [obis : Obis \cup {0}, value : Requests]
      BY <1>3, <1>5, <2>2, InitialTypes DEF DataEnq, RequestData, ReadingTypes, gxVars
    <3>3. \/ asked' = asked
          \/ asked' = Append(asked, sensors_[request_iter].obis)
          \/ asked' = Append(asked, gx_register.obis)
      BY <1>5, <2>2 DEF DataEnq, RequestData, SendDataRequest
    <3>4. asked' \in Seq(Obis \cup {0})
      <4>1. asked \in Seq(Obis \cup {0}) /\ gx_register.obis \in Obis \cup {0}
        BY DEF ReadingTypes, Register
      <4> QED
        BY <1>3, <2>2, <3>3, <4>1, AppendType
    <3>5. sensor' \in [Positions -> SensorState]
      <4>1. gx_register.scaler \in Requests
        BY DEF ReadingTypes, Register
      <4>2. \/ UNCHANGED sensor
            \/ sensor' = [sensor EXCEPT ![request_iter].has_scale = TRUE,
                                        ![request_iter].scale = gx_register.scaler]
        BY <1>5, <2>2 DEF DataEnq, SetSensorScaleAndUnit
      <4> QED
        <5>1. sensor \in [Positions -> SensorState]
          BY DEF ReadingTypes
        <5>2. [sensor EXCEPT ![request_iter].has_scale = TRUE,
                             ![request_iter].scale = gx_register.scaler]
                 \in [Positions -> SensorState]
          BY <4>1, <5>1, SensorFields
        <5> QED
          BY <4>2, <5>1, <5>2
    <3> QED
      BY <1>5, <3>1, <3>2, <3>4, <3>5 DEF DataEnq, ReadingTypes
  <2> QED
    BY <2>1, <2>2
<1>6. CASE DataRecv
  <2>1. \/ UNCHANGED sensor
        \/ \E value \in Requests : SetValue(request_iter, value)
    <3>1. gx_register.value \in Requests /\ gx_clock.value \in Requests
      BY DEF ReadingTypes, Register
    <3> QED
      BY <1>6, <3>1 DEF DataRecv, SetSensorValue
  <2>2. sensor' \in [Positions -> SensorState]
    <3>1. sensor \in [Positions -> SensorState]
      BY DEF ReadingTypes
    <3>2. ASSUME NEW value \in Requests, SetValue(request_iter, value)
          PROVE  sensor' \in [Positions -> SensorState]
      <4>1. [sensor EXCEPT ![request_iter].has_value = TRUE, ![request_iter].value = value]
               \in [Positions -> SensorState]
        BY <3>1, SensorFields
      <4> QED
        BY <3>2, <4>1 DEF SetValue
    <3> QED
      BY <2>1, <3>1, <3>2
  <2> QED
    BY <1>6, <2>2 DEF DataRecv, ReadingTypes, gxVars, iterVars
<1>7. CASE DataNext
  <2>1. request_iter' \in begin..end
    BY <1>7, UpperBoundType DEF DataNext, begin
  <2> QED
    BY <1>7, <2>1 DEF DataNext, ReadingTypes, gxVars
<1>8. CASE PublishSensor
  <2>1. sensor_iter' \in begin..end
    BY <1>8, BoundTypes DEF PublishSensor, ReadingTypes, begin
  <2>2. sensor' \in [Positions -> SensorState]
    <3>1. Unread \in Requests
      BY RequestTypes
    <3>2. sensor \in [Positions -> SensorState]
      BY DEF ReadingTypes
    <3>3. \A t \in SensorState :
             [t EXCEPT !.has_value = FALSE, !.value = Unread] \in SensorState
      BY <3>1 DEF SensorState
    <3> QED
      BY <1>8, <3>2, <3>3 DEF PublishSensor, Publish
  <2> QED
    BY <1>8, <2>1, <2>2 DEF PublishSensor, ReadingTypes, gxVars
<1> QED
  BY <1>1, <1>2, <1>4, <1>5, <1>6, <1>7, <1>8

LEMMA EndType ==
    ASSUME ExchangeTypes, ReadingTypes, AroundTypes, PublishEnd \/ MissionFailed
    PROVE  ExchangeTypes' /\ ReadingTypes' /\ AroundTypes'
<1>1. CASE Reboot
  BY <1>1, RebootType
<1>2. CASE /\ CloseSession
           /\ stats' = [stats EXCEPT !.failures_ = 0] \/ CountFailure
           /\ UNCHANGED <<wait_next, exchangeVars, gxVars, iterVars, sensor, indicate,
                          others, lineVars>>
  <2>1. ExchangeTypes'
    BY <1>2, KeepExchange DEF CloseSession, States
  <2>2. ReadingTypes'
    BY <1>2, KeepReading
  <2>3. stats' \in Stats
    <3>1. (stats.failures_ + 1) % 256 \in 0..255 /\ 0 \in 0..255
      <4>1. stats.failures_ \in Nat
        <5>1. stats \in Stats
          BY DEF AroundTypes
        <5> QED
          BY <5>1 DEF Stats
      <4> QED
        BY <4>1
    <3> QED
      BY <1>2, <3>1 DEF CountFailure, FailureCount, AroundTypes, Stats
  <2> QED
    BY <1>2, <2>1, <2>2, <2>3 DEF CloseSession, Unlock, AroundTypes, lineVars
<1> QED
  BY <1>1, <1>2 DEF PublishEnd, MissionFailed

LEMMA EnvironmentType ==
    ASSUME ExchangeTypes, ReadingTypes, AroundTypes,
           \/ MeterReplies \/ MeterSilent
           \/ \E h \in Others : Other(h) \/ OtherReboot(h)
    PROVE  ExchangeTypes' /\ ReadingTypes' /\ AroundTypes'
<1>1. CASE MeterReplies \/ MeterSilent
  <2>1. ExchangeTypes' /\ ReadingTypes'
    BY <1>1, KeepExchange, KeepReading DEF MeterReplies, MeterSilent, ExchangeTypes
  <2>2. Head(owed) \in Owed
    BY <1>1, HeadType DEF MeterReplies, MeterSilent, AroundTypes
  <2>3. owed' \in Seq(Owed)
    <3>1. owed \in Seq(Owed) /\ owed # <<>>
      BY <1>1 DEF MeterReplies, MeterSilent, AroundTypes
    <3>2. CASE owed' = Tail(owed)
      BY <3>1, <3>2, TailType
    <3>3. CASE Head(owed).parts > 0 /\ owed' = [owed EXCEPT ![1].parts = @ - 1]
      <4>1. [owed[1] EXCEPT !.parts = @ - 1] \in Owed
        BY <2>2, <3>1, <3>3, BoundTypes DEF Owed
      <4> QED
        BY <3>1, <3>3, <4>1
    <3> QED
      BY <1>1, <3>2, <3>3 DEF MeterReplies, MeterSilent
  <2>4. \A form \in {"PART", "BAD_PART", "GOOD", "ERROR", "REJECT"} :
           [to |-> Head(owed).to, form |-> form] \in Frames
    BY <2>2 DEF Frames, Owed
  <2>5. uart' \in Seq(Frames)
    <3>1. uart \in Seq(Frames)
      BY DEF AroundTypes
    <3>2. \/ uart' = uart
          \/ \E form \in {"PART", "BAD_PART", "GOOD", "ERROR", "REJECT"} :
                uart' = Append(uart, [to |-> Head(owed).to, form |-> form])
      BY <1>1 DEF MeterReplies, MeterSilent
    <3> QED
      BY <2>4, <3>1, <3>2, AppendType
  <2> QED
    BY <1>1, <2>1, <2>3, <2>5 DEF MeterReplies, MeterSilent, AroundTypes, busVars
<1>2. ASSUME NEW h \in Others, Other(h)
      PROVE  ExchangeTypes' /\ ReadingTypes' /\ AroundTypes'
  <2>1. ExchangeTypes' /\ ReadingTypes'
    BY <1>2, KeepExchange, KeepReading DEF Other, ExchangeTypes
  <2>2. others' \in [Others -> {"NOT_INITIALIZED", "IDLE", "WAITING", "SESSION"}]
    BY <1>2 DEF Other, OtherBoot, OtherUpdate, OtherOpen, OtherClose, OtherLoses, AroundTypes
  <2>3. locked_objects_' \subseteq Uarts
    BY <1>2, BusAssumption DEF Other, OtherBoot, OtherUpdate, OtherOpen, OtherClose,
       OtherLoses, TryLock, Unlock, AroundTypes
  <2> QED
    BY <1>2, <2>1, <2>2, <2>3 DEF Other, AroundTypes, lineVars
<1>3. CASE \E h \in Others : OtherReboot(h)
  BY <1>3, RebootType DEF OtherReboot
<1> QED
  BY <1>1, <1>2, <1>3

LEMMA TypeStep == TypeOK /\ [Next]_vars => TypeOK'
<1> SUFFICES ASSUME TypeOK, [Next]_vars PROVE TypeOK'
  OBVIOUS
<1>1. ExchangeTypes /\ ReadingTypes /\ AroundTypes
  BY TypeParts
<1>2. (ExchangeTypes' /\ ReadingTypes' /\ AroundTypes') => TypeOK'
  BY DEF TypeOK, ExchangeTypes, ReadingTypes, AroundTypes, ReadingState,
     SensorState, Register, Owed, Stats
<1>3. CASE UNCHANGED vars
  <2>1. UNCHANGED <<state_, wait_next, exchangeVars, gxVars, iterVars, sensor, indicate,
                    stats, busVars, lineVars>>
    BY <1>3 DEF vars
  <2> QED
    BY <1>1, <1>2, <2>1, KeepExchange, KeepReading, KeepAround DEF ExchangeTypes
<1>4. CASE Next
  BY <1>1, <1>2, <1>4, BeforeSessionType, CommsExchangeType, CommsReadingType,
     CommsAroundType, SessionExchangeType, SessionReadingType, SessionAroundType,
     EndType, EnvironmentType DEF Next, Loop
<1> QED
  BY <1>3, <1>4

\* Types are invariant; the iterators stay within the sensors and their end,
\* failures_ within its eight bits.
THEOREM HubTypeCorrect == SafeSpec => []TypeOK
  BY TypeInit, TypeStep, PTL DEF SafeSpec
============================================================================
