------------------------------ MODULE DlmsBus ------------------------------
(***************************************************************************)
(* The hubs of one device as the UARTs see them.  A hub is a               *)
(* DlmsCosemComponent; MULTI_CONF allows several, and several may have the *)
(* same UART as parent_ ("Multiple meters on one bus").  A polled hub      *)
(* locks its UART for one session at a time, a push hub locks it in        *)
(* setup() and keeps it.  Everything inside a session is hidden: see       *)
(* DlmsCosem, which implements one hub of this specification.              *)
(***************************************************************************)
EXTENDS ObjectLocker

CONSTANTS Hubs,         \* the DlmsCosemComponent instances
          PushHubs,     \* those configured with push_mode: true
          Uarts,        \* the UART components
          parent_,      \* the UART of each hub
          MakerCanFail  \* may a request maker of the library fail?

ASSUME BusAssumption ==
    /\ PushHubs \subseteq Hubs
    /\ parent_ \in [Hubs -> Uarts]
    /\ MakerCanFail \in BOOLEAN

VARIABLES phase,
          lost          \* history: the UARTs a session has left locked

busVars == <<phase, locked_objects_, lost>>

Phases == {"NOT_INITIALIZED", "IDLE", "WAITING", "SESSION", "LISTENING", "FAILED"}

Polled == Hubs \ PushHubs

\* The hub counts on having the UART for itself.
Holds(h) == phase[h] \in {"SESSION", "LISTENING"}

BusInit ==
    /\ phase = [h \in Hubs |-> "NOT_INITIALIZED"]
    /\ lost = {}
    /\ LockerInit

----------------------------------------------------------------------------
\* setup() of a push hub: three attempts within the call see the same
\* registry, so they succeed or fail together.  A failure is mark_failed().
SetupPush(h) ==
    /\ h \in PushHubs
    /\ phase[h] = "NOT_INITIALIZED"
    /\ \/ /\ TryLock(parent_[h])
          /\ phase' = [phase EXCEPT ![h] = "LISTENING"]
       \/ /\ IsLocked(parent_[h])
          /\ phase' = [phase EXCEPT ![h] = "FAILED"]
          /\ UNCHANGED locked_objects_
    /\ UNCHANGED lost

\* The boot timeout set by setup() of a polled hub.  The framework sets up
\* every component before any of these ten-second timers can fire.
BootTimeout(h) ==
    /\ h \in Polled
    /\ phase[h] = "NOT_INITIALIZED"
    /\ \A p \in PushHubs : phase[p] # "NOT_INITIALIZED"
    /\ phase' = [phase EXCEPT ![h] = "IDLE"]
    /\ UNCHANGED <<locked_objects_, lost>>

\* update(): the polling interval elapsed, or update_server_address().
Update(h) ==
    /\ phase[h] = "IDLE"
    /\ phase' = [phase EXCEPT ![h] = "WAITING"]
    /\ UNCHANGED <<locked_objects_, lost>>

\* Mutant: the hub locks itself (this) instead of its UART.
OpenSessionLockingSelf(h) ==
    /\ phase[h] = "WAITING"
    /\ TryLock(h)
    /\ phase' = [phase EXCEPT ![h] = "SESSION"]
    /\ UNCHANGED lost

\* Mutant: unlock_uart_session_() left out at the end of a session.
CloseSessionLocked(h) ==
    /\ phase[h] = "SESSION"
    /\ phase' = [phase EXCEPT ![h] = "IDLE"]
    /\ UNCHANGED <<locked_objects_, lost>>

\* TRY_LOCK_BUS with the UART free; a busy UART leaves the hub WAITING.
OpenSession(h) ==
    /\ phase[h] = "WAITING"
    /\ TryLock(parent_[h])
    /\ phase' = [phase EXCEPT ![h] = "SESSION"]
    /\ UNCHANGED lost

\* The end of PUBLISH, or MISSION_FAILED.
CloseSession(h) ==
    /\ phase[h] = "SESSION"
    /\ Unlock(parent_[h])
    /\ phase' = [phase EXCEPT ![h] = "IDLE"]
    /\ UNCHANGED lost

\* send_dlms_req_and_next(), the request maker fails: IDLE, and nothing
\* unlocks the UART.
LoseSession(h) ==
    /\ MakerCanFail
    /\ phase[h] = "SESSION"
    /\ phase' = [phase EXCEPT ![h] = "IDLE"]
    /\ lost' = lost \cup {parent_[h]}
    /\ UNCHANGED locked_objects_

\* report_failure() of a hub whose session just failed: App.safe_reboot()
\* takes every hub and the registry back to power-on.
Reboot(h) ==
    /\ phase[h] = "SESSION"
    /\ phase' = [g \in Hubs |-> "NOT_INITIALIZED"]
    /\ locked_objects_' = {}
    /\ lost' = {}

BusNext ==
    \E h \in Hubs :
        \/ SetupPush(h) \/ BootTimeout(h) \/ Update(h) \/ OpenSession(h)
        \/ CloseSession(h) \/ LoseSession(h) \/ Reboot(h)

\* The framework runs every setup(), timer, update interval and loop() over
\* and over, and DlmsCosem shows that a session ends.  Nothing queues for
\* the lock: a hub retries every second and may find it taken every time, so
\* OpenSession gets weak fairness only.
BusFairness ==
    \A h \in Hubs :
        /\ WF_busVars(SetupPush(h))
        /\ WF_busVars(BootTimeout(h))
        /\ WF_busVars(Update(h))
        /\ WF_busVars(OpenSession(h))
        /\ WF_busVars(CloseSession(h) \/ LoseSession(h) \/ Reboot(h))

BusSafeSpec == BusInit /\ [][BusNext]_busVars
BusSpec == BusSafeSpec /\ BusFairness

----------------------------------------------------------------------------
\* Types: each hub is in one phase, only UARTs are locked or lost.
BusTypeOK ==
    /\ phase \in [Hubs -> Phases]
    /\ locked_objects_ \subseteq Uarts
    /\ lost \subseteq Uarts

\* Two hubs never use one UART at the same time: what try_lock_uart_session_()
\* is for, although the registry does not know who holds what.
MutualExclusion ==
    \A g, h \in Hubs :
        g # h /\ Holds(g) /\ Holds(h) => parent_[g] # parent_[h]

\* A UART in use is locked: no path unlocks a UART another hub is using.
HeldIsLocked == \A h \in Hubs : Holds(h) => parent_[h] \in locked_objects_

\* A locked UART has a hub that will unlock it, or listens on it.  The one
\* path that forgets to unlock is that of a failing request maker, and a
\* UART it has left locked is not taken by anyone again.
LockedIsHeld ==
    \A u \in locked_objects_ :
        u \in lost <=> ~\E h \in Hubs : Holds(h) /\ parent_[h] = u

\* If a hub waits for a UART then one of the hubs on it gets it, or the
\* device reboots, unless a failing maker has left it locked: in no other
\* way a UART is lost to all of its hubs.  (The code does not promise that a
\* particular hub gets its turn.)
UartServed ==
    \A u \in Uarts :
        (\E h \in Polled : parent_[h] = u /\ phase[h] = "WAITING")
            ~> \/ u \in lost
               \/ \E h \in Hubs : /\ parent_[h] = u
                                  /\ Holds(h) \/ phase[h] = "NOT_INITIALIZED"
=============================================================================
