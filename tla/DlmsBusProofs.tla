--------------------------- MODULE DlmsBusProofs ---------------------------
(***************************************************************************)
(* Proofs about DlmsBus, for any hubs on any UARTs.                        *)
(***************************************************************************)
EXTENDS DlmsBus, TLAPS

\* Types are invariant: the hubs of DlmsBus lock nothing but UARTs.
THEOREM BusTypeCorrect == BusSafeSpec => []BusTypeOK
<1>1. BusInit => BusTypeOK
  BY DEF BusInit, LockerInit, BusTypeOK, Phases
<1>2. BusTypeOK /\ [BusNext]_busVars => BusTypeOK'
  <2> SUFFICES ASSUME BusTypeOK, [BusNext]_busVars PROVE BusTypeOK'
    OBVIOUS
  <2>1. CASE UNCHANGED busVars
    BY <2>1 DEF busVars, BusTypeOK
  <2>2. ASSUME NEW h \in Hubs,
               \/ SetupPush(h) \/ BootTimeout(h) \/ Update(h) \/ OpenSession(h)
               \/ CloseSession(h) \/ LoseSession(h) \/ Reboot(h)
        PROVE  BusTypeOK'
    <3>1. parent_[h] \in Uarts
      BY BusAssumption
    <3> QED
      BY <2>2, <3>1 DEF SetupPush, BootTimeout, Update, OpenSession,
         CloseSession, LoseSession, Reboot, TryLock, Unlock, BusTypeOK, Phases
  <2> QED
    BY <2>1, <2>2 DEF BusNext
<1> QED
  BY <1>1, <1>2, PTL DEF BusSafeSpec

----------------------------------------------------------------------------
\* Mutual exclusion alone is not inductive: that the UART a hub unlocks is
\* its own and no one else's needs HeldIsLocked, and an unlock preserves
\* HeldIsLocked because of MutualExclusion.  A UART that was lost stays so:
\* LockedIsHeld needs that it stays locked.
LostIsLocked == lost \subseteq locked_objects_

LockInv ==
    /\ BusTypeOK
    /\ MutualExclusion
    /\ HeldIsLocked
    /\ LockedIsHeld
    /\ LostIsLocked

LEMMA LockInvInit == BusInit => LockInv
  BY DEF BusInit, LockerInit, LockInv, BusTypeOK, Phases, MutualExclusion,
     HeldIsLocked, LockedIsHeld, LostIsLocked, Holds

\* The four ways the phase of one hub and the lock of its UART change.
LEMMA KeepsLock ==
    ASSUME LockInv, NEW h \in Hubs, NEW p \in Phases,
           Holds(h) <=> p \in {"SESSION", "LISTENING"},
           phase' = [phase EXCEPT ![h] = p],
           UNCHANGED <<locked_objects_, lost>>
    PROVE  LockInv'
<1>1. \A g \in Hubs : Holds(g)' <=> Holds(g)
  BY DEF LockInv, BusTypeOK, Holds
<1> QED
  BY <1>1 DEF LockInv, BusTypeOK, MutualExclusion, HeldIsLocked, LockedIsHeld,
     LostIsLocked

LEMMA TakesLock ==
    ASSUME LockInv, NEW h \in Hubs, NEW p \in {"SESSION", "LISTENING"},
           ~Holds(h), TryLock(parent_[h]),
           phase' = [phase EXCEPT ![h] = p], UNCHANGED lost
    PROVE  LockInv'
<1>1. \A g \in Hubs : Holds(g)' <=> g = h \/ Holds(g)
  BY DEF LockInv, BusTypeOK, Holds
<1>2. \A g \in Hubs : Holds(g) => parent_[g] # parent_[h]
  BY DEF LockInv, HeldIsLocked, TryLock
<1>3. BusTypeOK'
  BY BusAssumption DEF LockInv, BusTypeOK, TryLock, Phases
<1>4. MutualExclusion'
  BY <1>1, <1>2 DEF LockInv, MutualExclusion
<1>5. HeldIsLocked'
  BY <1>1 DEF LockInv, HeldIsLocked, TryLock
<1>6. LockedIsHeld'
  BY <1>1 DEF LockInv, LockedIsHeld, LostIsLocked, TryLock
<1>7. LostIsLocked'
  BY DEF LockInv, LostIsLocked, TryLock
<1> QED
  BY <1>3, <1>4, <1>5, <1>6, <1>7 DEF LockInv

LEMMA GivesLock ==
    ASSUME LockInv, NEW h \in Hubs,
           Holds(h), Unlock(parent_[h]),
           phase' = [phase EXCEPT ![h] = "IDLE"], UNCHANGED lost
    PROVE  LockInv'
<1>1. \A g \in Hubs : Holds(g)' <=> g # h /\ Holds(g)
  BY DEF LockInv, BusTypeOK, Holds
<1>2. \A g \in Hubs : g # h /\ Holds(g) => parent_[g] # parent_[h]
  BY DEF LockInv, MutualExclusion
<1>3. BusTypeOK'
  BY DEF LockInv, BusTypeOK, Unlock, Phases
<1>4. MutualExclusion'
  BY <1>1 DEF LockInv, MutualExclusion
<1>5. HeldIsLocked'
  BY <1>1, <1>2 DEF LockInv, HeldIsLocked, Unlock
<1>6. LockedIsHeld'
  BY <1>1, <1>2 DEF LockInv, LockedIsHeld, Unlock
<1>7. parent_[h] \notin lost
  BY DEF LockInv, LockedIsHeld, HeldIsLocked
<1>8. LostIsLocked'
  BY <1>7 DEF LockInv, LostIsLocked, Unlock
<1> QED
  BY <1>3, <1>4, <1>5, <1>6, <1>8 DEF LockInv

LEMMA LosesLock ==
    ASSUME LockInv, NEW h \in Hubs,
           Holds(h), lost' = lost \cup {parent_[h]},
           phase' = [phase EXCEPT ![h] = "IDLE"], UNCHANGED locked_objects_
    PROVE  LockInv'
<1>1. \A g \in Hubs : Holds(g)' <=> g # h /\ Holds(g)
  BY DEF LockInv, BusTypeOK, Holds
<1>2. \A g \in Hubs : g # h /\ Holds(g) => parent_[g] # parent_[h]
  BY DEF LockInv, MutualExclusion
<1>3. parent_[h] \in locked_objects_
  BY DEF LockInv, HeldIsLocked
<1>4. BusTypeOK'
  BY BusAssumption DEF LockInv, BusTypeOK, Phases
<1>5. MutualExclusion'
  BY <1>1 DEF LockInv, MutualExclusion
<1>6. HeldIsLocked'
  BY <1>1 DEF LockInv, HeldIsLocked
<1>7. LockedIsHeld'
  BY <1>1, <1>2 DEF LockInv, LockedIsHeld
<1>8. LostIsLocked'
  BY <1>3 DEF LockInv, LostIsLocked
<1> QED
  BY <1>4, <1>5, <1>6, <1>7, <1>8 DEF LockInv

LEMMA LockInvStep == LockInv /\ [BusNext]_busVars => LockInv'
<1> SUFFICES ASSUME LockInv, [BusNext]_busVars PROVE LockInv'
  OBVIOUS
<1>1. CASE UNCHANGED busVars
  BY <1>1 DEF busVars, LockInv, BusTypeOK, MutualExclusion, HeldIsLocked,
     LockedIsHeld, LostIsLocked, Holds
<1>2. ASSUME NEW h \in Hubs, SetupPush(h) PROVE LockInv'
  BY <1>2, TakesLock, KeepsLock DEF SetupPush, Holds, Phases
<1>3. ASSUME NEW h \in Hubs, BootTimeout(h) PROVE LockInv'
  BY <1>3, KeepsLock DEF BootTimeout, Polled, Holds, Phases
<1>4. ASSUME NEW h \in Hubs, Update(h) PROVE LockInv'
  BY <1>4, KeepsLock DEF Update, Holds, Phases
<1>5. ASSUME NEW h \in Hubs, OpenSession(h) PROVE LockInv'
  BY <1>5, TakesLock DEF OpenSession, Holds
<1>6. ASSUME NEW h \in Hubs, CloseSession(h) PROVE LockInv'
  BY <1>6, GivesLock DEF CloseSession, Holds
<1>7. ASSUME NEW h \in Hubs, LoseSession(h) PROVE LockInv'
  BY <1>7, LosesLock DEF LoseSession, Holds
<1>8. ASSUME NEW h \in Hubs, Reboot(h) PROVE LockInv'
  <2>1. \A g \in Hubs : phase'[g] = "NOT_INITIALIZED"
    BY <1>8 DEF Reboot
  <2> QED
    BY <1>8, <2>1 DEF Reboot, LockInv, BusTypeOK, Phases, MutualExclusion,
       HeldIsLocked, LockedIsHeld, LostIsLocked, Holds
<1> QED
  BY <1>1, <1>2, <1>3, <1>4, <1>5, <1>6, <1>7, <1>8 DEF BusNext

\* At any time at most one hub uses a UART.
THEOREM BusMutualExclusion == BusSafeSpec => []MutualExclusion
<1>1. BusSafeSpec => []LockInv
  BY LockInvInit, LockInvStep, PTL DEF BusSafeSpec
<1>2. LockInv => MutualExclusion
  BY DEF LockInv
<1> QED
  BY <1>1, <1>2, PTL

\* No path unlocks a UART that another hub is using.
THEOREM BusHeldIsLocked == BusSafeSpec => []HeldIsLocked
<1>1. BusSafeSpec => []LockInv
  BY LockInvInit, LockInvStep, PTL DEF BusSafeSpec
<1>2. LockInv => HeldIsLocked
  BY DEF LockInv
<1> QED
  BY <1>1, <1>2, PTL

\* A locked UART is in use or was left locked by a failing request maker,
\* never both: no other path forgets to unlock.
THEOREM BusLockedIsHeld == BusSafeSpec => []LockedIsHeld
<1>1. BusSafeSpec => []LockInv
  BY LockInvInit, LockInvStep, PTL DEF BusSafeSpec
<1>2. LockInv => LockedIsHeld
  BY DEF LockInv
<1> QED
  BY <1>1, <1>2, PTL
=============================================================================
