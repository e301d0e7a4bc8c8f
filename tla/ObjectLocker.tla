---------------------------- MODULE ObjectLocker ----------------------------
(***************************************************************************)
(* AnyObjectLocker (object_locker.h): the registry of locked objects that  *)
(* every hub of the device shares.  The code keeps a vector but pushes an  *)
(* object only when it is absent and removes every occurrence of it, so a  *)
(* set is the same data.  The vector starts with five null pointers        *)
(* (object_locker.cpp); a hub's parent_ is never null, so they lock        *)
(* nothing.                                                                *)
(*                                                                         *)
(* The mutex inside is only held within one call, and every call is made   *)
(* from the main loop, so its try_lock never fails.  The registry does not *)
(* record who locked an object: unlock succeeds for any caller.            *)
(***************************************************************************)
VARIABLE locked_objects_

LockerInit == locked_objects_ = {}

----------------------------------------------------------------------------
\* Mutants: plausible slips in the two calls, for the runs' properties.

\* std::find left out of try_lock: an object is locked twice.
TryLockUnchecked(obj) == locked_objects_' = locked_objects_ \cup {obj}

\* std::remove taking every object: one hub's unlock frees every UART.
UnlockAll(obj) == locked_objects_' = {}

\* erase() left out after std::remove: the object stays.
UnlockNothing(obj) == UNCHANGED locked_objects_

----------------------------------------------------------------------------
\* try_lock(obj) returning true.  Its negation, IsLocked(obj), is the call
\* returning false, which changes nothing.
TryLock(obj) ==
    /\ obj \notin locked_objects_
    /\ locked_objects_' = locked_objects_ \cup {obj}

IsLocked(obj) == obj \in locked_objects_

Unlock(obj) == locked_objects_' = locked_objects_ \ {obj}
=============================================================================
