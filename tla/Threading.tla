------------------------------- MODULE Threading -------------------------------
(***************************************************************************)
(* The mutexes and condition variables of mgba-util/threading.h, as the    *)
(* emulation core uses them.  A mutex is free or has an owner; a condition *)
(* has the set of the threads asleep on it.  ConditionWake is a broadcast  *)
(* in this code base.  A critical section during which its thread neither  *)
(* sleeps nor takes a second lock is one step of the models: it needs the  *)
(* mutex free and leaves it free.                                          *)
(***************************************************************************)
EXTENDS Integers

CONSTANTS Threads,   \* the threads of the process
          Nobody     \* the owner of a free mutex

ASSUME NobodyIsNoThread == Nobody \notin Threads

VARIABLES owner,     \* owner[m]: the thread that holds mutex m across steps
          waiting    \* waiting[c]: the threads asleep on condition c

\* The audio mutex is only ever held for the length of one step: no owner.
Mutexes == {"stateMutex", "videoFrameMutex"}

Conditions == {"stateCond", "videoFrameAvailableCond",
               "videoFrameRequiredCond", "audioRequiredCond"}

ThreadingTypeOK ==
  /\ owner \in [Mutexes -> Threads \cup {Nobody}]
  /\ waiting \in [Conditions -> SUBSET Threads]

Free(m) == owner[m] = Nobody

\* A whole critical section, from lock to unlock.
Section(m) == Free(m) /\ UNCHANGED owner

MutexLock(m, t) == Free(m) /\ owner' = [owner EXCEPT ![m] = t]

MutexUnlock(m, t) == owner[m] = t /\ owner' = [owner EXCEPT ![m] = Nobody]

\* The sleepers of waiting after a broadcast on every condition of cs.
Woken(cs) == [c \in Conditions |-> IF c \in cs THEN {} ELSE waiting[c]]

ConditionWake(cs) == waiting' = Woken(cs)

\* Broadcasts on cs, then sleeps on c; the mutex is released by the sleep.
WakeAndWait(cs, c, t) == waiting' = [Woken(cs) EXCEPT ![c] = @ \cup {t}]

ConditionWait(c, t) == WakeAndWait({}, c, t)

Awake(t, c) == t \notin waiting[c]
================================================================================
