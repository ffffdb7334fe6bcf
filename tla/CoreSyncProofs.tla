----------------------------- MODULE CoreSyncProofs -----------------------------
(***************************************************************************)
(* Theorems about CoreSync, for any set of display threads, any size of    *)
(* the audio buffer and any flags that change while the core runs; before  *)
(* them, what the operations of Threading do to sleepers and owners.       *)
(***************************************************************************)
EXTENDS CoreSync, TLAPS

--------------------------------------------------------------------------------
(* The operations of Threading *)

\* A broadcast empties the conditions of cs and leaves the others alone.
LEMMA ConditionWakeEffect ==
  ASSUME ThreadingTypeOK, NEW cs, ConditionWake(cs)
  PROVE  /\ waiting' \in [Conditions -> SUBSET Threads]
         /\ \A k \in Conditions : waiting'[k] = IF k \in cs THEN {} ELSE waiting[k]
BY DEF ThreadingTypeOK, ConditionWake, Woken

\* A sleep adds its thread to one condition, after the broadcast on cs.
LEMMA WakeAndWaitEffect ==
  ASSUME ThreadingTypeOK, NEW cs, NEW c \in Conditions, NEW t \in Threads,
         WakeAndWait(cs, c, t)
  PROVE  /\ waiting' \in [Conditions -> SUBSET Threads]
         /\ \A k \in Conditions :
              waiting'[k] = (IF k \in cs THEN {} ELSE waiting[k])
                              \cup (IF k = c THEN {t} ELSE {})
<1> DEFINE woken == [k \in Conditions |-> IF k \in cs THEN {} ELSE waiting[k]]
<1>1. woken \in [Conditions -> SUBSET Threads]
  BY DEF ThreadingTypeOK
<1>2. waiting' = [woken EXCEPT ![c] = @ \cup {t}]
  BY DEF WakeAndWait, Woken
<1>3. \A k \in Conditions : woken[k] = IF k \in cs THEN {} ELSE waiting[k]
  OBVIOUS
<1> HIDE DEF woken
<1> QED
  BY <1>1, <1>2, <1>3

\* ConditionWait is a sleep without a broadcast.
LEMMA ConditionWaitEffect ==
  ASSUME ThreadingTypeOK, NEW c \in Conditions, NEW t \in Threads, ConditionWait(c, t)
  PROVE  /\ waiting' \in [Conditions -> SUBSET Threads]
         /\ \A k \in Conditions :
              waiting'[k] = waiting[k] \cup (IF k = c THEN {t} ELSE {})
<1> DEFINE none == {}
<1>1. WakeAndWait(none, c, t)
  BY DEF ConditionWait
<1>2. \A k : k \notin none
  OBVIOUS
<1> HIDE DEF none
<1> QED
  BY <1>1, <1>2, WakeAndWaitEffect

\* A lock and an unlock change one mutex.
LEMMA MutexLockEffect ==
  ASSUME ThreadingTypeOK, NEW m \in Mutexes, NEW t \in Threads, MutexLock(m, t)
  PROVE  /\ owner' \in [Mutexes -> Threads \cup {Nobody}]
         /\ owner[m] = Nobody /\ owner'[m] = t
         /\ \A k \in Mutexes \ {m} : owner'[k] = owner[k]
BY DEF ThreadingTypeOK, MutexLock, Free

LEMMA MutexUnlockEffect ==
  ASSUME ThreadingTypeOK, NEW m \in Mutexes, NEW t \in Threads, MutexUnlock(m, t)
  PROVE  /\ owner' \in [Mutexes -> Threads \cup {Nobody}]
         /\ owner[m] = t /\ owner'[m] = Nobody
         /\ \A k \in Mutexes \ {m} : owner'[k] = owner[k]
BY DEF ThreadingTypeOK, MutexUnlock

--------------------------------------------------------------------------------
(* The handover of frames and samples *)

\* Where the threads can be; SyncTypeOK names the places one by one, a step of
\* one thread needs to know that pc is a function on all of them.
Places == {"core", "post", "posted", "audioBlocked", "idle", "frameWait", "drawn"}

PlacesOK == pc \in [Threads -> Places]

\* What the steps preserve together: the two conditions of the frame handover
\* never have sleepers at the same time.
OneSideAsleep ==
  \/ waiting["videoFrameRequiredCond"] = {}
  \/ waiting["videoFrameAvailableCond"] = {}

SyncIInv == SyncTypeOK /\ PlacesOK /\ OneSideAsleep /\ SleepsOnlyWhenFull

\* The initial state: nobody sleeps, the buffer is empty.
LEMMA SyncInitIInv == SyncInit => SyncIInv
<1> SUFFICES ASSUME SyncInit PROVE SyncIInv
  OBVIOUS
<1> USE SyncAssumption, NobodyIsNoThread DEF SyncInit, Mutexes, Conditions
<1>1. ThreadingTypeOK
  BY DEF ThreadingTypeOK
<1>2. SyncTypeOK
  <2>1. avail \in 0..Samples /\ pc[CPU] = "core"
    OBVIOUS
  <2>2. \A d \in Clients : pc[d] = "idle" /\ owner["videoFrameMutex"] # d
    BY DEF Clients
  <2> QED
    BY <1>1, <2>1, <2>2 DEF SyncTypeOK, SyncVarsTypeOK
<1>3. PlacesOK
  BY DEF PlacesOK, Places
<1>4. OneSideAsleep /\ SleepsOnlyWhenFull
  BY DEF OneSideAsleep, SleepsOnlyWhenFull, Awake
<1> QED
  BY <1>2, <1>3, <1>4 DEF SyncIInv

\* One pass of mCoreSyncPostFrame: if the CPU goes to sleep for the display, the
\* display has just been woken.
LEMMA OfferFrameIInv ==
  ASSUME SyncIInv, OfferFrame, videoFramePending' \in BOOLEAN,
         UNCHANGED <<flagVars, avail, owner>>
  PROVE  SyncIInv'
<1> USE SyncAssumption, NobodyIsNoThread
        DEF SyncIInv, SyncTypeOK, SyncVarsTypeOK, Places, PlacesOK, SleepsOnlyWhenFull, OneSideAsleep,
            Awake, Clients, flagVars, Goto
<1>1. CASE videoFrameWait
  <2>1. /\ WakeAndWait({"videoFrameAvailableCond"}, "videoFrameRequiredCond", CPU)
        /\ pc' = [pc EXCEPT ![CPU] = "posted"]
    BY <1>1 DEF OfferFrame
  <2>2. /\ waiting' \in [Conditions -> SUBSET Threads]
        /\ waiting'["videoFrameAvailableCond"] = {}
        /\ waiting'["audioRequiredCond"] = waiting["audioRequiredCond"]
    BY <2>1, WakeAndWaitEffect DEF Conditions
  <2> QED
    BY <2>1, <2>2 DEF ThreadingTypeOK
<1>2. CASE ~videoFrameWait
  <2>1. /\ ConditionWake({"videoFrameAvailableCond"})
        /\ pc' = [pc EXCEPT ![CPU] = "core"]
    BY <1>2 DEF OfferFrame
  <2>2. /\ waiting' \in [Conditions -> SUBSET Threads]
        /\ waiting'["videoFrameAvailableCond"] = {}
        /\ waiting'["audioRequiredCond"] = waiting["audioRequiredCond"]
    BY <2>1, ConditionWakeEffect DEF Conditions
  <2> QED
    BY <2>1, <2>2 DEF ThreadingTypeOK
<1> QED
  BY <1>1, <1>2

\* The loop of mCoreSyncProduceAudio: the CPU goes to sleep on a full buffer.
LEMMA WaitForAudioRoomIInv ==
  ASSUME SyncIInv, WaitForAudioRoom(avail', "audioBlocked", "core"), avail' \in 0..Samples,
         ~Awake(CPU, "audioRequiredCond") => avail' = Samples,
         UNCHANGED <<videoFramePending, flagVars, owner>>
  PROVE  SyncIInv'
<1> USE SyncAssumption, NobodyIsNoThread
        DEF SyncIInv, SyncTypeOK, SyncVarsTypeOK, Places, PlacesOK, SleepsOnlyWhenFull, OneSideAsleep,
            Awake, Clients, flagVars, Goto
<1>1. CASE audioWait /\ avail' >= Samples
  <2>1. /\ ConditionWait("audioRequiredCond", CPU)
        /\ pc' = [pc EXCEPT ![CPU] = "audioBlocked"]
    BY <1>1 DEF WaitForAudioRoom
  <2>2. /\ waiting' \in [Conditions -> SUBSET Threads]
        /\ waiting'["videoFrameAvailableCond"] = waiting["videoFrameAvailableCond"]
        /\ waiting'["videoFrameRequiredCond"] = waiting["videoFrameRequiredCond"]
    BY <2>1, ConditionWaitEffect DEF Conditions
  <2> QED
    BY <1>1, <2>1, <2>2 DEF ThreadingTypeOK
<1>2. CASE ~(audioWait /\ avail' >= Samples)
  BY <1>2 DEF WaitForAudioRoom, ThreadingTypeOK
<1> QED
  BY <1>1, <1>2

\* The steps of the CPU thread, the core ending a frame included.
LEMMA CpuSyncIInv == SyncIInv /\ CpuSync => SyncIInv'
<1> SUFFICES ASSUME SyncIInv, CpuSync PROVE SyncIInv'
  OBVIOUS
<1> USE SyncAssumption, NobodyIsNoThread
        DEF SyncIInv, SyncTypeOK, SyncVarsTypeOK, Places, PlacesOK, OneSideAsleep, SleepsOnlyWhenFull,
            Awake, Clients, syncVars, flagVars
<1>1. CASE FrameFinished
  BY <1>1 DEF FrameFinished, Step, ThreadingTypeOK
<1>2. CASE mCoreSyncPostFrame
  BY <1>2, OfferFrameIInv DEF mCoreSyncPostFrame, Section
<1>3. CASE PostFrameWoken
  <2>1. CASE OfferFrame
    BY <1>3, <2>1, OfferFrameIInv DEF PostFrameWoken, Section
  <2>2. CASE Goto(CPU, "core") /\ UNCHANGED waiting
    BY <1>3, <2>2 DEF PostFrameWoken, Section, Goto, ThreadingTypeOK
  <2> QED
    BY <1>3, <2>1, <2>2 DEF PostFrameWoken
<1>4. CASE mCoreSyncProduceAudio
  BY <1>4, WaitForAudioRoomIInv DEF mCoreSyncProduceAudio
<1>5. CASE ProduceAudioWoken
  BY <1>5, WaitForAudioRoomIInv DEF ProduceAudioWoken
<1> QED
  BY <1>1, <1>2, <1>3, <1>4, <1>5 DEF CpuSync

\* The steps of a display thread: it goes to sleep for the CPU only after it has
\* woken the CPU.
LEMMA DisplayIInv == ASSUME NEW d \in Clients PROVE SyncIInv /\ Display(d) => SyncIInv'
<1> SUFFICES ASSUME SyncIInv, Display(d) PROVE SyncIInv'
  OBVIOUS
<1> USE SyncAssumption, NobodyIsNoThread
        DEF SyncIInv, SyncTypeOK, SyncVarsTypeOK, Places, PlacesOK, OneSideAsleep, SleepsOnlyWhenFull,
            Awake, Clients, syncVars, flagVars
<1>1. CASE mCoreSyncWaitFrameStart(d)
  <2>1. CASE videoFrameOn
    <3>1. /\ WakeAndWait({"videoFrameRequiredCond"}, "videoFrameAvailableCond", d)
          /\ pc[d] = "idle" /\ pc' = [pc EXCEPT ![d] = "frameWait"]
          /\ UNCHANGED <<syncVars, owner>>
      BY <1>1, <2>1 DEF mCoreSyncWaitFrameStart, Section, Goto
    <3>2. /\ waiting' \in [Conditions -> SUBSET Threads]
          /\ waiting'["videoFrameRequiredCond"] = {}
          /\ waiting'["audioRequiredCond"] = waiting["audioRequiredCond"]
      BY <3>1, WakeAndWaitEffect DEF Conditions
    <3> QED
      BY <3>1, <3>2 DEF ThreadingTypeOK
  <2>2. CASE ~videoFrameOn
    <3>1. /\ MutexLock("videoFrameMutex", d) /\ ConditionWake({"videoFrameRequiredCond"})
          /\ pc[d] = "idle" /\ pc' = [pc EXCEPT ![d] = "drawn"]
          /\ videoFramePending' = FALSE /\ UNCHANGED <<flagVars, avail>>
      BY <1>1, <2>2 DEF mCoreSyncWaitFrameStart, TakeFrame, Goto
    <3>2. /\ waiting' \in [Conditions -> SUBSET Threads]
          /\ waiting'["videoFrameRequiredCond"] = {}
          /\ waiting'["audioRequiredCond"] = waiting["audioRequiredCond"]
      BY <3>1, ConditionWakeEffect DEF Conditions
    <3>3. /\ owner' \in [Mutexes -> Threads \cup {Nobody}]
          /\ owner["videoFrameMutex"] = Nobody /\ owner'["videoFrameMutex"] = d
      BY <3>1, MutexLockEffect DEF Mutexes
    <3> QED
      BY <3>1, <3>2, <3>3 DEF ThreadingTypeOK
  <2> QED
    BY <2>1, <2>2
<1>2. CASE FrameArrived(d)
  <2>1. /\ owner' \in [Mutexes -> Threads \cup {Nobody}]
        /\ owner["videoFrameMutex"] = Nobody /\ owner'["videoFrameMutex"] = d
    BY <1>2, MutexLockEffect DEF FrameArrived, Mutexes
  <2> QED
    BY <1>2, <2>1 DEF FrameArrived, TakeFrame, Goto, ThreadingTypeOK
<1>3. CASE FrameTimedOut(d)
  <2>1. /\ owner' \in [Mutexes -> Threads \cup {Nobody}]
        /\ owner["videoFrameMutex"] = Nobody /\ owner'["videoFrameMutex"] = d
    BY <1>3, MutexLockEffect DEF FrameTimedOut, Mutexes
  <2> QED
    BY <1>3, <2>1 DEF FrameTimedOut, Step, ThreadingTypeOK, Conditions
<1>4. CASE mCoreSyncWaitFrameEnd(d)
  <2>1. /\ owner' \in [Mutexes -> Threads \cup {Nobody}]
        /\ owner["videoFrameMutex"] = d /\ owner'["videoFrameMutex"] = Nobody
    BY <1>4, MutexUnlockEffect DEF mCoreSyncWaitFrameEnd, Mutexes
  <2> QED
    BY <1>4, <2>1 DEF mCoreSyncWaitFrameEnd, Step, ThreadingTypeOK
<1> QED
  BY <1>1, <1>2, <1>3, <1>4 DEF Display

\* Everything else: the audio callback, the forced frame, the flags.
LEMMA OthersIInv ==
  SyncIInv /\ (mCoreSyncConsumeAudio \/ mCoreSyncForceFrame \/ SwitchFlag) => SyncIInv'
<1> USE SyncAssumption, NobodyIsNoThread
        DEF SyncIInv, SyncTypeOK, SyncVarsTypeOK, ThreadingTypeOK, Places, PlacesOK, OneSideAsleep,
            SleepsOnlyWhenFull, Awake, Mutexes, Conditions, Clients, syncVars, flagVars
<1>1. SyncIInv /\ mCoreSyncConsumeAudio => SyncIInv'
  BY DEF mCoreSyncConsumeAudio, ConditionWake, Woken
<1>2. SyncIInv /\ mCoreSyncForceFrame => SyncIInv'
  BY DEF mCoreSyncForceFrame, Section, Free, ConditionWake, Woken
<1>3. SyncIInv /\ SwitchFlag => SyncIInv'
  BY DEF SwitchFlag, setSync, _changeVideoSync, Section, Free, ConditionWake, Woken
<1> QED
  BY <1>1, <1>2, <1>3

LEMMA SyncStepIInv == SyncIInv /\ [SyncNext]_allSyncVars => SyncIInv'
<1>1. SyncIInv /\ SyncNext => SyncIInv'
  BY CpuSyncIInv, DisplayIInv, OthersIInv DEF SyncNext
<1>2. SyncIInv /\ UNCHANGED allSyncVars => SyncIInv'
  BY DEF SyncIInv, SyncTypeOK, SyncVarsTypeOK, ThreadingTypeOK, Places, PlacesOK, OneSideAsleep, SleepsOnlyWhenFull,
         Awake, allSyncVars, syncVars
<1> QED
  BY <1>1, <1>2

LEMMA SyncInvariant == SyncSpec => []SyncIInv
  BY SyncInitIInv, SyncStepIInv, PTL DEF SyncSpec

\* The variables of struct mCoreSync keep their types, a thread that sleeps is
\* where it sleeps, and only a display keeps videoFrameMutex between its steps.
THEOREM SyncTypesOK == SyncSpec => []SyncTypeOK
<1>1. SyncIInv => SyncTypeOK
  BY DEF SyncIInv
<1> QED
  BY <1>1, SyncInvariant, PTL

\* The CPU and a display never sleep for each other, with any number of displays
\* and whatever the frontend does to the flags: the handover of core/sync.c does
\* not lean on the timeout of mCoreSyncWaitFrameStart.
THEOREM HandoverNeverStuck == SyncSpec => []NeverBothAsleep
<1>1. SyncIInv => NeverBothAsleep
  BY DEF SyncIInv, OneSideAsleep, NeverBothAsleep, Awake
<1> QED
  BY <1>1, SyncInvariant, PTL

\* For every size of the audio buffer: a CPU asleep in mCoreSyncProduceAudio
\* faces a full one.
THEOREM CpuSleepsOnlyWhenFull == SyncSpec => []SleepsOnlyWhenFull
<1>1. SyncIInv => SleepsOnlyWhenFull
  BY DEF SyncIInv
<1> QED
  BY <1>1, SyncInvariant, PTL
--------------------------------------------------------------------------------
\* A core that runs with videoFrameWait set has no frame left that the display
\* did not take.
FrameTaken == videoFrameWait /\ pc[CPU] \in {"core", "audioBlocked"} => ~videoFramePending

LEMMA FrameTakenStep ==
  ASSUME "videoFrameWait" \notin Switches, SyncIInv, FrameTaken, [SyncNext]_allSyncVars
  PROVE  FrameTaken'
<1> USE SyncAssumption DEF FrameTaken
<1>0. pc \in [Threads -> Places] /\ CPU \in Threads
  BY DEF SyncIInv, PlacesOK
<1>1. CASE CpuSync
  <2>1. CASE FrameFinished
    BY <1>0, <2>1 DEF FrameFinished, Step
  <2>2. CASE mCoreSyncPostFrame
    BY <1>0, <2>2 DEF mCoreSyncPostFrame, OfferFrame, Goto, flagVars
  <2>3. CASE PostFrameWoken
    BY <1>0, <2>3 DEF PostFrameWoken, OfferFrame, Goto, syncVars
  <2>4. CASE mCoreSyncProduceAudio
    BY <1>0, <2>4 DEF mCoreSyncProduceAudio, WaitForAudioRoom, Goto, flagVars
  <2>5. CASE ProduceAudioWoken
    BY <1>0, <2>5 DEF ProduceAudioWoken, WaitForAudioRoom, Goto, syncVars
  <2> QED
    BY <1>1, <2>1, <2>2, <2>3, <2>4, <2>5 DEF CpuSync
<1>2. ASSUME NEW d \in Clients, Display(d) PROVE FrameTaken'
  <2>1. /\ pc'[CPU] = pc[CPU] /\ videoFrameWait' = videoFrameWait
        /\ videoFramePending' \in {FALSE, videoFramePending}
    BY <1>0, <1>2 DEF Display, mCoreSyncWaitFrameStart, FrameArrived, FrameTimedOut,
       mCoreSyncWaitFrameEnd, TakeFrame, Goto, Step, syncVars, flagVars, Clients
  <2> QED
    BY <2>1
<1>3. CASE mCoreSyncConsumeAudio \/ mCoreSyncForceFrame
  BY <1>3 DEF mCoreSyncConsumeAudio, mCoreSyncForceFrame, syncVars, flagVars
<1>4. CASE SwitchFlag
  BY <1>4 DEF SwitchFlag, setSync, _changeVideoSync
<1>5. CASE UNCHANGED allSyncVars
  BY <1>5 DEF allSyncVars, syncVars
<1> QED
  BY <1>1, <1>2, <1>3, <1>4, <1>5 DEF SyncNext

\* As long as nobody switches videoFrameWait, and whatever becomes of the other
\* two flags, the core finishes no frame before the display took the one before.
THEOREM NoFrameLost ==
  ASSUME "videoFrameWait" \notin Switches
  PROVE  SyncSpec => NoFrameOverrun
<1>1. SyncInit => FrameTaken
  BY DEF SyncInit, FrameTaken
<1>2. SyncIInv /\ FrameTaken /\ [SyncNext]_allSyncVars => FrameTaken'
  BY FrameTakenStep
<1>3. FrameTaken =>
        [(videoFrameWait /\ pc[CPU] = "core" /\ pc'[CPU] = "post")
           => ~videoFramePending]_allSyncVars
  BY DEF FrameTaken
<1> QED
  BY <1>1, <1>2, <1>3, SyncInvariant, PTL DEF SyncSpec, NoFrameOverrun
================================================================================
