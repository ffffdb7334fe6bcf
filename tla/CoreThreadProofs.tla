---------------------------- MODULE CoreThreadProofs ----------------------------
(***************************************************************************)
(* Theorems about CoreThread: for any number of client threads, any calls  *)
(* they make, any size of the audio buffer and any depth of interrupts.    *)
(***************************************************************************)
EXTENDS CoreThread, CoreSyncProofs

--------------------------------------------------------------------------------
(* Types *)

\* A thread that starts has its types.
LEMMA InitTypes == Init => ProgramTypeOK
<1> SUFFICES ASSUME Init PROVE ProgramTypeOK
  OBVIOUS
<1> USE SyncAssumption, CoreThreadAssumption DEF Init, Clients
<1>1. ThreadingTypeOK
  BY DEF ThreadingTypeOK
<1>2. SyncVarsTypeOK
  <2>1. avail \in 0..Samples
    OBVIOUS
  <2>2. videoFramePending = FALSE /\ videoFrameOn = FALSE
    OBVIOUS
  <2>3. videoFrameWait \in BOOLEAN /\ audioWait \in BOOLEAN
    OBVIOUS
  <2> QED
    BY <2>1, <2>2, <2>3 DEF SyncVarsTypeOK
<1>3. PlacesTypeOK
  BY DEF PlacesTypeOK, CpuPlaces, ClientPlaces
<1>4. StateTypeOK
  <2>1. state \in States /\ savedState \in States /\ deferred \in States /\ run = Nobody
    BY DEF States, RunningStates
  <2>2. frameWasOn \in BOOLEAN /\ frameCallback \in BOOLEAN /\ frameDone \in BOOLEAN
    OBVIOUS
  <2>3. interruptDepth \in Int
    OBVIOUS
  <2> QED
    BY <2>1, <2>2, <2>3 DEF StateTypeOK
<1>5. CallTypeOK
  BY DEF CallTypeOK
<1>6. HistoryTypeOK
  BY DEF HistoryTypeOK
<1> QED
  BY <1>1, <1>2, <1>3, <1>4, <1>5, <1>6 DEF ProgramTypeOK

\* The steps of the CPU thread keep the types.
LEMMA CpuTypes == ProgramTypeOK /\ (CpuStep \/ RunLoopReturns \/ lineEntered) => ProgramTypeOK'
<1> SUFFICES ASSUME ProgramTypeOK, CpuStep \/ RunLoopReturns \/ lineEntered PROVE ProgramTypeOK'
  OBVIOUS
<1> USE SyncAssumption, CoreThreadAssumption
        DEF ProgramTypeOK, Clients, Mutexes, Conditions,
            syncVars, flagVars, stateVars, cpuVars, callVars, historyVars
<1>1. CASE CpuStart
  <2> USE <1>1 DEF CpuStart, Step, Section
  <2>1. ThreadingTypeOK'
    BY ConditionWakeEffect DEF ThreadingTypeOK
  <2>2. PlacesTypeOK'
    BY DEF PlacesTypeOK, CpuPlaces
  <2>3. StateTypeOK'
    BY DEF StateTypeOK, States, RunningStates, WaitingStates, DeferredStates, ExitStates
  <2>4. SyncVarsTypeOK' /\ CallTypeOK' /\ HistoryTypeOK'
    BY DEF SyncVarsTypeOK, CallTypeOK, HistoryTypeOK
  <2> QED
    BY <2>1, <2>2, <2>3, <2>4 DEF ProgramTypeOK
<1>2. CASE CpuLoop
  <2> USE <1>2 DEF CpuLoop, Step
  <2>1. PlacesTypeOK'
    BY DEF PlacesTypeOK, CpuPlaces
  <2>2. ThreadingTypeOK' /\ SyncVarsTypeOK' /\ StateTypeOK' /\ CallTypeOK' /\ HistoryTypeOK'
    BY DEF ThreadingTypeOK, SyncVarsTypeOK, StateTypeOK, CallTypeOK, HistoryTypeOK
  <2> QED
    BY <2>1, <2>2 DEF ProgramTypeOK
<1>3. CASE CpuLock
  <2> USE <1>3 DEF CpuLock, HandleState, Section, Goto
  <2>1. ThreadingTypeOK'
    BY ConditionWaitEffect, WakeAndWaitEffect DEF ThreadingTypeOK
  <2>2. PlacesTypeOK'
    BY DEF PlacesTypeOK, CpuPlaces
  <2>3. StateTypeOK'
    BY DEF StateTypeOK, States, RunningStates, WaitingStates, DeferredStates, ExitStates
  <2>4. SyncVarsTypeOK' /\ CallTypeOK' /\ HistoryTypeOK'
    BY DEF SyncVarsTypeOK, CallTypeOK, HistoryTypeOK
  <2> QED
    BY <2>1, <2>2, <2>3, <2>4 DEF ProgramTypeOK
<1>4. CASE CpuWoken
  <2> USE <1>4 DEF CpuWoken, ParkAgain, HandleState, Section, Goto
  <2>1. ThreadingTypeOK'
    BY ConditionWaitEffect, WakeAndWaitEffect DEF ThreadingTypeOK
  <2>2. PlacesTypeOK'
    BY DEF PlacesTypeOK, CpuPlaces
  <2>3. StateTypeOK'
    BY DEF StateTypeOK, States, RunningStates, WaitingStates, DeferredStates, ExitStates
  <2>4. SyncVarsTypeOK' /\ CallTypeOK' /\ HistoryTypeOK'
    BY DEF SyncVarsTypeOK, CallTypeOK, HistoryTypeOK
  <2> QED
    BY <2>1, <2>2, <2>3, <2>4 DEF ProgramTypeOK
<1>5. CASE CpuParkedAudio
  <2> USE <1>5 DEF CpuParkedAudio, WaitForAudioRoom, Goto
  <2>1. ThreadingTypeOK'
    BY ConditionWaitEffect DEF ThreadingTypeOK
  <2>2. PlacesTypeOK'
    BY DEF PlacesTypeOK, CpuPlaces
  <2>3. SyncVarsTypeOK' /\ StateTypeOK' /\ CallTypeOK' /\ HistoryTypeOK'
    BY DEF SyncVarsTypeOK, StateTypeOK, CallTypeOK, HistoryTypeOK
  <2> QED
    BY <2>1, <2>2, <2>3 DEF ProgramTypeOK
<1>6. CASE CpuDeferred
  <2> USE <1>6 DEF CpuDeferred, Step
  <2>1. PlacesTypeOK'
    BY DEF PlacesTypeOK, CpuPlaces
  <2>2. HistoryTypeOK'
    BY DEF HistoryTypeOK
  <2>3. ThreadingTypeOK' /\ SyncVarsTypeOK' /\ StateTypeOK' /\ CallTypeOK'
    BY DEF ThreadingTypeOK, SyncVarsTypeOK, StateTypeOK, CallTypeOK
  <2> QED
    BY <2>1, <2>2, <2>3 DEF ProgramTypeOK
<1>7. CASE CpuRestoreState
  <2> USE <1>7 DEF CpuRestoreState, Step
  <2>1. PlacesTypeOK'
    BY DEF PlacesTypeOK, CpuPlaces
  <2>2. StateTypeOK'
    BY DEF StateTypeOK, States, RunningStates, WaitingStates, DeferredStates, ExitStates
  <2>3. ThreadingTypeOK' /\ SyncVarsTypeOK' /\ CallTypeOK' /\ HistoryTypeOK'
    BY DEF ThreadingTypeOK, SyncVarsTypeOK, CallTypeOK, HistoryTypeOK
  <2> QED
    BY <2>1, <2>2, <2>3 DEF ProgramTypeOK
<1>8. CASE CpuExit
  <2> USE <1>8 DEF CpuExit, Step, Section
  <2>1. ThreadingTypeOK'
    BY DEF ThreadingTypeOK
  <2>2. PlacesTypeOK'
    BY DEF PlacesTypeOK, CpuPlaces
  <2>3. StateTypeOK'
    BY DEF StateTypeOK, States, RunningStates, WaitingStates, DeferredStates, ExitStates
  <2>4. SyncVarsTypeOK' /\ CallTypeOK' /\ HistoryTypeOK'
    BY DEF SyncVarsTypeOK, CallTypeOK, HistoryTypeOK
  <2> QED
    BY <2>1, <2>2, <2>3, <2>4 DEF ProgramTypeOK
<1>9. CASE FrameEnded
  <2> USE <1>9 DEF FrameEnded, Step
  <2>1. PlacesTypeOK'
    BY DEF PlacesTypeOK, CpuPlaces
  <2>2. StateTypeOK'
    <3>1. UNCHANGED <<state, savedState, deferred, interruptDepth, frameWasOn, run>>
      OBVIOUS
    <3>2. frameDone' \in BOOLEAN /\ frameCallback' \in BOOLEAN
      OBVIOUS
    <3> QED
      BY <3>1, <3>2 DEF StateTypeOK
  <2>3. ThreadingTypeOK' /\ SyncVarsTypeOK' /\ CallTypeOK' /\ HistoryTypeOK'
    BY DEF ThreadingTypeOK, SyncVarsTypeOK, CallTypeOK, HistoryTypeOK
  <2> QED
    BY <2>1, <2>2, <2>3 DEF ProgramTypeOK
<1>10. CASE mCoreThreadPauseFromThread
  <2> USE <1>10 DEF mCoreThreadPauseFromThread, Step, Section
  <2>1. ThreadingTypeOK'
    BY DEF ThreadingTypeOK
  <2>2. PlacesTypeOK'
    BY DEF PlacesTypeOK, CpuPlaces
  <2>3. StateTypeOK'
    BY DEF StateTypeOK, States, RunningStates, WaitingStates, DeferredStates, ExitStates
  <2>4. CallTypeOK'
    BY DEF CallTypeOK
  <2>5. SyncVarsTypeOK' /\ HistoryTypeOK'
    BY DEF SyncVarsTypeOK, HistoryTypeOK
  <2> QED
    BY <2>1, <2>2, <2>3, <2>4, <2>5 DEF ProgramTypeOK
<1>11. CASE PauseFromThreadVideoSync
  <2> USE <1>11 DEF PauseFromThreadVideoSync, Step, _changeVideoSync, Section
  <2>1. ThreadingTypeOK'
    BY ConditionWakeEffect DEF ThreadingTypeOK
  <2>2. SyncVarsTypeOK'
    BY DEF SyncVarsTypeOK, CallTypeOK
  <2>3. PlacesTypeOK'
    BY DEF PlacesTypeOK, CpuPlaces
  <2>4. StateTypeOK' /\ CallTypeOK' /\ HistoryTypeOK'
    BY DEF StateTypeOK, CallTypeOK, HistoryTypeOK
  <2> QED
    BY <2>1, <2>2, <2>3, <2>4 DEF ProgramTypeOK
<1>12. CASE mCoreThreadWaitFromThread
  <2> USE <1>12 DEF mCoreThreadWaitFromThread, Section
  <2>1. ThreadingTypeOK'
    BY DEF ThreadingTypeOK
  <2>2. StateTypeOK'
    BY DEF StateTypeOK, States, RunningStates, WaitingStates, DeferredStates, ExitStates
  <2>3. SyncVarsTypeOK' /\ PlacesTypeOK' /\ CallTypeOK' /\ HistoryTypeOK'
    BY DEF SyncVarsTypeOK, PlacesTypeOK, CallTypeOK, HistoryTypeOK
  <2> QED
    BY <2>1, <2>2, <2>3 DEF ProgramTypeOK
<1>13. CASE CoreCrashes
  <2> USE <1>13 DEF CoreCrashes, Section
  <2>1. ThreadingTypeOK'
    BY ConditionWakeEffect DEF ThreadingTypeOK
  <2>2. StateTypeOK'
    BY DEF StateTypeOK, States, RunningStates, WaitingStates, DeferredStates, ExitStates
  <2>3. SyncVarsTypeOK' /\ PlacesTypeOK' /\ CallTypeOK' /\ HistoryTypeOK'
    BY DEF SyncVarsTypeOK, PlacesTypeOK, CallTypeOK, HistoryTypeOK
  <2> QED
    BY <2>1, <2>2, <2>3 DEF ProgramTypeOK
<1>14. CASE CoreSyncStep
  <2> USE <1>14 DEF CoreSyncStep, mCoreSyncPostFrame, PostFrameWoken, mCoreSyncProduceAudio, ProduceAudioWoken, OfferFrame, WaitForAudioRoom, Goto, Section
  <2>1. ThreadingTypeOK'
    BY ConditionWaitEffect, WakeAndWaitEffect, ConditionWakeEffect DEF ThreadingTypeOK
  <2>2. SyncVarsTypeOK'
    <3>1. avail' \in 0..Samples
      BY DEF SyncVarsTypeOK
    <3>2. UNCHANGED flagVars /\ videoFramePending' \in {TRUE, videoFramePending}
      OBVIOUS
    <3> QED
      BY <3>1, <3>2 DEF SyncVarsTypeOK
  <2>3. PlacesTypeOK'
    BY DEF PlacesTypeOK, CpuPlaces
  <2>4. StateTypeOK' /\ CallTypeOK' /\ HistoryTypeOK'
    BY DEF StateTypeOK, CallTypeOK, HistoryTypeOK
  <2> QED
    BY <2>1, <2>2, <2>3, <2>4 DEF ProgramTypeOK
<1>15. CASE RunLoopReturns
  <2> USE <1>15 DEF RunLoopReturns, Step
  <2>1. PlacesTypeOK'
    BY DEF PlacesTypeOK, CpuPlaces
  <2>2. StateTypeOK'
    <3>1. UNCHANGED <<state, savedState, deferred, interruptDepth, frameWasOn, frameCallback, run>>
      OBVIOUS
    <3>2. frameDone' \in BOOLEAN
      OBVIOUS
    <3> QED
      BY <3>1, <3>2 DEF StateTypeOK
  <2>3. ThreadingTypeOK' /\ SyncVarsTypeOK' /\ CallTypeOK' /\ HistoryTypeOK'
    BY DEF ThreadingTypeOK, SyncVarsTypeOK, CallTypeOK, HistoryTypeOK
  <2> QED
    BY <2>1, <2>2, <2>3 DEF ProgramTypeOK
<1>16. CASE readLine \/ lineEntered
  <2> USE <1>16 DEF readLine, lineEntered, InterruptAtOnce, ContinueState, Section, Step
  <2>1. ThreadingTypeOK'
    BY ConditionWakeEffect DEF ThreadingTypeOK
  <2>2. PlacesTypeOK'
    BY DEF PlacesTypeOK, CpuPlaces
  <2>3. StateTypeOK'
    BY DEF StateTypeOK, States, RunningStates, WaitingStates, DeferredStates, ExitStates
  <2>4. SyncVarsTypeOK' /\ CallTypeOK' /\ HistoryTypeOK'
    BY DEF SyncVarsTypeOK, CallTypeOK, HistoryTypeOK
  <2> QED
    BY <2>1, <2>2, <2>3, <2>4 DEF ProgramTypeOK
<1> QED
    BY <1>1, <1>2, <1>3, <1>4, <1>5, <1>6, <1>7, <1>8, <1>9, <1>10, <1>11, <1>12, <1>13, <1>14,
     <1>15, <1>16 DEF CpuStep

\* So do the steps of a client in a call.
LEMMA ClientTypes == ASSUME NEW c \in Clients PROVE ProgramTypeOK /\ ClientStep(c) => ProgramTypeOK'
<1> SUFFICES ASSUME ProgramTypeOK, ClientStep(c) PROVE ProgramTypeOK'
  OBVIOUS
<1> USE SyncAssumption, CoreThreadAssumption
        DEF ProgramTypeOK, Clients, Mutexes, Conditions,
            syncVars, flagVars, stateVars, cpuVars, callVars, historyVars
<1>1. CASE _waitOnInterrupt(c)
  <2> USE <1>1 DEF _waitOnInterrupt, InCall, Goto
  <2>1. ThreadingTypeOK'
    BY ConditionWaitEffect DEF ThreadingTypeOK
  <2>2. PlacesTypeOK'
    BY DEF PlacesTypeOK, ClientPlaces
  <2>3. StateTypeOK'
    BY DEF StateTypeOK, States, RunningStates, WaitingStates, DeferredStates, ExitStates
  <2>4. SyncVarsTypeOK' /\ CallTypeOK' /\ HistoryTypeOK'
    BY DEF SyncVarsTypeOK, CallTypeOK, HistoryTypeOK
  <2> QED
    BY <2>1, <2>2, <2>3, <2>4 DEF ProgramTypeOK
<1>2. CASE mCoreThreadInterrupt(c)
  <2> USE <1>2 DEF mCoreThreadInterrupt, InCall, Goto, Return, StartWaiting
  <2>1. ThreadingTypeOK'
    BY ConditionWakeEffect DEF ThreadingTypeOK
  <2>2. PlacesTypeOK'
    BY DEF PlacesTypeOK, ClientPlaces
  <2>3. StateTypeOK'
    BY DEF StateTypeOK, States, RunningStates, WaitingStates, DeferredStates, ExitStates
  <2>4. CallTypeOK'
    BY DEF CallTypeOK
  <2>5. HistoryTypeOK'
    <3>1. \E b \in BOOLEAN : granted' = [granted EXCEPT ![c] = b] \/ granted' = granted
      BY DEF HistoryTypeOK
    <3>2. held' \in [Clients -> Int]
      BY DEF HistoryTypeOK
    <3> QED
      BY <3>1, <3>2 DEF HistoryTypeOK
  <2>6. SyncVarsTypeOK'
    BY DEF SyncVarsTypeOK
  <2> QED
    BY <2>1, <2>2, <2>3, <2>4, <2>5, <2>6 DEF ProgramTypeOK
<1>3. CASE mCoreThreadInterruptFromThread(c)
  <2> USE <1>3 DEF mCoreThreadInterruptFromThread, InterruptAtOnce, InCall, Goto, Return
  <2>1. ThreadingTypeOK'
    BY ConditionWakeEffect DEF ThreadingTypeOK
  <2>2. PlacesTypeOK'
    BY DEF PlacesTypeOK, ClientPlaces
  <2>3. StateTypeOK'
    BY DEF StateTypeOK, States, RunningStates, WaitingStates, DeferredStates, ExitStates
  <2>4. CallTypeOK'
    BY DEF CallTypeOK
  <2>5. HistoryTypeOK'
    BY DEF HistoryTypeOK
  <2>6. SyncVarsTypeOK'
    BY DEF SyncVarsTypeOK
  <2> QED
    BY <2>1, <2>2, <2>3, <2>4, <2>5, <2>6 DEF ProgramTypeOK
<1>4. CASE mCoreThreadContinue(c)
  <2> USE <1>4 DEF mCoreThreadContinue, ContinueState, InCall, Goto, Return
  <2>1. ThreadingTypeOK'
    BY ConditionWakeEffect DEF ThreadingTypeOK
  <2>2. PlacesTypeOK'
    BY DEF PlacesTypeOK, ClientPlaces
  <2>3. StateTypeOK'
    BY DEF StateTypeOK, States, RunningStates, WaitingStates, DeferredStates, ExitStates
  <2>4. CallTypeOK'
    BY DEF CallTypeOK
  <2>5. HistoryTypeOK'
    BY DEF HistoryTypeOK
  <2>6. SyncVarsTypeOK'
    BY DEF SyncVarsTypeOK
  <2> QED
    BY <2>1, <2>2, <2>3, <2>4, <2>5, <2>6 DEF ProgramTypeOK
<1>5. CASE mCoreThreadRunFunction(c)
  <2> USE <1>5 DEF mCoreThreadRunFunction, InCall, Goto, StartWaiting
  <2>1. ThreadingTypeOK'
    BY ConditionWakeEffect DEF ThreadingTypeOK
  <2>2. PlacesTypeOK'
    BY DEF PlacesTypeOK, ClientPlaces
  <2>3. StateTypeOK'
    BY DEF StateTypeOK, States, RunningStates, WaitingStates, DeferredStates, ExitStates
  <2>4. SyncVarsTypeOK' /\ CallTypeOK' /\ HistoryTypeOK'
    BY DEF SyncVarsTypeOK, CallTypeOK, HistoryTypeOK
  <2> QED
    BY <2>1, <2>2, <2>3, <2>4 DEF ProgramTypeOK
<1>6. CASE mCoreThreadReset(c)
  <2> USE <1>6 DEF mCoreThreadReset, InCall, Goto, Return
  <2>1. ThreadingTypeOK'
    BY ConditionWakeEffect DEF ThreadingTypeOK
  <2>2. PlacesTypeOK'
    BY DEF PlacesTypeOK, ClientPlaces
  <2>3. StateTypeOK'
    BY DEF StateTypeOK, States, RunningStates, WaitingStates, DeferredStates, ExitStates
  <2>4. CallTypeOK'
    BY DEF CallTypeOK
  <2>5. SyncVarsTypeOK' /\ HistoryTypeOK'
    BY DEF SyncVarsTypeOK, HistoryTypeOK
  <2> QED
    BY <2>1, <2>2, <2>3, <2>4, <2>5 DEF ProgramTypeOK
<1>7. CASE mCoreThreadStopWaiting(c)
  <2> USE <1>7 DEF mCoreThreadStopWaiting, InCall, Goto, Return
  <2>1. ThreadingTypeOK'
    BY ConditionWakeEffect DEF ThreadingTypeOK
  <2>2. PlacesTypeOK'
    BY DEF PlacesTypeOK, ClientPlaces
  <2>3. StateTypeOK'
    BY DEF StateTypeOK, States, RunningStates, WaitingStates, DeferredStates, ExitStates
  <2>4. CallTypeOK'
    BY DEF CallTypeOK
  <2>5. SyncVarsTypeOK' /\ HistoryTypeOK'
    BY DEF SyncVarsTypeOK, HistoryTypeOK
  <2> QED
    BY <2>1, <2>2, <2>3, <2>4, <2>5 DEF ProgramTypeOK
<1>8. CASE mCoreThreadSetRewinding(c)
  <2> USE <1>8 DEF mCoreThreadSetRewinding, InCall, Goto, Return, NothingToRewind
  <2>1. PlacesTypeOK'
    BY DEF PlacesTypeOK, ClientPlaces
  <2>2. StateTypeOK'
    BY DEF StateTypeOK, States, RunningStates, WaitingStates, DeferredStates, ExitStates
  <2>3. CallTypeOK'
    BY DEF CallTypeOK
  <2>4. ThreadingTypeOK' /\ SyncVarsTypeOK' /\ HistoryTypeOK'
    BY DEF ThreadingTypeOK, SyncVarsTypeOK, HistoryTypeOK
  <2> QED
    BY <2>1, <2>2, <2>3, <2>4 DEF ProgramTypeOK
<1>9. CASE mCoreThreadPause(c)
  <2> USE <1>9 DEF mCoreThreadPause, InCall, Goto, StartWaiting
  <2>1. ThreadingTypeOK'
    BY ConditionWakeEffect DEF ThreadingTypeOK
  <2>2. PlacesTypeOK'
    BY DEF PlacesTypeOK, ClientPlaces
  <2>3. StateTypeOK'
    BY DEF StateTypeOK, States, RunningStates, WaitingStates, DeferredStates, ExitStates
  <2>4. CallTypeOK'
    BY DEF CallTypeOK, StateTypeOK
  <2>5. SyncVarsTypeOK' /\ HistoryTypeOK'
    BY DEF SyncVarsTypeOK, HistoryTypeOK
  <2> QED
    BY <2>1, <2>2, <2>3, <2>4, <2>5 DEF ProgramTypeOK
<1>10. CASE PauseVideoSync(c)
  <2> USE <1>10 DEF PauseVideoSync, _changeVideoSync, Section, Goto, Return
  <2>1. ThreadingTypeOK'
    BY ConditionWakeEffect DEF ThreadingTypeOK
  <2>2. SyncVarsTypeOK'
    BY DEF SyncVarsTypeOK, CallTypeOK
  <2>3. PlacesTypeOK'
    BY DEF PlacesTypeOK, ClientPlaces
  <2>4. CallTypeOK'
    BY DEF CallTypeOK
  <2>5. StateTypeOK' /\ HistoryTypeOK'
    BY DEF StateTypeOK, HistoryTypeOK
  <2> QED
    BY <2>1, <2>2, <2>3, <2>4, <2>5 DEF ProgramTypeOK
<1>11. CASE ArmPauseAfterFrame(c)
  <2> USE <1>11 DEF ArmPauseAfterFrame, Step
  <2>1. PlacesTypeOK'
    BY DEF PlacesTypeOK, ClientPlaces
  <2>2. StateTypeOK'
    BY DEF StateTypeOK, States, RunningStates, WaitingStates, DeferredStates, ExitStates
  <2>3. CallTypeOK'
    BY DEF CallTypeOK, SyncVarsTypeOK, Calls
  <2>4. ThreadingTypeOK' /\ SyncVarsTypeOK' /\ HistoryTypeOK'
    BY DEF ThreadingTypeOK, SyncVarsTypeOK, HistoryTypeOK
  <2> QED
    BY <2>1, <2>2, <2>3, <2>4 DEF ProgramTypeOK
<1>12. CASE mCoreThreadEnd(c)
  <2> USE <1>12 DEF mCoreThreadEnd, InCall, Goto
  <2>1. ThreadingTypeOK'
    BY ConditionWakeEffect DEF ThreadingTypeOK
  <2>2. PlacesTypeOK'
    BY DEF PlacesTypeOK, ClientPlaces
  <2>3. StateTypeOK'
    BY DEF StateTypeOK, States, RunningStates, WaitingStates, DeferredStates, ExitStates
  <2>4. SyncVarsTypeOK' /\ CallTypeOK' /\ HistoryTypeOK'
    BY DEF SyncVarsTypeOK, CallTypeOK, HistoryTypeOK
  <2> QED
    BY <2>1, <2>2, <2>3, <2>4 DEF ProgramTypeOK
<1>13. CASE EndAudio(c)
  <2> USE <1>13 DEF EndAudio, Step
  <2>1. ThreadingTypeOK'
    BY ConditionWakeEffect DEF ThreadingTypeOK
  <2>2. SyncVarsTypeOK'
    BY DEF SyncVarsTypeOK
  <2>3. PlacesTypeOK'
    BY DEF PlacesTypeOK, ClientPlaces
  <2>4. HistoryTypeOK'
    BY DEF HistoryTypeOK
  <2>5. StateTypeOK' /\ CallTypeOK'
    BY DEF StateTypeOK, CallTypeOK
  <2> QED
    BY <2>1, <2>2, <2>3, <2>4, <2>5 DEF ProgramTypeOK
<1>14. CASE EndVideo(c)
  <2> USE <1>14 DEF EndVideo, Section, Goto, Return
  <2>1. ThreadingTypeOK'
    BY ConditionWakeEffect DEF ThreadingTypeOK
  <2>2. SyncVarsTypeOK'
    BY DEF SyncVarsTypeOK
  <2>3. PlacesTypeOK'
    BY DEF PlacesTypeOK, ClientPlaces
  <2>4. CallTypeOK'
    BY DEF CallTypeOK
  <2>5. HistoryTypeOK'
    BY DEF HistoryTypeOK
  <2>6. StateTypeOK'
    BY DEF StateTypeOK
  <2> QED
    BY <2>1, <2>2, <2>3, <2>4, <2>5, <2>6 DEF ProgramTypeOK
<1>15. CASE SaveVideo(c)
  <2> USE <1>15 DEF SaveVideo, Step, Section
  <2>1. ThreadingTypeOK'
    BY DEF ThreadingTypeOK
  <2>2. SyncVarsTypeOK'
    BY DEF SyncVarsTypeOK
  <2>3. PlacesTypeOK'
    BY DEF PlacesTypeOK, ClientPlaces
  <2>4. CallTypeOK'
    BY DEF CallTypeOK, SyncVarsTypeOK
  <2>5. StateTypeOK' /\ HistoryTypeOK'
    BY DEF StateTypeOK, HistoryTypeOK
  <2> QED
    BY <2>1, <2>2, <2>3, <2>4, <2>5 DEF ProgramTypeOK
<1>16. CASE SaveAudio(c)
  <2> USE <1>16 DEF SaveAudio, TestState, Goto
  <2>1. ThreadingTypeOK'
    BY DEF ThreadingTypeOK
  <2>2. SyncVarsTypeOK'
    BY DEF SyncVarsTypeOK
  <2>3. PlacesTypeOK'
    BY DEF PlacesTypeOK, ClientPlaces
  <2>4. CallTypeOK'
    BY DEF CallTypeOK, SyncVarsTypeOK
  <2>5. StateTypeOK' /\ HistoryTypeOK'
    BY DEF StateTypeOK, HistoryTypeOK
  <2> QED
    BY <2>1, <2>2, <2>3, <2>4, <2>5 DEF ProgramTypeOK
<1>17. CASE WakeVideo(c)
  <2> USE <1>17 DEF WakeVideo, Step
  <2>1. ThreadingTypeOK'
    BY ConditionWakeEffect DEF ThreadingTypeOK
  <2>2. PlacesTypeOK'
    BY DEF PlacesTypeOK, ClientPlaces
  <2>3. SyncVarsTypeOK' /\ StateTypeOK' /\ CallTypeOK' /\ HistoryTypeOK'
    BY DEF SyncVarsTypeOK, StateTypeOK, CallTypeOK, HistoryTypeOK
  <2> QED
    BY <2>1, <2>2, <2>3 DEF ProgramTypeOK
<1>18. CASE WakeAudio(c)
  <2> USE <1>18 DEF WakeAudio, Step
  <2>1. ThreadingTypeOK'
    BY ConditionWakeEffect DEF ThreadingTypeOK
  <2>2. PlacesTypeOK'
    BY DEF PlacesTypeOK, ClientPlaces
  <2>3. SyncVarsTypeOK' /\ StateTypeOK' /\ CallTypeOK' /\ HistoryTypeOK'
    BY DEF SyncVarsTypeOK, StateTypeOK, CallTypeOK, HistoryTypeOK
  <2> QED
    BY <2>1, <2>2, <2>3 DEF ProgramTypeOK
<1>19. CASE LockAgain(c)
  <2> USE <1>19 DEF LockAgain, TestState, Goto
  <2>1. ThreadingTypeOK'
    BY ConditionWakeEffect DEF ThreadingTypeOK
  <2>2. PlacesTypeOK'
    BY DEF PlacesTypeOK, ClientPlaces
  <2>3. SyncVarsTypeOK' /\ StateTypeOK' /\ CallTypeOK' /\ HistoryTypeOK'
    BY DEF SyncVarsTypeOK, StateTypeOK, CallTypeOK, HistoryTypeOK
  <2> QED
    BY <2>1, <2>2, <2>3 DEF ProgramTypeOK
<1>20. CASE RestoreAudio(c)
  <2> USE <1>20 DEF RestoreAudio, Step
  <2>1. SyncVarsTypeOK'
    BY DEF SyncVarsTypeOK, CallTypeOK
  <2>2. PlacesTypeOK'
    BY DEF PlacesTypeOK, ClientPlaces
  <2>3. ThreadingTypeOK' /\ StateTypeOK' /\ CallTypeOK' /\ HistoryTypeOK'
    BY DEF ThreadingTypeOK, StateTypeOK, CallTypeOK, HistoryTypeOK
  <2> QED
    BY <2>1, <2>2, <2>3 DEF ProgramTypeOK
<1>21. CASE RestoreVideo(c)
  <2> USE <1>21 DEF RestoreVideo, Goto, Return
  <2>1. ThreadingTypeOK'
    BY MutexUnlockEffect DEF ThreadingTypeOK
  <2>2. SyncVarsTypeOK'
    BY DEF SyncVarsTypeOK, CallTypeOK
  <2>3. PlacesTypeOK'
    BY DEF PlacesTypeOK, ClientPlaces
  <2>4. StateTypeOK'
    BY DEF StateTypeOK, States, RunningStates, WaitingStates, DeferredStates, ExitStates, CallTypeOK
  <2>5. CallTypeOK'
    BY DEF CallTypeOK
  <2>6. HistoryTypeOK'
    BY DEF HistoryTypeOK
  <2> QED
    BY <2>1, <2>2, <2>3, <2>4, <2>5, <2>6 DEF ProgramTypeOK
<1>22. CASE SetAudioSync(c)
  <2> USE <1>22 DEF SetAudioSync, Goto, Return
  <2>1. SyncVarsTypeOK'
    BY DEF SyncVarsTypeOK
  <2>2. PlacesTypeOK'
    BY DEF PlacesTypeOK, ClientPlaces
  <2>3. CallTypeOK'
    BY DEF CallTypeOK
  <2>4. HistoryTypeOK'
    <3> DEFINE on == call[c] \in {"SyncOn", "AudioSyncOn"}
    <3>1. asked' = [asked EXCEPT !.audio = on] /\ UNCHANGED <<held, granted, ran>>
      OBVIOUS
    <3>2. on \in BOOLEAN
      OBVIOUS
    <3> HIDE DEF on
    <3> QED
      BY <3>1, <3>2 DEF HistoryTypeOK
  <2>5. ThreadingTypeOK' /\ StateTypeOK'
    BY DEF ThreadingTypeOK, StateTypeOK
  <2> QED
    BY <2>1, <2>2, <2>3, <2>4, <2>5 DEF ProgramTypeOK
<1>23. CASE SetVideoWait(c)
  <2> USE <1>23 DEF SetVideoWait, Goto, Return
  <2>1. SyncVarsTypeOK'
    BY DEF SyncVarsTypeOK
  <2>2. PlacesTypeOK'
    BY DEF PlacesTypeOK, ClientPlaces
  <2>3. CallTypeOK'
    BY DEF CallTypeOK
  <2>4. HistoryTypeOK'
    BY DEF HistoryTypeOK
  <2>5. ThreadingTypeOK' /\ StateTypeOK'
    BY DEF ThreadingTypeOK, StateTypeOK
  <2> QED
    BY <2>1, <2>2, <2>3, <2>4, <2>5 DEF ProgramTypeOK
<1> QED
    BY <1>1, <1>2, <1>3, <1>4, <1>5, <1>6, <1>7, <1>8, <1>9, <1>10, <1>11, <1>12, <1>13, <1>14,
     <1>15, <1>16, <1>17, <1>18, <1>19, <1>20, <1>21, <1>22, <1>23 DEF ClientStep

\* So does what a client does outside of a call.
LEMMA DrawTypes == ASSUME NEW c \in Clients PROVE ProgramTypeOK /\ Draw(c) => ProgramTypeOK'
<1> SUFFICES ASSUME ProgramTypeOK, Draw(c) PROVE ProgramTypeOK'
  OBVIOUS
<1> USE SyncAssumption, CoreThreadAssumption
        DEF ProgramTypeOK, Draw, Clients, Mutexes, Conditions,
            syncVars, flagVars, stateVars, cpuVars, callVars, historyVars
<1>1. StateTypeOK' /\ CallTypeOK' /\ HistoryTypeOK'
  BY DEF StateTypeOK, CallTypeOK, HistoryTypeOK
<1>2. CASE mCoreSyncWaitFrameStart(c)
  <2> USE <1>2 DEF mCoreSyncWaitFrameStart, TakeFrame, Section, Goto
  <2>1. ThreadingTypeOK'
    BY ConditionWakeEffect, WakeAndWaitEffect, MutexLockEffect DEF ThreadingTypeOK
  <2>2. SyncVarsTypeOK'
    BY DEF SyncVarsTypeOK
  <2>3. PlacesTypeOK'
    BY DEF PlacesTypeOK, ClientPlaces
  <2> QED
    BY <1>1, <2>1, <2>2, <2>3
<1>3. CASE FrameArrived(c)
  <2> USE <1>3 DEF FrameArrived, TakeFrame, Goto
  <2>1. ThreadingTypeOK' /\ SyncVarsTypeOK'
    BY MutexLockEffect DEF ThreadingTypeOK, SyncVarsTypeOK
  <2>2. PlacesTypeOK'
    BY DEF PlacesTypeOK, ClientPlaces
  <2> QED
    BY <1>1, <2>1, <2>2
<1>4. CASE FrameTimedOut(c)
  <2> USE <1>4 DEF FrameTimedOut, Step
  <2>1. ThreadingTypeOK' /\ SyncVarsTypeOK'
    BY MutexLockEffect DEF ThreadingTypeOK, SyncVarsTypeOK
  <2>2. PlacesTypeOK'
    BY DEF PlacesTypeOK, ClientPlaces
  <2> QED
    BY <1>1, <2>1, <2>2
<1>5. CASE mCoreSyncWaitFrameEnd(c)
  <2> USE <1>5 DEF mCoreSyncWaitFrameEnd, Step
  <2>1. ThreadingTypeOK' /\ SyncVarsTypeOK'
    BY MutexUnlockEffect DEF ThreadingTypeOK, SyncVarsTypeOK
  <2>2. PlacesTypeOK'
    BY DEF PlacesTypeOK, ClientPlaces
  <2> QED
    BY <1>1, <2>1, <2>2
<1> QED
  BY <1>2, <1>3, <1>4, <1>5 DEF Draw, Display

LEMMA RequestTypes ==
  ASSUME NEW c \in Clients, NEW op \in Calls
  PROVE  ProgramTypeOK /\ Request(c, op) => ProgramTypeOK'
<1> SUFFICES ASSUME ProgramTypeOK, Request(c, op) PROVE ProgramTypeOK'
  OBVIOUS
<1> USE SyncAssumption DEF ProgramTypeOK, Request, Clients, Step, syncVars, stateVars, cpuVars
<1>1. ThreadingTypeOK' /\ SyncVarsTypeOK' /\ StateTypeOK'
  BY DEF ThreadingTypeOK, SyncVarsTypeOK, StateTypeOK
<1>2. PlacesTypeOK'
  BY DEF PlacesTypeOK, ClientPlaces
<1>3. CallTypeOK'
  BY DEF CallTypeOK, SyncVarsTypeOK
<1>4. HistoryTypeOK'
  BY DEF HistoryTypeOK
<1> QED
  BY <1>1, <1>2, <1>3, <1>4

\* The rest: mCoreThreadStart and mCoreThreadJoin, the audio device, the end.
LEMMA OtherTypes ==
  ProgramTypeOK /\ (StartReturns \/ Join \/ AudioDevice \/ UNCHANGED programVars) => ProgramTypeOK'
<1> SUFFICES ASSUME ProgramTypeOK, StartReturns \/ Join \/ AudioDevice \/ UNCHANGED programVars PROVE ProgramTypeOK'
  OBVIOUS
<1> USE SyncAssumption, CoreThreadAssumption
        DEF ProgramTypeOK, Clients, Mutexes, Conditions,
            syncVars, flagVars, stateVars, cpuVars, callVars, historyVars, threadVars
<1>1. CASE StartReturns \/ Join
  <2> USE <1>1 DEF StartReturns, Join, Step, Section
  <2>1. PlacesTypeOK'
    BY DEF PlacesTypeOK, ClientPlaces
  <2>2. ThreadingTypeOK' /\ SyncVarsTypeOK'
    BY DEF ThreadingTypeOK, SyncVarsTypeOK
  <2>3. StateTypeOK' /\ CallTypeOK' /\ HistoryTypeOK'
    BY DEF StateTypeOK, CallTypeOK, HistoryTypeOK
  <2> QED
    BY <2>1, <2>2, <2>3
<1>2. CASE AudioDevice
  <2> USE <1>2 DEF AudioDevice, mCoreSyncConsumeAudio
  <2>1. ThreadingTypeOK'
    BY ConditionWakeEffect DEF ThreadingTypeOK
  <2>2. SyncVarsTypeOK'
    BY DEF SyncVarsTypeOK
  <2>3. PlacesTypeOK' /\ StateTypeOK' /\ CallTypeOK' /\ HistoryTypeOK'
    BY DEF PlacesTypeOK, StateTypeOK, CallTypeOK, HistoryTypeOK
  <2> QED
    BY <2>1, <2>2, <2>3
<1>3. CASE UNCHANGED programVars
  BY <1>3 DEF programVars, ThreadingTypeOK, SyncVarsTypeOK, PlacesTypeOK, StateTypeOK, CallTypeOK,
              HistoryTypeOK
<1> QED
  BY <1>1, <1>2, <1>3

LEMMA StepTypes == ProgramTypeOK /\ [Next]_vars => ProgramTypeOK'
BY CpuTypes, ClientTypes, DrawTypes, RequestTypes, OtherTypes DEF Next, Finished, vars

\* Every variable keeps its type: with any frontend the thread stays in the
\* states of enum mCoreThreadState, the mutexes and the conditions in theirs.
THEOREM ThreadTypesOK == Spec => []TypeOK
<1>1. Init => TypeOK
  BY InitTypes DEF Init, TypeOK
<1>2. TypeOK /\ [Next]_vars => TypeOK'
  BY StepTypes DEF TypeOK, Next, vars
<1> QED
  BY <1>1, <1>2, PTL DEF Spec

LEMMA ProgramTypesHold == Spec => []ProgramTypeOK
<1>1. TypeOK => ProgramTypeOK
  BY DEF TypeOK
<1> QED
  BY <1>1, ThreadTypesOK, PTL

--------------------------------------------------------------------------------
(* Wakeups *)

\* The inductive form of NoLostWakeup: besides the state, the place where the
\* CPU thread sleeps on stateCond.
AsleepParked ==
  CPU \in waiting["stateCond"] => pc[CPU] = "parked" /\ state \in WaitingStates

\* The CPU thread goes to sleep on stateCond in HandleState and in ParkAgain only,
\* and in a state that is to be waited for.
LEMMA CpuAsleepParked == ProgramTypeOK /\ AsleepParked /\ (CpuStep \/ RunLoopReturns \/ lineEntered) => AsleepParked'
<1> SUFFICES ASSUME ProgramTypeOK, AsleepParked, CpuStep \/ RunLoopReturns \/ lineEntered PROVE AsleepParked'
  OBVIOUS
<1> USE SyncAssumption
        DEF AsleepParked, Conditions, syncVars, stateVars, cpuVars, callVars, historyVars, WaitingStates
<1>0. ThreadingTypeOK /\ pc \in [Threads -> CpuPlaces \cup ClientPlaces]
  BY DEF ProgramTypeOK, PlacesTypeOK
<1>1. ASSUME NEW d, HandleState(d), CPU \notin waiting["stateCond"] PROVE AsleepParked'
  <2>1. CASE state = "INTERRUPTING"
    BY <1>0, <1>1, <2>1, WakeAndWaitEffect DEF HandleState, Goto, DeferredStates
  <2>2. CASE state \in WaitingStates
    BY <1>0, <1>1, <2>2 DEF HandleState, Goto, DeferredStates
  <2>3. CASE state \notin WaitingStates /\ state # "INTERRUPTING"
    BY <1>1, <2>3 DEF HandleState
  <2> QED
    BY <2>1, <2>2, <2>3
<1>2. CASE CpuLock
  BY <1>1, <1>2 DEF CpuLock
<1>3. CASE CpuWoken
  <2>1. CASE pc[CPU] = "parked" /\ audioWait /\ UNCHANGED <<state, waiting>>
    BY <1>3, <2>1 DEF CpuWoken, Awake
  <2>2. CASE state \in WaitingStates /\ ParkAgain
    BY <1>0, <2>2 DEF ParkAgain, Goto
  <2>3. CASE state \notin WaitingStates /\ ParkAgain
    BY <1>1, <1>3, <2>3 DEF ParkAgain, CpuWoken, Awake
  <2> QED
    BY <1>3, <2>1, <2>2, <2>3 DEF CpuWoken
<1>4. CASE CpuStart \/ CoreCrashes \/ PauseFromThreadVideoSync
  BY <1>0, <1>4, ConditionWakeEffect
     DEF CpuStart, CoreCrashes, PauseFromThreadVideoSync, Step, _changeVideoSync
<1>5. CASE CpuParkedAudio \/ CoreSyncStep
  <2>1. pc[CPU] # "parked" /\ waiting'["stateCond"] = waiting["stateCond"]
    BY <1>0, <1>5, ConditionWaitEffect, WakeAndWaitEffect, ConditionWakeEffect
       DEF CpuParkedAudio, CoreSyncStep, WaitForAudioRoom, mCoreSyncPostFrame, PostFrameWoken,
           OfferFrame, mCoreSyncProduceAudio, ProduceAudioWoken
  <2> QED
    BY <2>1
<1>6. CASE CpuLoop \/ CpuDeferred \/ CpuRestoreState \/ CpuExit \/ FrameEnded \/ RunLoopReturns
            \/ mCoreThreadPauseFromThread \/ mCoreThreadWaitFromThread
  BY <1>6 DEF CpuLoop, CpuDeferred, CpuRestoreState, CpuExit, FrameEnded, RunLoopReturns,
              mCoreThreadPauseFromThread, mCoreThreadWaitFromThread, Step
<1>7. CASE readLine \/ lineEntered
  BY <1>0, <1>7, ConditionWakeEffect DEF readLine, lineEntered, InterruptAtOnce, ContinueState, Step
<1> QED
  BY <1>2, <1>3, <1>4, <1>5, <1>6, <1>7 DEF CpuStep

\* A client that ends a state that is waited for wakes the CPU thread: each of
\* its calls by itself.
LEMMA ClientAsleepParked ==
  ASSUME NEW c \in Clients PROVE ProgramTypeOK /\ AsleepParked /\ ClientStep(c) => AsleepParked'
<1> SUFFICES ASSUME ProgramTypeOK, AsleepParked, ClientStep(c) PROVE AsleepParked'
  OBVIOUS
<1> USE SyncAssumption
        DEF AsleepParked, Clients, Conditions, syncVars, stateVars, cpuVars, callVars, historyVars
<1>0. ThreadingTypeOK /\ pc \in [Threads -> CpuPlaces \cup ClientPlaces]
  BY DEF ProgramTypeOK, PlacesTypeOK
<1>1. CASE _waitOnInterrupt(c)
  BY <1>0, <1>1, ConditionWaitEffect DEF _waitOnInterrupt, Goto
<1>2. CASE mCoreThreadInterrupt(c) \/ mCoreThreadInterruptFromThread(c)
  BY <1>0, <1>2, ConditionWakeEffect
     DEF mCoreThreadInterrupt, mCoreThreadInterruptFromThread, InterruptAtOnce,
         Return, StartWaiting, Goto, WaitingStates
<1>3. CASE mCoreThreadContinue(c) \/ mCoreThreadReset(c) \/ mCoreThreadStopWaiting(c)
  BY <1>0, <1>3, ConditionWakeEffect
     DEF mCoreThreadContinue, ContinueState, mCoreThreadReset, mCoreThreadStopWaiting, Return, Goto
<1>4. CASE mCoreThreadRunFunction(c) \/ mCoreThreadEnd(c)
  BY <1>0, <1>4, ConditionWakeEffect DEF mCoreThreadRunFunction, mCoreThreadEnd, StartWaiting, Goto
<1>5. CASE mCoreThreadPause(c)
  BY <1>0, <1>5, ConditionWakeEffect DEF mCoreThreadPause, StartWaiting, Goto, WaitingStates
<1>6. CASE mCoreThreadSetRewinding(c)
  BY <1>0, <1>6 DEF mCoreThreadSetRewinding, Return, Goto, WaitingStates
<1>7. CASE PauseVideoSync(c) \/ EndAudio(c) \/ EndVideo(c) \/ WakeVideo(c) \/ WakeAudio(c)
            \/ LockAgain(c)
  <2>1. pc'[CPU] = pc[CPU] /\ state' = state
    BY <1>0, <1>7 DEF PauseVideoSync, EndAudio, EndVideo, WakeVideo, WakeAudio, LockAgain,
       TestState, Return, Goto, Step
  <2>2. waiting'["stateCond"] \subseteq waiting["stateCond"]
    BY <1>0, <1>7, ConditionWakeEffect DEF PauseVideoSync, EndAudio, EndVideo, WakeVideo, WakeAudio,
       LockAgain, _changeVideoSync
  <2> QED
    BY <2>1, <2>2
<1>8. CASE ArmPauseAfterFrame(c) \/ SaveVideo(c) \/ SaveAudio(c) \/ RestoreAudio(c)
            \/ RestoreVideo(c) \/ SetAudioSync(c) \/ SetVideoWait(c)
  BY <1>0, <1>8 DEF ArmPauseAfterFrame, SaveVideo, SaveAudio, RestoreAudio, RestoreVideo,
     SetAudioSync, SetVideoWait, TestState, Return, Goto, Step
<1> QED
  BY <1>1, <1>2, <1>3, <1>4, <1>5, <1>6, <1>7, <1>8 DEF ClientStep

\* Nothing else touches the sleepers of stateCond or the state.
LEMMA OthersLeaveState ==
  ASSUME ProgramTypeOK,
         \/ StartReturns \/ Join \/ AudioDevice \/ UNCHANGED programVars
         \/ \E c \in Clients : Draw(c) \/ \E op \in Calls : Request(c, op)
  PROVE  /\ UNCHANGED stateVars /\ deferred' = deferred
         /\ pc'[CPU] = pc[CPU] /\ waiting'["stateCond"] = waiting["stateCond"]
<1> USE SyncAssumption, CoreThreadAssumption
        DEF Clients, Conditions, syncVars, stateVars, cpuVars, threadVars
<1>0. ThreadingTypeOK /\ pc \in [Threads -> CpuPlaces \cup ClientPlaces]
  BY DEF ProgramTypeOK, PlacesTypeOK
<1>1. CASE StartReturns \/ Join \/ UNCHANGED programVars
  BY <1>0, <1>1 DEF StartReturns, Join, Step, programVars
<1>2. CASE AudioDevice
  BY <1>0, <1>2, ConditionWakeEffect DEF AudioDevice, mCoreSyncConsumeAudio
<1>3. ASSUME NEW c \in Clients, Draw(c)
      PROVE  /\ UNCHANGED stateVars /\ deferred' = deferred
             /\ pc'[CPU] = pc[CPU] /\ waiting'["stateCond"] = waiting["stateCond"]
  <2>1. UNCHANGED stateVars /\ deferred' = deferred
    BY <1>3 DEF Draw
  <2>2. pc'[CPU] = pc[CPU]
    BY <1>0, <1>3 DEF Draw, Display, mCoreSyncWaitFrameStart, FrameArrived, FrameTimedOut,
       mCoreSyncWaitFrameEnd, TakeFrame, Goto, Step
  <2>3. waiting'["stateCond"] = waiting["stateCond"]
    BY <1>0, <1>3, ConditionWakeEffect, WakeAndWaitEffect DEF Draw, Display, mCoreSyncWaitFrameStart,
       FrameArrived, FrameTimedOut, mCoreSyncWaitFrameEnd, ThreadingTypeOK
  <2> QED
    BY <2>1, <2>2, <2>3
<1>4. ASSUME NEW c \in Clients, NEW op \in Calls, Request(c, op)
      PROVE  /\ UNCHANGED stateVars /\ deferred' = deferred
             /\ pc'[CPU] = pc[CPU] /\ waiting'["stateCond"] = waiting["stateCond"]
  BY <1>0, <1>4 DEF Request, Step
<1> QED
  BY <1>1, <1>2, <1>3, <1>4

LEMMA StepAsleepParked == ProgramTypeOK /\ AsleepParked /\ [Next]_vars => AsleepParked'
<1> SUFFICES ASSUME ProgramTypeOK, AsleepParked, [Next]_vars PROVE AsleepParked'
  OBVIOUS
<1>1. CASE CpuStep \/ RunLoopReturns \/ lineEntered
  BY <1>1, CpuAsleepParked
<1>2. CASE \E c \in Clients : ClientStep(c)
  BY <1>2, ClientAsleepParked
<1>3. CASE \/ StartReturns \/ Join \/ AudioDevice \/ UNCHANGED programVars
           \/ \E c \in Clients : Draw(c) \/ \E op \in Calls : Request(c, op)
  BY <1>3, OthersLeaveState DEF AsleepParked, stateVars
<1> QED
  BY <1>1, <1>2, <1>3 DEF Next, Finished, vars

\* With any frontend, no call that ends a state the CPU thread sleeps through
\* leaves it asleep: not End, Reset, Continue, RunFunction or StopWaiting.
THEOREM NoWakeupIsLost == Spec => []NoLostWakeup
<1>1. Init => AsleepParked
  BY SyncAssumption, CoreThreadAssumption DEF Init, AsleepParked, Clients, Conditions
<1>2. AsleepParked => NoLostWakeup
  BY DEF AsleepParked, NoLostWakeup, Awake
<1> QED
  BY <1>1, <1>2, StepAsleepParked, ProgramTypesHold, PTL DEF Spec

--------------------------------------------------------------------------------
(* Interruptions *)

\* The inductive form of InterruptionsEnd: the state that mCoreThreadRunFunction
\* saved is on its way back through a local of the CPU thread.
InterruptIInv ==
  /\ InterruptionsEnd
  /\ pc[CPU] = "store" => deferred \notin {"INTERRUPTED", "INTERRUPTING"}

LEMMA CpuInterruptIInv ==
  ProgramTypeOK /\ InterruptIInv /\ (CpuStep \/ RunLoopReturns \/ lineEntered) => InterruptIInv'
<1> SUFFICES ASSUME ProgramTypeOK, InterruptIInv, CpuStep \/ RunLoopReturns \/ lineEntered PROVE InterruptIInv'
  OBVIOUS
<1> USE SyncAssumption DEF InterruptIInv, InterruptionsEnd, Interrupted,
                           syncVars, stateVars, cpuVars, callVars, historyVars
<1>0. /\ pc \in [Threads -> CpuPlaces \cup ClientPlaces]
      /\ interruptDepth \in Int
  BY DEF ProgramTypeOK, PlacesTypeOK, StateTypeOK
<1>1. CASE CpuLock \/ CpuWoken
  <2>1. pc'[CPU] # "store" /\ UNCHANGED <<savedState, interruptDepth>>
    BY <1>0, <1>1 DEF CpuLock, CpuWoken, ParkAgain, HandleState, Goto
  <2>2. state' \in {"INTERRUPTED", "INTERRUPTING"} => state \in {"INTERRUPTED", "INTERRUPTING"}
    BY <1>1 DEF CpuLock, CpuWoken, ParkAgain, HandleState, DeferredStates, WaitingStates
  <2> QED
    BY <2>1, <2>2
<1>2. CASE CpuRestoreState
  BY <1>0, <1>2 DEF CpuRestoreState, Step
<1>3. CASE CpuStart \/ CpuLoop \/ CpuDeferred \/ CpuExit \/ RunLoopReturns \/ FrameEnded
  BY <1>0, <1>3 DEF CpuStart, CpuLoop, CpuDeferred, CpuExit, RunLoopReturns, FrameEnded, Step
<1>4. CASE \/ mCoreThreadPauseFromThread \/ PauseFromThreadVideoSync
           \/ mCoreThreadWaitFromThread \/ CoreCrashes
  BY <1>0, <1>4 DEF mCoreThreadPauseFromThread, PauseFromThreadVideoSync,
                    mCoreThreadWaitFromThread, CoreCrashes, Step
<1>5. CASE CpuParkedAudio \/ CoreSyncStep
  <2>1. pc'[CPU] # "store" /\ UNCHANGED <<stateVars, deferred>>
    BY <1>0, <1>5 DEF CpuParkedAudio, CoreSyncStep, WaitForAudioRoom, mCoreSyncPostFrame,
       PostFrameWoken, OfferFrame, mCoreSyncProduceAudio, ProduceAudioWoken, Goto
  <2> QED
    BY <2>1
<1>6. CASE readLine \/ lineEntered
  BY <1>0, <1>6 DEF readLine, lineEntered, InterruptAtOnce, ContinueState, LastInterrupt,
                    mCoreThreadIsActive, ExitStates, Step
<1> QED
  BY <1>1, <1>2, <1>3, <1>4, <1>5, <1>6 DEF CpuStep

\* mCoreThreadInterrupt saves a state only at depth 0, where there is no
\* interruption, and the last mCoreThreadContinue brings that state back.
LEMMA ClientInterruptIInv ==
  ASSUME NEW c \in Clients PROVE ProgramTypeOK /\ InterruptIInv /\ ClientStep(c) => InterruptIInv'
<1> SUFFICES ASSUME ProgramTypeOK, InterruptIInv, ClientStep(c) PROVE InterruptIInv'
  OBVIOUS
<1> USE SyncAssumption DEF InterruptIInv, InterruptionsEnd, Interrupted, Clients,
                           syncVars, stateVars, cpuVars, callVars, historyVars
<1>0. /\ pc \in [Threads -> CpuPlaces \cup ClientPlaces]
      /\ interruptDepth \in Int
  BY DEF ProgramTypeOK, PlacesTypeOK, StateTypeOK
<1>1. pc'[CPU] = pc[CPU]
  BY <1>0 DEF ClientStep, _waitOnInterrupt, mCoreThreadInterrupt, mCoreThreadInterruptFromThread,
     mCoreThreadContinue, mCoreThreadRunFunction, mCoreThreadReset, mCoreThreadStopWaiting,
     mCoreThreadSetRewinding, mCoreThreadPause, PauseVideoSync, ArmPauseAfterFrame, mCoreThreadEnd,
     EndAudio, EndVideo, SaveVideo, SaveAudio, WakeVideo, WakeAudio, LockAgain, RestoreAudio,
     RestoreVideo, SetAudioSync, SetVideoWait, TestState, StartWaiting, Return, Goto, Step
<1>2. CASE mCoreThreadInterrupt(c) \/ mCoreThreadInterruptFromThread(c)
  BY <1>0, <1>1, <1>2 DEF mCoreThreadInterrupt, mCoreThreadInterruptFromThread,
                          InterruptAtOnce, mCoreThreadIsActive, ExitStates
<1>3. CASE mCoreThreadContinue(c)
  BY <1>0, <1>1, <1>3 DEF mCoreThreadContinue, ContinueState, LastInterrupt, mCoreThreadIsActive, ExitStates
<1>4. CASE mCoreThreadRunFunction(c) \/ mCoreThreadReset(c) \/ mCoreThreadStopWaiting(c)
            \/ mCoreThreadSetRewinding(c) \/ mCoreThreadPause(c) \/ mCoreThreadEnd(c)
  BY <1>1, <1>4 DEF mCoreThreadRunFunction, mCoreThreadReset, mCoreThreadStopWaiting,
                    mCoreThreadSetRewinding, mCoreThreadPause, mCoreThreadEnd
<1>5. CASE \/ _waitOnInterrupt(c) \/ PauseVideoSync(c) \/ ArmPauseAfterFrame(c) \/ EndAudio(c)
           \/ EndVideo(c) \/ SaveVideo(c) \/ SaveAudio(c) \/ WakeVideo(c) \/ WakeAudio(c)
           \/ LockAgain(c) \/ RestoreAudio(c) \/ RestoreVideo(c) \/ SetAudioSync(c) \/ SetVideoWait(c)
  BY <1>1, <1>5 DEF _waitOnInterrupt, PauseVideoSync, ArmPauseAfterFrame, EndAudio, EndVideo,
     SaveVideo, SaveAudio, WakeVideo, WakeAudio, LockAgain, RestoreAudio, RestoreVideo,
     SetAudioSync, SetVideoWait
<1> QED
  BY <1>2, <1>3, <1>4, <1>5 DEF ClientStep

LEMMA StepInterruptIInv == ProgramTypeOK /\ InterruptIInv /\ [Next]_vars => InterruptIInv'
<1> SUFFICES ASSUME ProgramTypeOK, InterruptIInv, [Next]_vars PROVE InterruptIInv'
  OBVIOUS
<1>1. CASE CpuStep \/ RunLoopReturns \/ lineEntered
  BY <1>1, CpuInterruptIInv
<1>2. CASE \E c \in Clients : ClientStep(c)
  BY <1>2, ClientInterruptIInv
<1>3. CASE \/ StartReturns \/ Join \/ AudioDevice \/ UNCHANGED programVars
           \/ \E c \in Clients : Draw(c) \/ \E op \in Calls : Request(c, op)
  BY <1>3, OthersLeaveState DEF InterruptIInv, InterruptionsEnd, Interrupted, stateVars
<1> QED
  BY <1>1, <1>2, <1>3 DEF Next, Finished, vars

\* An interruption is always somebody's to continue, and continuing the last one
\* brings back a state that is no interruption, with any frontend: the threads
\* that sleep in _waitOnInterrupt are not left there.
THEOREM InterruptionsComeToAnEnd == Spec => []InterruptionsEnd
<1>1. Init => InterruptIInv
  BY SyncAssumption, CoreThreadAssumption
     DEF Init, InterruptIInv, InterruptionsEnd, Interrupted, Clients
<1>2. InterruptIInv => InterruptionsEnd
  BY DEF InterruptIInv
<1> QED
  BY <1>1, <1>2, StepInterruptIInv, ProgramTypesHold, PTL DEF Spec
================================================================================
