------------------------------ MODULE SharedProofs ------------------------------
(***************************************************************************)
(* Theorems about CoreThread with a frontend that makes calls which wait,  *)
(* interrupt or end from several threads, as that of platform/qt does for  *)
(* a linked game: when one of its games ends, its CPU thread interrupts    *)
(* the others (MultiplayerController::detachGame).                         *)
(***************************************************************************)
EXTENDS CallerProofs, FiniteSetTheorems

--------------------------------------------------------------------------------
(* What the theorems ask, and what holds with it *)

\* What the theorems about several callers ask of a frontend: any of its clients interrupts,
\* pauses, ends a wait or rewinds, but none of them runs a function, advances by a frame or
\* declares an interruption complete; the one who ends the thread is the one who resets it.
Shared ==
  /\ \A c \in Clients : ~Requests(c, {"InterruptFromThread", "RunFunction", "FrameAdvance"})
  /\ frontend.cpuCalls \subseteq {"WaitFromThread"}
  /\ \A c, d \in Clients : Requests(c, {"Reset"}) /\ Requests(d, {"End"}) => c = d
  /\ ~LateCalls

\* The interrupts to be continued, one by one.
Interrupts == {i \in Clients \X Nat : 1 <= i[2] /\ i[2] <= held[i[1]]}

\* interruptDepth counts them, whoever holds them.
Tallied ==
  /\ \A c \in Clients : held[c] >= 0
  /\ IsFiniteSet(Interrupts) /\ interruptDepth = Cardinality(Interrupts)
  /\ \A c \in Clients : call[c] = "Continue" => held[c] > 0
  /\ \A c \in Clients : (pc[c] \in WaitPlaces /\ call[c] = "Interrupt") => held[c] > 0

\* The CPU thread neither runs functions nor pauses itself.
NoDetours ==
  /\ ~frameCallback
  /\ pc[CPU] \notin {"prompt", "pauseFromThread", "videoSync", "restore", "store"}
  /\ "RUN_ON" \notin {state, savedState, deferred}

\* Only the end takes an interruption from those who hold it.
HeldOn ==
  /\ interruptDepth > 0 => Interrupted \/ state \in ExitStates
  /\ pc[CPU] \in {"exit", "shutdown", "done"} => state \in ExitStates
  /\ savedState \notin ExitStates
  /\ \A c \in Clients : call[c] = "Reset" => state \notin ExitStates

\* An interruption lasts until all who were granted it have continued.
GrantsHold ==
  /\ \A c \in Clients : granted[c] => held[c] > 0 /\ state = "INTERRUPTED"
  /\ \A c \in Clients : (pc[c] \in {"restoreAudio", "restoreVideo"} /\ call[c] = "Interrupt")
       => state # "INTERRUPTING"

\* A pause is one the CPU thread has begun.
PausesReal ==
  PauseAhead => CoreStopped \/ pc[CPU] \in {"deferred", "loop", "inner", "lock"}

SharedInv ==
  /\ Tallied /\ NoDetours /\ HeldOn /\ GrantsHold /\ PausesReal
  /\ InterruptedIsStopped /\ SleepsInterrupted

\* An interruption that is not answered yet is that of a client who waits for the answer.
Awaited ==
  state = "INTERRUPTING" => \E d \in Clients : call[d] = "Interrupt" /\ pc[d] \in WaitPlaces

SharedBase == ProgramTypeOK /\ CallsInPlace /\ Shared /\ Started /\ InterruptIInv

--------------------------------------------------------------------------------
(* Counting interrupts *)

\* An interrupt taken is one more.
LEMMA InterruptTaken ==
  ASSUME held \in [Clients -> Int], NEW c \in Clients, held[c] >= 0, IsFiniteSet(Interrupts),
         held' = [held EXCEPT ![c] = @ + 1]
  PROVE  IsFiniteSet(Interrupts)' /\ Cardinality(Interrupts)' = Cardinality(Interrupts) + 1
<1> DEFINE i == <<c, held[c] + 1>>
<1>1. i \in Clients \X Nat /\ i \notin Interrupts
  BY DEF Interrupts
<1>2. held' \in [Clients -> Int] /\ held'[c] = held[c] + 1 /\ \A d \in Clients \ {c} : held'[d] = held[d]
  OBVIOUS
<1>3. ASSUME NEW j \in Clients \X Nat PROVE j \in Interrupts' <=> j \in Interrupts \cup {i}
  <2>1. PICK d \in Clients, k \in Nat : j = <<d, k>>
    OBVIOUS
  <2>2. j \in Interrupts <=> 1 <= k /\ k <= held[d]
    BY <2>1 DEF Interrupts
  <2>3. j \in Interrupts' <=> 1 <= k /\ k <= held'[d]
    BY <2>1 DEF Interrupts
  <2>4. j = i <=> d = c /\ k = held[c] + 1
    BY <2>1
  <2> QED
    BY <1>2, <2>2, <2>3, <2>4
<1>4. Interrupts' \subseteq Clients \X Nat /\ Interrupts \subseteq Clients \X Nat
  BY DEF Interrupts
<1> HIDE DEF i
<1>5. Interrupts' = Interrupts \cup {i}
  BY <1>1, <1>3, <1>4
<1> QED
  BY <1>1, <1>5, FS_AddElement

\* An interrupt given back is one less.
LEMMA InterruptGiven ==
  ASSUME held \in [Clients -> Int], NEW c \in Clients, held[c] > 0, IsFiniteSet(Interrupts),
         held' = [held EXCEPT ![c] = @ - 1]
  PROVE  IsFiniteSet(Interrupts)' /\ Cardinality(Interrupts)' = Cardinality(Interrupts) - 1
<1> DEFINE i == <<c, held[c]>>
<1>1. i \in Clients \X Nat /\ i \in Interrupts
  BY DEF Interrupts
<1>2. held' \in [Clients -> Int] /\ held'[c] = held[c] - 1 /\ \A d \in Clients \ {c} : held'[d] = held[d]
  OBVIOUS
<1>3. ASSUME NEW j \in Clients \X Nat PROVE j \in Interrupts' <=> j \in Interrupts \ {i}
  <2>1. PICK d \in Clients, k \in Nat : j = <<d, k>>
    OBVIOUS
  <2>2. j \in Interrupts <=> 1 <= k /\ k <= held[d]
    BY <2>1 DEF Interrupts
  <2>3. j \in Interrupts' <=> 1 <= k /\ k <= held'[d]
    BY <2>1 DEF Interrupts
  <2>4. j = i <=> d = c /\ k = held[c]
    BY <2>1
  <2> QED
    BY <1>2, <2>2, <2>3, <2>4
<1>4. Interrupts' \subseteq Clients \X Nat /\ Interrupts \subseteq Clients \X Nat
  BY DEF Interrupts
<1> HIDE DEF i
<1>5. Interrupts' = Interrupts \ {i}
  BY <1>1, <1>3, <1>4
<1> QED
  BY <1>1, <1>5, FS_RemoveElement

\* There is an interrupt exactly if somebody holds one; one that is the only one is all there is.
LEMMA WhoHolds ==
  ASSUME ProgramTypeOK, Tallied
  PROVE  /\ interruptDepth >= 0
         /\ interruptDepth > 0 <=> \E c \in Clients : held[c] > 0
         /\ \A c, d \in Clients : interruptDepth < 2 /\ held[c] > 0 /\ held[d] > 0 => c = d /\ held[c] = 1
<1>0. held \in [Clients -> Int] /\ interruptDepth \in Int
  BY DEF ProgramTypeOK, StateTypeOK, HistoryTypeOK
<1>1. IsFiniteSet(Interrupts) /\ interruptDepth = Cardinality(Interrupts)
  BY DEF Tallied
<1>2. interruptDepth \in Nat
  BY <1>1, FS_CardinalityType
<1>3. interruptDepth = 0 <=> Interrupts = {}
  BY <1>1, FS_EmptySet
<1>4. ASSUME NEW c \in Clients, held[c] > 0 PROVE <<c, held[c]>> \in Interrupts /\ <<c, 1>> \in Interrupts
  BY <1>0, <1>4 DEF Interrupts
<1>5. ASSUME Interrupts # {} PROVE \E c \in Clients : held[c] > 0
  <2>1. PICK i \in Clients \X Nat : 1 <= i[2] /\ i[2] <= held[i[1]]
    BY <1>5 DEF Interrupts
  <2>2. i[1] \in Clients /\ i[2] \in Nat
    OBVIOUS
  <2> QED
    BY <1>0, <2>1, <2>2
<1>6. ASSUME NEW c \in Clients, NEW d \in Clients, interruptDepth < 2, held[c] > 0, held[d] > 0
      PROVE  c = d /\ held[c] = 1
  <2>1. interruptDepth = 1
    <3>1. Interrupts # {}
      BY <1>4, <1>6
    <3> QED
      BY <1>2, <1>3, <1>6, <3>1
  <2>2. PICK x : Interrupts = {x}
    BY <1>1, <2>1, FS_Singleton
  <2>3. <<c, held[c]>> = x /\ <<d, held[d]>> = x /\ <<c, 1>> = x
    BY <1>4, <1>6, <2>2
  <2> QED
    BY <2>3
<1>7. interruptDepth > 0 <=> Interrupts # {}
  BY <1>2, <1>3
<1>8. interruptDepth > 0 <=> \E c \in Clients : held[c] > 0
  BY <1>4, <1>5, <1>7
<1> QED
  BY <1>2, <1>6, <1>8

--------------------------------------------------------------------------------
(* The CPU thread *)

\* What the CPU thread may do with such a frontend, and that it leaves the calls alone.
LEMMA CpuDoes ==
  ASSUME SharedBase, SharedInv, CpuStep \/ RunLoopReturns \/ lineEntered
  PROVE  /\ CpuStart \/ CpuLoop \/ CpuLock \/ CpuWoken \/ CpuDeferred \/ CpuExit \/ RunLoopReturns
            \/ FrameEnded \/ mCoreThreadWaitFromThread \/ CpuParkedAudio \/ CoreSyncStep
         /\ UNCHANGED <<interruptDepth, held, granted, call>> /\ \A c \in Clients : pc'[c] = pc[c]
<1>1. /\ ~readLine /\ ~lineEntered /\ ~CoreCrashes /\ ~CpuRestoreState
      /\ ~mCoreThreadPauseFromThread /\ ~PauseFromThreadVideoSync
  <2>1. ~readLine /\ ~CoreCrashes
    BY DEF readLine, Debugging, CoreCrashes, SharedBase, Shared
  <2> QED
    BY <2>1 DEF lineEntered, CpuRestoreState, mCoreThreadPauseFromThread, PauseFromThreadVideoSync,
       Step, SharedInv, NoDetours
<1>2. UNCHANGED <<held, granted, call>> /\ \A c \in Clients : pc'[c] = pc[c]
  BY CpuLeavesClients DEF SharedBase
<1>3. CpuStart \/ CpuLoop \/ CpuLock \/ CpuWoken \/ CpuDeferred \/ CpuExit \/ RunLoopReturns
      \/ FrameEnded \/ mCoreThreadWaitFromThread \/ CpuParkedAudio \/ CoreSyncStep
  BY <1>1 DEF CpuStep
<1>4. UNCHANGED interruptDepth
  BY <1>3 DEF CpuStart, CpuLoop, CpuLock, CpuWoken, CpuDeferred, CpuExit, RunLoopReturns,
     FrameEnded, mCoreThreadWaitFromThread, CpuParkedAudio, CoreSyncStep, stateVars
<1> QED
  BY <1>2, <1>3, <1>4

\* What the CPU thread does to the states.
LEMMA CpuStates ==
  ASSUME SharedBase, SharedInv, CpuStep \/ RunLoopReturns \/ lineEntered
  PROVE  /\ Interrupted' <=> Interrupted
         /\ state' \in ExitStates <=> state \in ExitStates
         /\ state = "INTERRUPTED" => state' = "INTERRUPTED"
         /\ state' = "INTERRUPTED" => state = "INTERRUPTED" \/ pc'[CPU] = "parked"
         /\ state' = "INTERRUPTING" => state = "INTERRUPTING"
         /\ state' = "PAUSED" => state = "PAUSED" \/ pc'[CPU] = "deferred"
         /\ savedState' = savedState \/ savedState' = "WAITING"
         /\ NoDetours'
<1> USE SyncAssumption, CpuDoes DEF syncVars, stateVars, cpuVars, SharedInv, NoDetours
<1>0. pc \in [Threads -> CpuPlaces \cup ClientPlaces]
  BY DEF SharedBase, ProgramTypeOK, PlacesTypeOK
<1>1. CASE CpuStart
  <2>1. state = "INITIALIZED"
    BY <1>1 DEF CpuStart, Step, SharedBase, Started
  <2> QED
    BY <1>0, <1>1, <2>1 DEF CpuStart, Step, Interrupted, ExitStates
<1>2. CASE CpuLoop \/ CpuDeferred \/ RunLoopReturns \/ FrameEnded
  <2>1. UNCHANGED <<state, savedState, deferred, frameCallback>> \/ (FrameEnded /\ ~frameCallback')
    BY <1>2 DEF CpuLoop, CpuDeferred, RunLoopReturns, FrameEnded
  <2>2. UNCHANGED <<state, savedState, deferred>>
    BY <1>2 DEF CpuLoop, CpuDeferred, RunLoopReturns, FrameEnded
  <2>3. pc'[CPU] \in {"inner", "exit", "core", "lock", "loop", "post"}
    BY <1>0, <1>2 DEF CpuLoop, CpuDeferred, RunLoopReturns, FrameEnded, Step
  <2> QED
    BY <2>1, <2>2, <2>3 DEF Interrupted
<1>3. CASE CpuLock \/ CpuWoken
  <2>1. /\ pc'[CPU] \in {"deferred", "parked", "parkedAudio"}
        /\ UNCHANGED <<savedState, frameCallback>>
    BY <1>0, <1>3 DEF CpuLock, CpuWoken, ParkAgain, HandleState, Goto
  <2>2. /\ Interrupted' <=> Interrupted
        /\ state' \in ExitStates <=> state \in ExitStates
        /\ state = "INTERRUPTED" => state' = "INTERRUPTED"
        /\ state' = "INTERRUPTING" => state = "INTERRUPTING"
        /\ state' # "RUN_ON"
    BY <1>3 DEF CpuLock, CpuWoken, ParkAgain, HandleState, DeferredStates, WaitingStates,
       ExitStates, Interrupted
  <2>3. /\ state' = "INTERRUPTED" => state = "INTERRUPTED" \/ pc'[CPU] = "parked"
        /\ state' = "PAUSED" => state = "PAUSED" \/ pc'[CPU] = "deferred"
    BY <1>0, <1>3 DEF CpuLock, CpuWoken, ParkAgain, HandleState, DeferredStates, WaitingStates, Goto
  <2>4. deferred' # "RUN_ON"
    BY <1>3 DEF CpuLock, CpuWoken, ParkAgain, HandleState, DeferredStates, WaitingStates
  <2> QED
    BY <2>1, <2>2, <2>3, <2>4
<1>4. CASE CpuExit
  <2>1. pc[CPU] \in {"exit", "shutdown"} /\ state \in ExitStates
    BY <1>4 DEF CpuExit, Step, HeldOn
  <2> QED
    BY <1>0, <1>4, <2>1 DEF CpuExit, Step, Interrupted, ExitStates
<1>5. CASE mCoreThreadWaitFromThread
  BY <1>0, <1>5 DEF mCoreThreadWaitFromThread, Interrupted, ExitStates
<1>6. CASE CpuParkedAudio \/ CoreSyncStep
  <2>1. UNCHANGED <<state, savedState, deferred, frameCallback>>
    BY <1>6 DEF CpuParkedAudio, CoreSyncStep
  <2>2. pc'[CPU] \notin {"prompt", "pauseFromThread", "videoSync", "restore", "store"}
    BY <1>0, <1>6 DEF CpuParkedAudio, CoreSyncStep, WaitForAudioRoom, mCoreSyncPostFrame,
       PostFrameWoken, OfferFrame, mCoreSyncProduceAudio, ProduceAudioWoken, Goto
  <2> QED
    BY <2>1, <2>2 DEF Interrupted
<1> QED
  BY <1>1, <1>2, <1>3, <1>4, <1>5, <1>6

\* Stopped, the CPU thread stays where a stopped or paused core has it, and ends only by the end.
LEMMA CpuKeepsPlaces ==
  ASSUME SharedBase, SharedInv, CpuStep \/ RunLoopReturns \/ lineEntered
  PROVE  /\ pc'[CPU] \in {"exit", "shutdown", "done"} => state' \in ExitStates
         /\ state = "INTERRUPTED" /\ CoreStopped => CoreStopped'
         /\ PauseAhead' => CoreStopped' \/ pc'[CPU] \in {"deferred", "loop", "inner", "lock"}
<1> USE SyncAssumption, CpuDoes, CpuStates DEF SharedInv
<1>0. pc \in [Threads -> CpuPlaces \cup ClientPlaces]
  BY DEF SharedBase, ProgramTypeOK, PlacesTypeOK
<1>1. pc'[CPU] \in {"exit", "shutdown", "done"} => state' \in ExitStates
  <2>1. CASE CpuLoop \/ CpuExit
    BY <1>0, <2>1 DEF CpuLoop, CpuExit, Step, HeldOn, stateVars
  <2>2. CASE CpuStart \/ CpuLock \/ CpuWoken \/ CpuDeferred \/ RunLoopReturns \/ FrameEnded
    BY <1>0, <2>2 DEF CpuStart, CpuLock, CpuWoken, CpuDeferred, RunLoopReturns, FrameEnded, ParkAgain,
       HandleState, Step, Goto
  <2>3. CASE mCoreThreadWaitFromThread
    BY <1>0, <2>3 DEF mCoreThreadWaitFromThread
  <2>4. CASE CpuParkedAudio \/ CoreSyncStep
    BY <1>0, <2>4 DEF CpuParkedAudio, CoreSyncStep, WaitForAudioRoom, mCoreSyncPostFrame,
       PostFrameWoken, OfferFrame, mCoreSyncProduceAudio, ProduceAudioWoken, Goto
  <2> QED
    BY <2>1, <2>2, <2>3, <2>4
<1>2. ASSUME state = "INTERRUPTED", CoreStopped PROVE CoreStopped'
  <2>1. CpuWoken \/ CpuParkedAudio
    BY <1>2 DEF CoreStopped, CpuStart, CpuLoop, CpuLock, CpuDeferred, CpuExit, RunLoopReturns,
       FrameEnded, mCoreThreadWaitFromThread, CoreSyncStep, mCoreSyncPostFrame, PostFrameWoken,
       mCoreSyncProduceAudio, ProduceAudioWoken, Step
  <2> QED
    BY <1>0, <1>2, <2>1 DEF CpuWoken, CpuParkedAudio, ParkAgain, WaitingStates, WaitForAudioRoom, Goto,
       CoreStopped
<1>3. ASSUME PauseAhead', pc'[CPU] # "deferred"
      PROVE  CoreStopped' \/ pc'[CPU] \in {"loop", "inner", "lock"}
  <2>1. PauseAhead
    BY <1>3 DEF PauseAhead, NoDetours
  <2>2. pc[CPU] \in {"parked", "parkedAudio", "parkedBlocked", "relock", "deferred", "loop", "inner", "lock"}
    BY <2>1 DEF PausesReal, CoreStopped
  <2>3. state \notin ExitStates \cup RunningStates /\ ~Debugging
    BY <2>1 DEF PauseAhead, Interrupted, ExitStates, RunningStates, NoDetours, SharedBase, Shared, Debugging
  <2>4. CASE CpuLock \/ CpuWoken \/ CpuDeferred
    BY <1>0, <1>3, <2>4 DEF CpuLock, CpuWoken, CpuDeferred, ParkAgain, HandleState, Step, Goto,
       CoreStopped, NoDetours
  <2>5. CASE CpuLoop
    BY <1>0, <2>2, <2>3, <2>5 DEF CpuLoop, Step
  <2>6. CASE CpuParkedAudio
    BY <1>0, <2>6 DEF CpuParkedAudio, WaitForAudioRoom, Goto, CoreStopped
  <2>7. ~(CpuStart \/ CpuExit \/ RunLoopReturns \/ FrameEnded \/ mCoreThreadWaitFromThread \/ CoreSyncStep)
    BY <2>2 DEF CpuStart, CpuExit, RunLoopReturns, FrameEnded, mCoreThreadWaitFromThread, CoreSyncStep,
       mCoreSyncPostFrame, PostFrameWoken, mCoreSyncProduceAudio, ProduceAudioWoken, Step
  <2> QED
    BY <2>4, <2>5, <2>6, <2>7
<1> QED
  BY <1>1, <1>2, <1>3

LEMMA CpuSharedInv ==
  ASSUME SharedBase, SharedInv, CpuStep \/ RunLoopReturns \/ lineEntered
  PROVE  SharedInv' /\ StaysEnded
<1> USE SyncAssumption, CpuDoes, CpuStates, CpuKeepsPlaces
<1>1. Tallied'
  <2>1. Interrupts' = Interrupts
    BY DEF Interrupts
  <2> QED
    BY <2>1 DEF SharedInv, Tallied
<1>2. HeldOn' /\ StaysEnded
  BY DEF SharedInv, HeldOn, ExitStates, StaysEnded
<1>3. GrantsHold'
  BY DEF SharedInv, GrantsHold
<1>4. PausesReal' /\ InterruptedIsStopped'
  BY DEF SharedInv, PausesReal, InterruptedIsStopped, CoreStopped
<1>5. SleepsInterrupted'
  <2> SUFFICES ASSUME NEW c \in Clients, pc'[c] = "resume", c \in waiting'["stateCond"]
               PROVE  Interrupted'
    BY DEF SleepsInterrupted
  <2>0. ThreadingTypeOK /\ c # CPU
    BY DEF SharedBase, ProgramTypeOK, Clients
  <2>1. ASSUME CpuLock \/ CpuWoken PROVE c \in waiting["stateCond"]
    <3>1. \/ UNCHANGED waiting \/ ConditionWait("stateCond", CPU)
          \/ WakeAndWait({"stateCond"}, "stateCond", CPU)
      BY <2>1 DEF CpuLock, CpuWoken, ParkAgain, HandleState
    <3>2. ~WakeAndWait({"stateCond"}, "stateCond", CPU) \/ c \notin waiting'["stateCond"]
      BY <2>0, WakeAndWaitEffect DEF Conditions
    <3>3. ConditionWait("stateCond", CPU) => c \in waiting["stateCond"]
      BY <2>0, ConditionWaitEffect DEF Conditions
    <3> QED
      BY <3>1, <3>2, <3>3
  <2>2. ASSUME CpuParkedAudio \/ CoreSyncStep PROVE c \in waiting["stateCond"]
    <3>1. waiting'["stateCond"] = waiting["stateCond"]
      BY <2>0, <2>2, ConditionWaitEffect, WakeAndWaitEffect, ConditionWakeEffect
         DEF CpuParkedAudio, CoreSyncStep, WaitForAudioRoom, mCoreSyncPostFrame, PostFrameWoken,
         OfferFrame, mCoreSyncProduceAudio, ProduceAudioWoken, Conditions
    <3> QED
      BY <3>1
  <2>3. ASSUME CpuStart PROVE c \in waiting["stateCond"]
    BY <2>0, <2>3, ConditionWakeEffect DEF CpuStart, Conditions
  <2>4. ASSUME CpuLoop \/ CpuDeferred \/ CpuExit \/ RunLoopReturns \/ FrameEnded \/ mCoreThreadWaitFromThread
        PROVE  c \in waiting["stateCond"]
    BY <2>4 DEF CpuLoop, CpuDeferred, CpuExit, FrameEnded, mCoreThreadWaitFromThread, RunLoopReturns
  <2>5. c \in waiting["stateCond"]
    BY <2>1, <2>2, <2>3, <2>4
  <2> QED
    BY <2>5 DEF SharedInv, SleepsInterrupted
<1> QED
  BY <1>1, <1>2, <1>3, <1>4, <1>5 DEF SharedInv

--------------------------------------------------------------------------------
(* The clients *)

\* What a client may do with such a frontend, and what it leaves alone.
LEMMA ClientDoes ==
  ASSUME SharedBase, NEW c \in Clients, ClientStep(c)
  PROVE  /\ ~mCoreThreadInterruptFromThread(c) /\ ~mCoreThreadRunFunction(c) /\ ~ArmPauseAfterFrame(c)
         /\ pc'[CPU] = pc[CPU] /\ UNCHANGED <<deferred, frameCallback>>
         /\ \A d \in Clients \ {c} : /\ pc'[d] = pc[d] /\ call'[d] = call[d]
                                    /\ held'[d] = held[d] /\ granted'[d] = granted[d]
<1> USE DEF SharedBase
<1>1. /\ pc'[CPU] = pc[CPU] /\ UNCHANGED deferred
      /\ \A d \in Clients \ {c} : /\ pc'[d] = pc[d] /\ call'[d] = call[d]
                                 /\ held'[d] = held[d] /\ granted'[d] = granted[d]
  BY SyncAssumption, ClientLeavesOthers DEF Clients
<1>2. InItsCall(c) /\ ~Requests(c, {"InterruptFromThread", "RunFunction", "FrameAdvance"})
  BY DEF CallsInPlace, Shared
<1>3. call[c] \notin {"InterruptFromThread", "RunFunction", "FrameAdvance"}
  BY <1>2 DEF InItsCall, Requests
<1>4. ~mCoreThreadInterruptFromThread(c) /\ ~mCoreThreadRunFunction(c) /\ ~ArmPauseAfterFrame(c)
  BY <1>2, <1>3 DEF mCoreThreadInterruptFromThread, mCoreThreadRunFunction, ArmPauseAfterFrame, InCall,
     Step, InItsCall
<1>5. UNCHANGED frameCallback
  BY <1>4 DEF ClientStep, _waitOnInterrupt, mCoreThreadInterrupt, mCoreThreadContinue, mCoreThreadReset,
     mCoreThreadStopWaiting, mCoreThreadSetRewinding, mCoreThreadPause, PauseVideoSync, mCoreThreadEnd,
     EndAudio, EndVideo, SaveVideo, SaveAudio, WakeVideo, WakeAudio, LockAgain, RestoreAudio,
     RestoreVideo, SetAudioSync, SetVideoWait, cpuVars
<1> QED
  BY <1>1, <1>4, <1>5

\* A call that neither takes an interrupt nor gives one back keeps the invariant, if it does
\* to the states, to its client and to the sleepers no more than this.
LEMMA CallKeeps ==
  ASSUME SharedBase, SharedInv, NEW c \in Clients, ClientStep(c), UNCHANGED <<interruptDepth, held>>,
         Interrupted' <=> Interrupted, state' = "INTERRUPTED" <=> state = "INTERRUPTED",
         "RUN_ON" \notin {state', savedState'}, savedState' \notin ExitStates,
         state \in ExitStates => state' \in ExitStates,
         state' \in ExitStates => state \in ExitStates \/ call[c] = "End",
         PauseAhead' => PauseAhead,
         call'[c] \in {call[c], "none"},
         pc'[c] \in WaitPlaces /\ call'[c] = "Interrupt" => pc[c] \in WaitPlaces,
         pc'[c] \in {"restoreAudio", "restoreVideo"} /\ call'[c] = "Interrupt" => state' # "INTERRUPTING",
         granted'[c] => granted[c] \/ (held[c] > 0 /\ state = "INTERRUPTED"),
         pc'[c] = "resume" => Interrupted',
         \A d \in Clients \ {c} : d \in waiting'["stateCond"] => d \in waiting["stateCond"]
  PROVE  SharedInv' /\ StaysEnded
<1> USE ClientDoes DEF SharedInv
<1>1. Tallied'
  <2>1. Interrupts' = Interrupts
    BY DEF Interrupts
  <2> QED
    BY <2>1 DEF Tallied
<1>2. NoDetours'
  BY DEF NoDetours
<1>3. HeldOn' /\ StaysEnded
  <2>1. ASSUME NEW d \in Clients, call'[d] = "Reset" PROVE state' \notin ExitStates
    <3>1. call[d] = "Reset" /\ state \notin ExitStates
      BY <2>1 DEF HeldOn
    <3>2. ASSUME call[c] = "End" PROVE FALSE
      <4>1. <<c, "End">> \in frontend.requests /\ <<d, "Reset">> \in frontend.requests
        BY <3>1, <3>2 DEF SharedBase, CallsInPlace, InItsCall
      <4>2. c = d
        BY <4>1 DEF SharedBase, Shared, Requests
      <4> QED
        BY <3>1, <3>2, <4>2
    <3> QED
      BY <3>1, <3>2
  <2> QED
    BY <2>1 DEF HeldOn, StaysEnded
<1>4. GrantsHold'
  BY DEF GrantsHold, Interrupted
<1>5. PausesReal' /\ InterruptedIsStopped'
  BY DEF PausesReal, InterruptedIsStopped, CoreStopped
<1>6. SleepsInterrupted'
  BY DEF SleepsInterrupted
<1> QED
  BY <1>1, <1>2, <1>3, <1>4, <1>5, <1>6

\* Taking an interrupt.
LEMMA InterruptKeeps ==
  ASSUME SharedBase, SharedInv, NEW c \in Clients, mCoreThreadInterrupt(c)
  PROVE  SharedInv' /\ StaysEnded
<1> USE SyncAssumption DEF SharedInv
<1>0. /\ pc \in [Threads -> CpuPlaces \cup ClientPlaces] /\ call \in [Clients -> Calls \cup {"none"}]
      /\ held \in [Clients -> Int] /\ granted \in [Clients -> BOOLEAN] /\ interruptDepth \in Int
      /\ c \in Threads
  BY DEF SharedBase, ProgramTypeOK, PlacesTypeOK, StateTypeOK, CallTypeOK, HistoryTypeOK, Clients
<1>1. ClientStep(c)
  BY DEF ClientStep
<1>2. /\ pc'[CPU] = pc[CPU] /\ UNCHANGED <<deferred, frameCallback>>
      /\ \A d \in Clients \ {c} : /\ pc'[d] = pc[d] /\ call'[d] = call[d]
                                 /\ held'[d] = held[d] /\ granted'[d] = granted[d]
  BY <1>1, ClientDoes
<1>3. held' = [held EXCEPT ![c] = @ + 1] /\ interruptDepth' = interruptDepth + 1 /\ held[c] >= 0
  BY DEF mCoreThreadInterrupt, Tallied
<1>4. held'[c] > 0 /\ call'[c] \in {"Interrupt", "none"}
  BY <1>0, <1>3 DEF mCoreThreadInterrupt, InCall, Return
<1>5. state # "INITIALIZED"
  BY DEF mCoreThreadInterrupt, InCall, SharedBase, Started
<1>6. Tallied'
  <2>1. IsFiniteSet(Interrupts)' /\ Cardinality(Interrupts)' = Cardinality(Interrupts) + 1
    BY <1>0, <1>3, InterruptTaken DEF Tallied
  <2>2. \A d \in Clients : held'[d] >= 0
    BY <1>0, <1>3 DEF Tallied
  <2> QED
    BY <1>2, <1>3, <1>4, <2>1, <2>2 DEF Tallied
<1>7. CASE interruptDepth > 0 \/ ~mCoreThreadIsActive
  <2>1. UNCHANGED <<state, savedState, waiting>> /\ pc'[c] = "idle" /\ call'[c] = "none"
    BY <1>0, <1>7 DEF mCoreThreadInterrupt, Return, Goto
  <2>2. granted'[c] => granted[c] \/ state = "INTERRUPTED"
    <3> DEFINE complete == state = "INTERRUPTED"
    <3>1. granted' = [granted EXCEPT ![c] = @ \/ complete]
      BY <1>7 DEF mCoreThreadInterrupt
    <3> HIDE DEF complete
    <3>2. granted'[c] => granted[c] \/ complete
      BY <1>0, <3>1, Zenon
    <3> QED
      BY <3>2 DEF complete
  <2>3. interruptDepth > 0 \/ state \in ExitStates
    BY <1>5, <1>7 DEF mCoreThreadIsActive
  <2>4. NoDetours' /\ HeldOn' /\ StaysEnded
    BY <1>2, <2>1, <2>3 DEF NoDetours, HeldOn, StaysEnded, Interrupted
  <2>5. GrantsHold'
    BY <1>2, <1>4, <2>1, <2>2 DEF GrantsHold
  <2>6. PausesReal' /\ InterruptedIsStopped' /\ SleepsInterrupted'
    BY <1>2, <2>1 DEF PausesReal, PauseAhead, InterruptedIsStopped, SleepsInterrupted, CoreStopped,
       Interrupted
  <2> QED
    BY <1>6, <2>4, <2>5, <2>6
<1>8. CASE interruptDepth = 0 /\ mCoreThreadIsActive
  <2>1. /\ state' = "INTERRUPTING" /\ savedState' = state /\ pc'[c] = "saveVideo"
        /\ granted' = granted /\ state \notin ExitStates
    BY <1>0, <1>8 DEF mCoreThreadInterrupt, StartWaiting, Goto, mCoreThreadIsActive
  <2>2. \A d \in Clients : ~(held[d] > 0)
    BY <1>8, WhoHolds DEF SharedBase
  <2>3. NoDetours' /\ HeldOn' /\ StaysEnded
    BY <1>2, <2>1 DEF NoDetours, HeldOn, StaysEnded, Interrupted, ExitStates
  <2>4. GrantsHold'
    <3>1. \A d \in Clients : ~granted'[d]
      BY <2>1, <2>2 DEF GrantsHold
    <3>2. ASSUME NEW d \in Clients, pc'[d] \in {"restoreAudio", "restoreVideo"}, call'[d] = "Interrupt"
          PROVE  FALSE
      BY <1>2, <2>1, <2>2, <3>2 DEF Tallied, WaitPlaces
    <3> QED
      BY <3>1, <3>2 DEF GrantsHold
  <2>5. PausesReal' /\ InterruptedIsStopped' /\ SleepsInterrupted'
    BY <1>2, <2>1 DEF PausesReal, PauseAhead, InterruptedIsStopped, SleepsInterrupted, CoreStopped,
       Interrupted
  <2> QED
    BY <1>6, <2>3, <2>4, <2>5
<1>9. interruptDepth > 0 \/ interruptDepth = 0
  BY <1>0, WhoHolds DEF SharedBase
<1> QED
  BY <1>7, <1>8, <1>9

\* Giving an interrupt back: the last one brings the saved state, and wakes who sleeps.
LEMMA ContinueKeeps ==
  ASSUME SharedBase, SharedInv, NEW c \in Clients, mCoreThreadContinue(c)
  PROVE  SharedInv' /\ StaysEnded
<1> USE SyncAssumption DEF SharedInv
<1>0. /\ pc \in [Threads -> CpuPlaces \cup ClientPlaces] /\ call \in [Clients -> Calls \cup {"none"}]
      /\ held \in [Clients -> Int] /\ granted \in [Clients -> BOOLEAN] /\ interruptDepth \in Int
      /\ c \in Threads
  BY DEF SharedBase, ProgramTypeOK, PlacesTypeOK, StateTypeOK, CallTypeOK, HistoryTypeOK, Clients
<1>1. ClientStep(c) /\ call[c] = "Continue"
  BY DEF ClientStep, mCoreThreadContinue, InCall
<1>2. /\ pc'[CPU] = pc[CPU] /\ UNCHANGED <<deferred, frameCallback, savedState>>
      /\ \A d \in Clients \ {c} : /\ pc'[d] = pc[d] /\ call'[d] = call[d]
                                 /\ held'[d] = held[d] /\ granted'[d] = granted[d]
  BY <1>1, ClientDoes DEF mCoreThreadContinue
<1>3. /\ held' = [held EXCEPT ![c] = @ - 1] /\ interruptDepth' = interruptDepth - 1 /\ held[c] > 0
      /\ pc'[c] = "idle" /\ call'[c] = "none" /\ interruptDepth > 0
  BY <1>0, <1>1, WhoHolds DEF mCoreThreadContinue, ContinueState, Tallied, Return, Goto, SharedBase
<1>4. granted'[c] => granted[c] /\ held[c] > 1
  <2> DEFINE still == held[c] > 1
  <2>1. granted' = [granted EXCEPT ![c] = @ /\ still]
    BY DEF mCoreThreadContinue
  <2> HIDE DEF still
  <2>2. granted'[c] => granted[c] /\ still
    BY <1>0, <2>1, Zenon
  <2> QED
    BY <2>2 DEF still
<1>5. Tallied'
  <2>1. IsFiniteSet(Interrupts)' /\ Cardinality(Interrupts)' = Cardinality(Interrupts) - 1
    BY <1>0, <1>3, InterruptGiven DEF Tallied
  <2>2. \A d \in Clients : held'[d] >= 0
    BY <1>0, <1>2, <1>3 DEF Tallied
  <2> QED
    BY <1>2, <1>3, <2>1, <2>2 DEF Tallied, WaitPlaces
<1>6. CASE ~(LastInterrupt /\ mCoreThreadIsActive)
  <2>1. UNCHANGED <<state, waiting>>
    BY <1>6 DEF mCoreThreadContinue, ContinueState
  <2>2. NoDetours' /\ HeldOn' /\ StaysEnded
    BY <1>2, <1>3, <2>1 DEF NoDetours, HeldOn, StaysEnded, Interrupted
  <2>3. GrantsHold'
    <3>1. held[c] > 1 => held'[c] > 0
      BY <1>0, <1>3
    <3> QED
      BY <1>2, <1>3, <1>4, <2>1, <3>1 DEF GrantsHold
  <2>4. PausesReal' /\ InterruptedIsStopped' /\ SleepsInterrupted'
    BY <1>2, <1>3, <2>1 DEF PausesReal, PauseAhead, InterruptedIsStopped, SleepsInterrupted, CoreStopped,
       Interrupted
  <2> QED
    BY <1>5, <2>2, <2>3, <2>4
<1>7. CASE LastInterrupt /\ mCoreThreadIsActive
  <2>1. /\ state' = savedState /\ state \notin ExitStates /\ Interrupted
        /\ savedState \notin {"INTERRUPTED", "INTERRUPTING"}
    BY <1>3, <1>7 DEF mCoreThreadContinue, ContinueState, mCoreThreadIsActive, HeldOn, SharedBase,
       InterruptIInv, InterruptionsEnd
  <2>2. interruptDepth < 2
    BY <1>0, <1>7 DEF LastInterrupt
  <2>3. \A d \in Clients : held[d] > 0 => d = c /\ held[c] = 1
    BY <1>3, <2>2, WhoHolds DEF SharedBase
  <2>4. waiting'["stateCond"] = {}
    BY <1>7, ConditionWakeEffect
       DEF mCoreThreadContinue, ContinueState, SharedBase, ProgramTypeOK, Conditions
  <2>5. NoDetours' /\ HeldOn' /\ StaysEnded
    <3>1. ~(interruptDepth' > 0)
      BY <1>0, <1>3, <2>2
    <3> QED
      BY <1>2, <2>1, <3>1 DEF NoDetours, HeldOn, StaysEnded
  <2>6. GrantsHold'
    <3>1. \A d \in Clients : ~granted'[d]
      BY <1>2, <1>4, <2>3 DEF GrantsHold
    <3> QED
      BY <2>1, <3>1 DEF GrantsHold
  <2>7. PausesReal' /\ InterruptedIsStopped' /\ SleepsInterrupted'
    BY <1>2, <2>1, <2>4 DEF PausesReal, PauseAhead, InterruptedIsStopped, SleepsInterrupted, CoreStopped,
       Interrupted
  <2> QED
    BY <1>5, <2>5, <2>6, <2>7
<1> QED
  BY <1>6, <1>7

\* The other calls that change a state.
LEMMA StateCallKeeps ==
  ASSUME SharedBase, SharedInv, NEW c \in Clients,
         \/ mCoreThreadReset(c) \/ mCoreThreadStopWaiting(c) \/ mCoreThreadSetRewinding(c)
         \/ mCoreThreadPause(c) \/ mCoreThreadEnd(c)
  PROVE  SharedInv' /\ StaysEnded
<1> USE SyncAssumption DEF SharedInv, syncVars, stateVars, cpuVars, callVars, historyVars
<1>0. /\ pc \in [Threads -> CpuPlaces \cup ClientPlaces] /\ call \in [Clients -> Calls \cup {"none"}]
      /\ c \in Threads /\ ThreadingTypeOK
  BY DEF SharedBase, ProgramTypeOK, PlacesTypeOK, CallTypeOK, Clients
<1>1. ClientStep(c)
  BY DEF ClientStep
<1>2. UNCHANGED <<interruptDepth, held, granted>>
  BY DEF mCoreThreadReset, mCoreThreadStopWaiting, mCoreThreadSetRewinding, mCoreThreadPause, mCoreThreadEnd
<1>3. waiting' = waiting \/ ConditionWake({"stateCond"})
  BY DEF mCoreThreadReset, mCoreThreadStopWaiting, mCoreThreadSetRewinding, mCoreThreadPause,
     mCoreThreadEnd, StartWaiting
<1>4. \A d \in Clients : d \in waiting'["stateCond"] => d \in waiting["stateCond"]
  BY <1>0, <1>3, ConditionWakeEffect DEF Conditions
<1>5. \/ pc'[c] \in {"idle", "setVideoSync", "endAudio"}
      \/ pc'[c] = "saveVideo" /\ call'[c] # "Interrupt"
  BY <1>0 DEF mCoreThreadReset, mCoreThreadStopWaiting, mCoreThreadSetRewinding, mCoreThreadPause,
     mCoreThreadEnd, InCall, Pausing, StartWaiting, Return, Goto
<1>6. call'[c] \in {call[c], "none"}
  BY <1>0 DEF mCoreThreadReset, mCoreThreadStopWaiting, mCoreThreadSetRewinding, mCoreThreadPause,
     mCoreThreadEnd, Return
<1>7. "RUN_ON" \notin {state, savedState} /\ savedState \notin ExitStates
  BY DEF NoDetours, HeldOn
<1>8. ASSUME Interrupted' <=> Interrupted, state' = "INTERRUPTED" <=> state = "INTERRUPTED",
             "RUN_ON" \notin {state', savedState'}, savedState' \notin ExitStates,
             state \in ExitStates => state' \in ExitStates,
             state' \in ExitStates => state \in ExitStates \/ call[c] = "End",
             PauseAhead' => PauseAhead
      PROVE  SharedInv' /\ StaysEnded
  BY <1>1, <1>2, <1>4, <1>5, <1>6, <1>8, CallKeeps DEF WaitPlaces
<1>9. CASE mCoreThreadReset(c)
  <2>1. state \notin ExitStates
    BY <1>9 DEF mCoreThreadReset, InCall, HeldOn
  <2> QED
    BY <1>7, <1>8, <1>9, <2>1 DEF mCoreThreadReset, Interrupted, PauseAhead, ExitStates
<1>10. CASE mCoreThreadStopWaiting(c)
  BY <1>7, <1>8, <1>10 DEF mCoreThreadStopWaiting, Interrupted, PauseAhead, ExitStates
<1>11. CASE mCoreThreadSetRewinding(c)
  <2>1. \/ state' = state \/ {state, state'} \subseteq {"RUNNING", "REWINDING"}
    BY <1>11 DEF mCoreThreadSetRewinding
  <2>2. savedState' = savedState
    BY <1>11 DEF mCoreThreadSetRewinding
  <2> QED
    BY <1>7, <1>8, <2>1, <2>2 DEF Interrupted, PauseAhead, ExitStates
<1>12. CASE mCoreThreadPause(c)
  <2>1. state' = state \/ (state = "RUNNING" /\ state' = "PAUSING")
          \/ (state \in {"PAUSED", "PAUSING"} /\ state' = "RUNNING")
    BY <1>12 DEF mCoreThreadPause
  <2>2. savedState' = savedState
    BY <1>12 DEF mCoreThreadPause
  <2> QED
    BY <1>7, <1>8, <2>1, <2>2 DEF Interrupted, PauseAhead, ExitStates
<1>13. CASE mCoreThreadEnd(c)
  BY <1>7, <1>8, <1>13 DEF mCoreThreadEnd, InCall, Interrupted, PauseAhead, ExitStates
<1> QED
  BY <1>9, <1>10, <1>11, <1>12, <1>13

\* The steps of a call after its first, and the switching of the synchronisation, leave the
\* states alone; the last step of an interrupt finds the core stopped.
LEMMA PlainCallKeeps ==
  ASSUME SharedBase, SharedInv, NEW c \in Clients,
         \/ _waitOnInterrupt(c) \/ PauseVideoSync(c) \/ EndAudio(c) \/ EndVideo(c)
         \/ SaveVideo(c) \/ SaveAudio(c) \/ WakeVideo(c) \/ WakeAudio(c) \/ LockAgain(c)
         \/ RestoreAudio(c) \/ RestoreVideo(c) \/ SetAudioSync(c) \/ SetVideoWait(c)
  PROVE  SharedInv' /\ StaysEnded
<1> USE SyncAssumption DEF SharedInv, syncVars, stateVars, cpuVars, callVars, historyVars
<1>0. /\ pc \in [Threads -> CpuPlaces \cup ClientPlaces] /\ call \in [Clients -> Calls \cup {"none"}]
      /\ granted \in [Clients -> BOOLEAN] /\ c \in Threads /\ ThreadingTypeOK
  BY DEF SharedBase, ProgramTypeOK, PlacesTypeOK, CallTypeOK, HistoryTypeOK, Clients
<1>1. ClientStep(c) /\ UNCHANGED <<state, savedState, interruptDepth, held>>
  BY DEF ClientStep, _waitOnInterrupt, PauseVideoSync, EndAudio, EndVideo, SaveVideo, SaveAudio, WakeVideo,
     WakeAudio, LockAgain, RestoreAudio, RestoreVideo, SetAudioSync, SetVideoWait
<1>2. "RUN_ON" \notin {state, savedState} /\ savedState \notin ExitStates
  BY DEF NoDetours, HeldOn
<1>3. call'[c] \in {call[c], "none"}
  BY <1>0 DEF _waitOnInterrupt, PauseVideoSync, EndAudio, EndVideo, SaveVideo, SaveAudio, WakeVideo,
     WakeAudio, LockAgain, RestoreAudio, RestoreVideo, SetAudioSync, SetVideoWait, Return
<1>4. ASSUME pc'[c] \in WaitPlaces
      PROVE  pc[c] \in WaitPlaces /\ call'[c] = call[c]
  BY <1>0, <1>4 DEF _waitOnInterrupt, PauseVideoSync, EndAudio, EndVideo, SaveVideo, SaveAudio, WakeVideo,
     WakeAudio, LockAgain, RestoreAudio, RestoreVideo, SetAudioSync, SetVideoWait, Return, Goto, Step,
     WaitPlaces
<1>5. ASSUME pc'[c] \in {"restoreAudio", "restoreVideo"}, call[c] = "Interrupt"
      PROVE  state # "INTERRUPTING"
  <2>1. SaveAudio(c) \/ LockAgain(c) \/ RestoreAudio(c)
    BY <1>0, <1>5 DEF _waitOnInterrupt, PauseVideoSync, EndAudio, EndVideo, SaveVideo, WakeVideo,
       WakeAudio, RestoreVideo, SetAudioSync, SetVideoWait, Return, Goto, Step
  <2> QED
    BY <1>0, <1>5, <2>1 DEF SaveAudio, LockAgain, RestoreAudio, TestState, WaitedFor, Goto, Step, GrantsHold
<1>6. pc'[c] = "resume" => _waitOnInterrupt(c)
  BY <1>0 DEF PauseVideoSync, EndAudio, EndVideo, SaveVideo, SaveAudio, WakeVideo,
     WakeAudio, LockAgain, RestoreAudio, RestoreVideo, SetAudioSync, SetVideoWait, TestState, Return, Goto, Step
<1>7. pc'[c] = "resume" => Interrupted'
  BY <1>1, <1>6 DEF _waitOnInterrupt, Interrupted
<1>8. granted'[c] => granted[c] \/ (held[c] > 0 /\ state = "INTERRUPTED")
  <2>1. CASE ~RestoreVideo(c)
    BY <2>1 DEF _waitOnInterrupt, PauseVideoSync, EndAudio, EndVideo, SaveVideo, SaveAudio, WakeVideo,
       WakeAudio, LockAgain, RestoreAudio, SetAudioSync, SetVideoWait
  <2>2. CASE RestoreVideo(c)
    <3> DEFINE stopped == call[c] = "Interrupt" /\ state \notin ExitStates
    <3>1. granted' = granted \/ granted' = [granted EXCEPT ![c] = @ \/ stopped]
      BY <2>2 DEF RestoreVideo
    <3>2. stopped => held[c] > 0 /\ state = "INTERRUPTED"
      <4>1. pc[c] = "restoreVideo"
        BY <2>2 DEF RestoreVideo
      <4>2. call[c] = "Interrupt" => held[c] > 0 /\ state # "INTERRUPTING"
        BY <4>1 DEF Tallied, GrantsHold, WaitPlaces
      <4>3. held[c] > 0 => Interrupted \/ state \in ExitStates
        BY WhoHolds DEF HeldOn, SharedBase
      <4> QED
        BY <4>2, <4>3 DEF Interrupted
    <3> HIDE DEF stopped
    <3>3. granted'[c] => granted[c] \/ stopped
      BY <1>0, <3>1, Zenon
    <3> QED
      BY <3>2, <3>3
  <2> QED
    BY <2>1, <2>2
<1>9. ASSUME NEW d \in Clients \ {c}, d \in waiting'["stateCond"] PROVE d \in waiting["stateCond"]
  BY <1>0, <1>9, ConditionWaitEffect, ConditionWakeEffect
     DEF _waitOnInterrupt, PauseVideoSync, EndAudio, EndVideo, SaveVideo, SaveAudio, WakeVideo, WakeAudio,
     LockAgain, RestoreAudio, RestoreVideo, SetAudioSync, SetVideoWait, _changeVideoSync, Conditions
<1> QED
  BY <1>1, <1>2, <1>3, <1>4, <1>5, <1>7, <1>8, <1>9, CallKeeps DEF Interrupted, PauseAhead, WaitPlaces

--------------------------------------------------------------------------------
(* The theorems *)

LEMMA StepSharedInv ==
  SharedBase /\ SharedInv /\ [Next]_vars => SharedInv' /\ StaysEnded
<1> SUFFICES ASSUME SharedBase, SharedInv, [Next]_vars PROVE SharedInv' /\ StaysEnded
  OBVIOUS
<1> USE SyncAssumption DEF Clients, stateVars, cpuVars, callVars, historyVars
<1>0. /\ pc \in [Threads -> CpuPlaces \cup ClientPlaces] /\ call \in [Clients -> Calls \cup {"none"}]
      /\ CPU \in Threads
  BY DEF SharedBase, ProgramTypeOK, PlacesTypeOK, CallTypeOK
<1>1. CASE CpuStep \/ RunLoopReturns \/ lineEntered
  BY <1>1, CpuSharedInv
<1>2. ASSUME UNCHANGED <<stateVars, cpuVars, held, granted>>, waiting'["stateCond"] = waiting["stateCond"],
             pc'[CPU] = pc[CPU],
             \A c \in Clients : \/ pc'[c] = pc[c] /\ call'[c] = call[c]
                               \/ /\ pc'[c] \notin WaitPlaces \cup {"resume"}
                                  /\ call'[c] = "Continue" => held[c] > 0
                                  /\ call'[c] = "Reset" => state \notin ExitStates
      PROVE  SharedInv' /\ StaysEnded
  <2>1. Tallied'
    <3>1. Interrupts' = Interrupts
      BY <1>2 DEF Interrupts
    <3> QED
      BY <1>2, <3>1 DEF SharedInv, Tallied
  <2>2. NoDetours' /\ HeldOn' /\ StaysEnded
    BY <1>2 DEF SharedInv, NoDetours, HeldOn, StaysEnded, Interrupted
  <2>3. GrantsHold'
    BY <1>2 DEF SharedInv, GrantsHold, WaitPlaces
  <2>4. PausesReal' /\ InterruptedIsStopped'
    BY <1>2 DEF SharedInv, PausesReal, PauseAhead, InterruptedIsStopped, CoreStopped, Interrupted
  <2>5. SleepsInterrupted'
    BY <1>2 DEF SharedInv, SleepsInterrupted, Interrupted
  <2> QED
    BY <2>1, <2>2, <2>3, <2>4, <2>5 DEF SharedInv
<1>3. CASE Outside
  <2>1. /\ UNCHANGED <<stateVars, cpuVars, callVars, historyVars>>
        /\ pc'[CPU] = pc[CPU] /\ waiting'["stateCond"] = waiting["stateCond"]
        /\ \A c \in Clients : pc'[c] = pc[c] \/ (pc[c] \notin CallPlaces /\ pc'[c] \notin CallPlaces)
    BY <1>3, OutsideLeavesCalls DEF SharedBase
  <2>2. ASSUME NEW c \in Clients
        PROVE  /\ call[c] = "Continue" => held[c] > 0
               /\ call[c] = "Reset" => state \notin ExitStates
    BY DEF SharedInv, Tallied, HeldOn
  <2> QED
    BY <1>2, <2>1, <2>2 DEF CallPlaces, SharedInv, Tallied, HeldOn
<1>4. ASSUME NEW c \in Clients, NEW op \in Calls, Request(c, op) PROVE SharedInv' /\ StaysEnded
  <2>1. /\ UNCHANGED <<stateVars, cpuVars, held, granted, waiting>>
        /\ pc' = [pc EXCEPT ![c] = "enter"] /\ call' = [call EXCEPT ![c] = op]
        /\ op = "Continue" => held[c] > 0
    BY <1>4 DEF Request, Step
  <2>2. op = "Reset" => state \notin ExitStates
    BY <1>4 DEF Request, Late, SharedBase, Shared
  <2>3. pc'[CPU] = pc[CPU] /\ pc'[c] = "enter" /\ call'[c] = op
    BY <1>0, <2>1
  <2>4. \A d \in Clients \ {c} : pc'[d] = pc[d] /\ call'[d] = call[d]
    BY <1>0, <2>1
  <2> QED
    BY <1>2, <2>1, <2>2, <2>3, <2>4 DEF WaitPlaces
<1>5. ASSUME NEW c \in Clients, ClientStep(c) PROVE SharedInv' /\ StaysEnded
  BY <1>5, ClientDoes, InterruptKeeps, ContinueKeeps, StateCallKeeps, PlainCallKeeps DEF ClientStep
<1> QED
  BY <1>1, <1>3, <1>4, <1>5, StepCases

\* With several callers the interrupts are counted, the core stands still for all of them, and
\* the end is the end.
LEMMA SharedHolds == Spec /\ Shared => [](SharedInv /\ SharedBase)
<1>1. Init => SharedInv
  <2> SUFFICES ASSUME Init PROVE SharedInv
    OBVIOUS
  <2> USE SyncAssumption, CoreThreadAssumption DEF Init
  <2>1. Interrupts = {}
    BY DEF Interrupts
  <2>2. Tallied
    BY <2>1, FS_EmptySet DEF Tallied, WaitPlaces, Clients
  <2>3. pc[CPU] = "start" /\ \A c \in Clients : pc[c] \in {"starting", "idle"} /\ call[c] = "none" /\ ~granted[c]
    BY DEF Clients
  <2>4. /\ state = "INITIALIZED" /\ savedState = "RUNNING" /\ deferred = "RUNNING"
        /\ ~frameCallback /\ interruptDepth = 0
    OBVIOUS
  <2>5. NoDetours /\ HeldOn
    BY ONLY <2>3, <2>4 DEF NoDetours, HeldOn, ExitStates
  <2>6. GrantsHold /\ SleepsInterrupted
    BY ONLY <2>3 DEF GrantsHold, SleepsInterrupted
  <2>7. PausesReal /\ InterruptedIsStopped
    BY ONLY <2>4 DEF PausesReal, PauseAhead, Interrupted, InterruptedIsStopped
  <2> QED
    BY <2>2, <2>5, <2>6, <2>7 DEF SharedInv
<1>2. Shared /\ [Next]_vars => Shared'
  BY StepCases DEF Shared, Requests
<1>3. ProgramTypeOK /\ CallsInPlace /\ Shared /\ Started /\ InterruptIInv <=> SharedBase
  BY DEF SharedBase
<1> QED
  BY <1>1, <1>2, <1>3, StepSharedInv, StartedHolds, InterruptIInvHolds, CallsStayInPlace,
     ProgramTypesHold, PTL DEF Spec

LEMMA StepAwaited == SharedBase /\ SharedInv /\ Awaited /\ [Next]_vars => Awaited'
<1> SUFFICES ASSUME SharedBase, SharedInv, Awaited, [Next]_vars, state' = "INTERRUPTING"
             PROVE  \E d \in Clients : call'[d] = "Interrupt" /\ pc'[d] \in WaitPlaces
  BY DEF Awaited
<1> DEFINE Waits(d) == call[d] = "Interrupt" /\ pc[d] \in WaitPlaces
<1>0. /\ pc \in [Threads -> CpuPlaces \cup ClientPlaces] /\ call \in [Clients -> Calls \cup {"none"}]
      /\ Clients \subseteq Threads
  BY DEF SharedBase, ProgramTypeOK, PlacesTypeOK, CallTypeOK, Clients
\* What leaves an interruption to the one who waits for its answer.
<1>1. ASSUME state = "INTERRUPTING", \A d \in Clients : Waits(d) => pc'[d] = pc[d] /\ call'[d] = call[d]
      PROVE  \E d \in Clients : call'[d] = "Interrupt" /\ pc'[d] \in WaitPlaces
  BY <1>1 DEF Awaited
<1>2. CASE CpuStep \/ RunLoopReturns \/ lineEntered
  BY <1>1, <1>2, CpuDoes, CpuStates
<1>3. CASE Outside
  BY <1>1, <1>3, OutsideLeavesCalls DEF SharedBase, CallPlaces, stateVars, callVars
<1>4. ASSUME NEW c \in Clients, NEW op \in Calls, Request(c, op)
      PROVE  \E d \in Clients : call'[d] = "Interrupt" /\ pc'[d] \in WaitPlaces
  BY <1>0, <1>1, <1>4 DEF Request, Step, stateVars, WaitPlaces
<1>5. ASSUME NEW c \in Clients, ClientStep(c)
      PROVE  \E d \in Clients : call'[d] = "Interrupt" /\ pc'[d] \in WaitPlaces
  <2>0. \A d \in Clients \ {c} : pc'[d] = pc[d] /\ call'[d] = call[d]
    BY <1>5, ClientDoes
  <2>1. CASE mCoreThreadInterrupt(c) /\ ~(interruptDepth > 0 \/ ~mCoreThreadIsActive)
    BY <1>0, <2>1 DEF mCoreThreadInterrupt, InCall, StartWaiting, Goto, callVars, WaitPlaces
  <2>2. CASE ~(mCoreThreadInterrupt(c) /\ ~(interruptDepth > 0 \/ ~mCoreThreadIsActive))
    <3>1. state = "INTERRUPTING"
      <4>0. state' = "INTERRUPTING" /\ savedState # "INTERRUPTING"
        BY DEF SharedBase, InterruptIInv, InterruptionsEnd
      <4>1. CASE _waitOnInterrupt(c) \/ mCoreThreadInterrupt(c)
        BY <2>2, <4>0, <4>1 DEF _waitOnInterrupt, mCoreThreadInterrupt, stateVars
      <4>2. CASE mCoreThreadContinue(c)
        BY <4>0, <4>2 DEF mCoreThreadContinue, ContinueState
      <4>3. CASE mCoreThreadReset(c) \/ mCoreThreadStopWaiting(c)
        BY <4>0, <4>3 DEF mCoreThreadReset, mCoreThreadStopWaiting
      <4>4. CASE mCoreThreadSetRewinding(c)
        BY <4>0, <4>4 DEF mCoreThreadSetRewinding
      <4>5. CASE mCoreThreadPause(c) \/ mCoreThreadEnd(c)
        BY <4>0, <4>5 DEF mCoreThreadPause, mCoreThreadEnd
      <4>6. CASE PauseVideoSync(c) \/ EndAudio(c) \/ EndVideo(c) \/ SetAudioSync(c) \/ SetVideoWait(c)
        BY <4>0, <4>6 DEF PauseVideoSync, EndAudio, EndVideo, SetAudioSync, SetVideoWait, stateVars
      <4>7. CASE SaveVideo(c) \/ SaveAudio(c) \/ WakeVideo(c) \/ WakeAudio(c) \/ LockAgain(c)
                 \/ RestoreAudio(c) \/ RestoreVideo(c)
        BY <4>0, <4>7 DEF SaveVideo, SaveAudio, WakeVideo, WakeAudio, LockAgain, RestoreAudio, RestoreVideo,
           stateVars
      <4> QED
        BY <1>5, <4>1, <4>2, <4>3, <4>4, <4>5, <4>6, <4>7, ClientDoes DEF ClientStep
    <3>2. CASE ~Waits(c)
      BY <1>1, <2>0, <3>1, <3>2
    <3>3. CASE Waits(c)
      <4>1. pc[c] # "restoreVideo"
        BY <3>1, <3>3 DEF SharedInv, GrantsHold
      <4>2. SaveVideo(c) \/ SaveAudio(c) \/ WakeVideo(c) \/ WakeAudio(c) \/ LockAgain(c) \/ RestoreAudio(c)
        BY <1>5, <3>3, <4>1 DEF ClientStep, _waitOnInterrupt, mCoreThreadInterrupt,
           mCoreThreadInterruptFromThread, mCoreThreadContinue, mCoreThreadRunFunction, mCoreThreadReset,
           mCoreThreadStopWaiting, mCoreThreadSetRewinding, mCoreThreadPause, PauseVideoSync,
           ArmPauseAfterFrame, mCoreThreadEnd, EndAudio, EndVideo, RestoreVideo, SetAudioSync,
           SetVideoWait, InCall, Step, WaitPlaces
      <4>3. call'[c] = call[c] /\ pc'[c] \in WaitPlaces
        BY <1>0, <4>2 DEF SaveVideo, SaveAudio, WakeVideo, WakeAudio, LockAgain, RestoreAudio, TestState,
           Goto, Step, WaitPlaces, callVars
      <4> QED
        BY <3>3, <4>3
    <3> QED
      BY <3>2, <3>3
  <2> QED
    BY <2>1, <2>2
<1> QED
  BY <1>2, <1>3, <1>4, <1>5, StepCases

\* Every client whose mCoreThreadInterrupt has returned has the core to itself - together
\* with the others who hold an interrupt - until it continues, unless the thread ends; if
\* it returned while another client waited for the core to stop, from when that one has been
\* answered.  With several clients who interrupt, reset, pause and end one game from
\* different threads.
THEOREM InterruptsAreShared == Spec /\ Shared => []InterruptExcludesCore
<1>1. Init => Awaited
  BY DEF Init, Awaited
<1>2. SharedBase /\ SharedInv /\ Awaited => InterruptExcludesCore
  <2> SUFFICES ASSUME SharedBase, SharedInv, Awaited, ~CoreStopped, NEW c \in Clients
               PROVE  ~granted[c] /\ (held[c] = 0 \/ call[c] # "none" \/ state \in ExitStates \/ Unanswered)
    BY DEF InterruptExcludesCore
  <2>1. state # "INTERRUPTED" /\ ~granted[c]
    BY DEF SharedInv, InterruptedIsStopped, GrantsHold
  <2>2. held[c] >= 0 /\ held[c] \in Int
    BY DEF SharedInv, Tallied, SharedBase, ProgramTypeOK, HistoryTypeOK
  <2>3. held[c] > 0 => state = "INTERRUPTING" \/ state \in ExitStates
    BY <2>1, WhoHolds DEF SharedInv, SharedBase, HeldOn, Interrupted
  <2>4. state = "INTERRUPTING" => Unanswered
    BY DEF Awaited, Unanswered, WaitPlaces
  <2> QED
    BY <2>1, <2>2, <2>3, <2>4
<1> QED
  BY <1>1, <1>2, StepAwaited, SharedHolds, PTL DEF Spec

\* With several callers too, a core said to be interrupted or paused is, whoever pauses it and
\* whoever interrupts the pause.
THEOREM SharedStopIsReal == Spec /\ Shared => []StoppedStatesAreReal
<1>1. SharedInv => StoppedStatesAreReal
  BY DEF SharedInv, InterruptedIsStopped, PausesReal, PauseAhead, StoppedStatesAreReal
<1> QED
  BY <1>1, SharedHolds, PTL

\* With several callers too, a client asleep in _waitOnInterrupt is woken by whoever gives back
\* the last interrupt.
THEOREM SharedClientsAreWoken == Spec /\ Shared => []NoClientForgotten
<1>1. SharedInv => NoClientForgotten
  BY DEF SharedInv, SleepsInterrupted, NoClientForgotten, Awake
<1> QED
  BY <1>1, SharedHolds, PTL

\* With several callers too, the thread does not come back to life after mCoreThreadEnd,
\* whichever of them still hold an interrupt then.
THEOREM SharedEndIsFinal == Spec /\ Shared => EndIsFinal
<1>1. StaysEnded => [(state \in ExitStates) => (state' \in ExitStates)]_vars
  BY DEF StaysEnded
<1> QED
  BY <1>1, StepSharedInv, SharedHolds, PTL DEF Spec, EndIsFinal

================================================================================
