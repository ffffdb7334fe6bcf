------------------------------ MODULE CallerProofs ------------------------------
(***************************************************************************)
(* Theorems about CoreThread with a frontend that makes the calls which    *)
(* wait, interrupt, reset or end from one thread, as those of platform/sdl *)
(* and platform/qt do: the other threads (the players of a linked game)    *)
(* only end a wait for the link and switch the synchronisation. The last   *)
(* section is about the display: a core that stands paused does not make   *)
(* it wait for frames.                                                     *)
(***************************************************************************)
EXTENDS CoreThreadProofs

--------------------------------------------------------------------------------
(* What the theorems ask of a frontend *)

\* The calls that neither wait nor change a state but WAITING.
PeerCalls == {"StopWaiting", "SyncOn", "SyncOff", "AudioSyncOn", "AudioSyncOff"}

\* Client m makes all the others.
CallsFrom(m) ==
  \A c \in Clients, op \in Calls :
    <<c, op>> \in frontend.requests => c = m \/ op \in PeerCalls

Requests(c, ops) == \E op \in ops : <<c, op>> \in frontend.requests

\* No function is run on a core that stands at the prompt of the debugger.
NoFunctionAtPrompt(m) == ~(Debugging /\ Requests(m, {"RunFunction"}))

\* The caller does not interrupt a core it advances by a frame.
NoAdvanceInterrupted(m) ==
  ~(Requests(m, {"FrameAdvance"}) /\ Requests(m, {"Interrupt", "InterruptFromThread"}))

\* The core does not crash.
NoCrash == frontend.cpuCalls \cap {"Crash", "MarkCrashed"} = {}

--------------------------------------------------------------------------------
(* Where a call stands *)

WaitPlaces == {"saveVideo", "saveAudio", "wakeVideo", "wakeAudio", "lockAgain",
               "restoreAudio", "restoreVideo"}

\* The calls that sleep through an interruption of the prompt.
Patient == Pausing \cup {"RunFunction", "SetRewinding", "StopRewinding", "End"}

CallPlaces == {"enter", "resume", "setVideoSync", "arm", "endAudio", "endVideo", "setSync"}
                \cup WaitPlaces

\* A client is in a call that its frontend makes (a frame advance goes on as an
\* unpause), at a place of that call.
InItsCall(c) ==
  /\ call[c] # "none" =>
       \/ <<c, call[c]>> \in frontend.requests
       \/ call[c] = "Unpause" /\ <<c, "FrameAdvance">> \in frontend.requests
  /\ pc[c] \in CallPlaces <=> call[c] # "none"
  /\ pc[c] \in WaitPlaces => call[c] \in Waiting
  /\ pc[c] \in {"setVideoSync", "arm"} => call[c] \in Pausing
  /\ pc[c] = "arm" => call[c] = "FrameAdvance"
  /\ pc[c] = "resume" => call[c] \in Patient
  /\ pc[c] \in {"endAudio", "endVideo"} => call[c] = "End"
  /\ pc[c] = "setSync" => call[c] \in {"SyncOn", "SyncOff"}

CallsInPlace == \A c \in Clients : InItsCall(c)

\* The flags a wait has cleared are with the client that waits.
FlagsKept ==
  /\ \A c \in Clients : pc[c] \in {"wakeVideo", "wakeAudio", "lockAgain", "restoreAudio"}
       => flags[c].audio = asked.audio
  /\ \A c \in Clients : pc[c] \in WaitPlaces \ {"saveVideo"} => flags[c].video = asked.video

--------------------------------------------------------------------------------
(* The interrupts of the caller *)

\* Each interrupt is one the caller, or the prompt, has to continue.
Counted(m) ==
  /\ \A c \in Clients \ {m} : held[c] = 0
  /\ held[m] >= 0
  /\ interruptDepth = held[m] + (IF pc[CPU] = "prompt" THEN 1 ELSE 0)
  /\ call[m] = "Continue" => held[m] > 0
  /\ call[m] \notin {"none", "Interrupt", "InterruptFromThread", "Continue", "Reset", "StopWaiting"} => held[m] = 0
  /\ (pc[m] \in WaitPlaces /\ call[m] = "Interrupt") => held[m] > 0
  /\ held[m] > 0 => Requests(m, {"Interrupt", "InterruptFromThread"})
  /\ (frameCallback \/ pc[CPU] = "pauseFromThread") => Requests(m, {"FrameAdvance"})
  /\ pc[CPU] = "prompt" => Debugging

\* Before the CPU thread has started no call is made.
Started ==
  /\ pc[CPU] = "start" <=> state = "INITIALIZED"
  /\ pc[CPU] = "start" =>
       pc[Owner] = "starting" /\ \A c \in Clients : call[c] = "none" /\ held[c] = 0
  /\ savedState # "INITIALIZED"
  /\ pc[CPU] = "store" => deferred # "INITIALIZED"

\* A client asleep in _waitOnInterrupt sleeps through an interruption.
SleepsInterrupted ==
  \A c \in Clients : (pc[c] = "resume" /\ c \in waiting["stateCond"]) => Interrupted

--------------------------------------------------------------------------------
(* The function of mCoreThreadRunFunction *)

BeforeRestore == WaitPlaces \ {"restoreAudio", "restoreVideo"}

\* RUN_ON is the state from the call until the CPU thread has stored the saved
\* one; the function runs in between.
FunctionInv(m) ==
  /\ state = "RUN_ON" => call[m] = "RunFunction" /\ pc[m] \in BeforeRestore
  /\ savedState # "RUN_ON"
  /\ (CoreStopped \/ pc[CPU] = "store") => deferred # "RUN_ON"
  /\ pc[CPU] \in {"restore", "store"} => state = "RUN_ON" /\ ran[m] = 1
  /\ (pc[CPU] = "deferred" /\ deferred = "RUN_ON") => state = "RUN_ON"
  /\ (state = "RUN_ON" /\ pc[CPU] \notin {"restore", "store"}) => ran[m] = 0
  /\ (pc[m] \in WaitPlaces /\ call[m] = "RunFunction") =>
       run = m /\ (state = "RUN_ON" \/ ran[m] = 1 \/ state \in ExitStates)
  /\ (pc[m] = "resume" /\ call[m] = "RunFunction") => run = m
  /\ (pc[m] \in {"enter", "resume"} /\ call[m] = "RunFunction") => ran[m] = 0
--------------------------------------------------------------------------------
(* The stopped core *)

\* Only the CPU thread itself makes an interruption complete.
InterruptedIsStopped == state = "INTERRUPTED" => CoreStopped

\* An interruption the caller was granted lasts until it continues.
GrantedInv(m) ==
  /\ \A c \in Clients : granted[c] => c = m /\ held[m] > 0 /\ state = "INTERRUPTED"
  /\ (pc[m] \in WaitPlaces /\ call[m] = "Interrupt") =>
       /\ Interrupted \/ state \in ExitStates
       /\ pc[m] \in {"restoreAudio", "restoreVideo"} => state # "INTERRUPTING"

\* An interruption lasts until the caller continues or the thread ends, and the only
\* one that has not been answered is that of a caller who waits.
HeldInv(m) ==
  /\ held[m] > 0 => Interrupted \/ state \in ExitStates
  /\ state = "INTERRUPTING" => pc[m] \in WaitPlaces /\ call[m] = "Interrupt"
  /\ (held[m] > 0 /\ call[m] = "Reset") => state = "INTERRUPTED"

\* The core is paused, or will be when an interruption or a function is over.
PauseAhead ==
  state = "PAUSED" \/ (savedState = "PAUSED" /\ (Interrupted \/ state = "RUN_ON"))

\* A pause is one the CPU thread has begun, and no old one is brought back.
PausedInv(m) ==
  /\ PauseAhead => CoreStopped \/ pc[CPU] \in {"deferred", "loop", "inner", "lock", "restore", "store"}
  /\ (interruptDepth > 0 /\ mCoreThreadIsActive /\ ~Interrupted) => savedState # "PAUSED"
  /\ (interruptDepth > 0 /\ state \in ExitStates /\ call[m] = "Reset") => savedState # "PAUSED"

--------------------------------------------------------------------------------
(* The end *)

\* Nothing takes an interruption from who holds it but the end, and nothing is
\* in the way of the end once it was called.
EndInv(m) ==
  /\ interruptDepth > 0 => Interrupted \/ state \in ExitStates
  /\ (pc[m] \in {"enter", "resume"} /\ call[m] \in {"Reset", "RunFunction"}) => state \notin ExitStates
  /\ pc[CPU] \in {"exit", "shutdown", "done"} => state \in ExitStates
  /\ savedState \notin ExitStates
--------------------------------------------------------------------------------
(* What a step leaves alone *)

\* The CPU thread leaves the calls of the clients to them.
LEMMA CpuLeavesClients ==
  ASSUME ProgramTypeOK, CpuStep \/ RunLoopReturns \/ lineEntered
  PROVE  /\ UNCHANGED <<call, flags, held, granted, asked, frameWasOn>>
         /\ \A c \in Clients : pc'[c] = pc[c] /\ frameOn'[c] = frameOn[c]
<1> USE SyncAssumption DEF Clients, syncVars, stateVars, cpuVars, callVars, historyVars
<1>0. pc \in [Threads -> CpuPlaces \cup ClientPlaces] /\ frameOn \in [Threads -> BOOLEAN]
  BY DEF ProgramTypeOK, PlacesTypeOK, CallTypeOK
<1>1. UNCHANGED <<call, flags, held, granted, asked, frameWasOn>>
  BY DEF CpuStep, CpuStart, CpuLoop, CpuLock, CpuWoken, CpuParkedAudio, CpuDeferred,
     CpuRestoreState, CpuExit, FrameEnded, mCoreThreadPauseFromThread, PauseFromThreadVideoSync,
     mCoreThreadWaitFromThread, CoreCrashes, readLine, CoreSyncStep, RunLoopReturns, lineEntered
<1>2. \E to : Goto(CPU, to) \/ UNCHANGED pc
  BY DEF CpuStep, CpuStart, CpuLoop, CpuLock, CpuWoken, CpuParkedAudio, CpuDeferred,
     CpuRestoreState, CpuExit, FrameEnded, mCoreThreadPauseFromThread, PauseFromThreadVideoSync,
     mCoreThreadWaitFromThread, CoreCrashes, readLine, CoreSyncStep, RunLoopReturns, lineEntered,
     ParkAgain, HandleState, WaitForAudioRoom, mCoreSyncPostFrame, PostFrameWoken, OfferFrame,
     mCoreSyncProduceAudio, ProduceAudioWoken, Step, Goto
<1>3. \A c \in Clients : frameOn'[c] = frameOn[c]
  BY <1>0 DEF CpuStep, CpuStart, CpuLoop, CpuLock, CpuWoken, CpuParkedAudio, CpuDeferred,
     CpuRestoreState, CpuExit, FrameEnded, mCoreThreadPauseFromThread, PauseFromThreadVideoSync,
     mCoreThreadWaitFromThread, CoreCrashes, readLine, CoreSyncStep, RunLoopReturns, lineEntered
<1> QED
  BY <1>0, <1>1, <1>2, <1>3 DEF Goto

\* A client in a call leaves the other threads where they are, and their calls.
LEMMA ClientLeavesOthers ==
  ASSUME ProgramTypeOK, NEW c \in Clients, ClientStep(c)
  PROVE  /\ pc[c] \in CallPlaces
         /\ \A t \in Threads \ {c} : pc'[t] = pc[t] /\ frameOn'[t] = frameOn[t]
         /\ \A d \in Clients \ {c} :
              /\ call'[d] = call[d] /\ flags'[d] = flags[d]
              /\ held'[d] = held[d] /\ granted'[d] = granted[d]
         /\ UNCHANGED <<ran, deferred, frameDone>>
<1> USE SyncAssumption DEF Clients, CallPlaces, WaitPlaces, syncVars, stateVars, cpuVars, callVars, historyVars
<1>0. /\ pc \in [Threads -> CpuPlaces \cup ClientPlaces]
      /\ call \in [Clients -> Calls \cup {"none"}]
      /\ flags \in [Clients -> [video : BOOLEAN, audio : BOOLEAN]]
      /\ held \in [Clients -> Int] /\ granted \in [Clients -> BOOLEAN]
      /\ frameOn \in [Threads -> BOOLEAN]
  BY DEF ProgramTypeOK, PlacesTypeOK, CallTypeOK, HistoryTypeOK
<1>1. CASE \/ _waitOnInterrupt(c) \/ mCoreThreadInterrupt(c) \/ mCoreThreadInterruptFromThread(c)
           \/ mCoreThreadContinue(c) \/ mCoreThreadRunFunction(c) \/ mCoreThreadReset(c)
  BY <1>0, <1>1 DEF _waitOnInterrupt, mCoreThreadInterrupt, mCoreThreadInterruptFromThread,
     mCoreThreadContinue, mCoreThreadRunFunction, mCoreThreadReset, InCall, StartWaiting, Return, Goto
<1>2. CASE \/ mCoreThreadStopWaiting(c) \/ mCoreThreadSetRewinding(c) \/ mCoreThreadPause(c)
           \/ PauseVideoSync(c) \/ ArmPauseAfterFrame(c)
           \/ mCoreThreadEnd(c) \/ EndAudio(c) \/ EndVideo(c)
  BY <1>0, <1>2 DEF mCoreThreadStopWaiting, mCoreThreadSetRewinding, mCoreThreadPause,
     PauseVideoSync, ArmPauseAfterFrame, mCoreThreadEnd, EndAudio, EndVideo, InCall,
     StartWaiting, Return, Goto, Step
<1>3. CASE \/ SaveVideo(c) \/ SaveAudio(c) \/ WakeVideo(c) \/ WakeAudio(c) \/ LockAgain(c)
  BY <1>0, <1>3 DEF SaveVideo, SaveAudio, WakeVideo, WakeAudio, LockAgain, TestState, Goto, Step
<1>4. CASE RestoreAudio(c) \/ RestoreVideo(c) \/ SetAudioSync(c) \/ SetVideoWait(c)
  BY <1>0, <1>4 DEF RestoreAudio, RestoreVideo, SetAudioSync, SetVideoWait, Return, Goto, Step
<1> QED
  BY <1>1, <1>2, <1>3, <1>4 DEF ClientStep

\* Drawing, playing samples, the start and the join are outside of the calls.
Outside ==
  \/ StartReturns \/ Join \/ AudioDevice \/ UNCHANGED programVars
  \/ \E c \in Clients : Draw(c)

LEMMA OutsideLeavesCalls ==
  ASSUME ProgramTypeOK, Outside
  PROVE  /\ UNCHANGED <<stateVars, cpuVars, callVars, historyVars>>
         /\ UNCHANGED <<videoFrameWait, videoFrameOn, audioWait>>
         /\ pc'[CPU] = pc[CPU] /\ waiting'["stateCond"] = waiting["stateCond"]
         /\ \A c \in Clients : pc'[c] = pc[c] \/ (pc[c] \notin CallPlaces /\ pc'[c] \notin CallPlaces)
<1> USE SyncAssumption, CoreThreadAssumption DEF Clients, syncVars, flagVars, threadVars
<1>0. pc \in [Threads -> CpuPlaces \cup ClientPlaces]
  BY DEF ProgramTypeOK, PlacesTypeOK
<1>1. pc'[CPU] = pc[CPU] /\ waiting'["stateCond"] = waiting["stateCond"]
  BY OthersLeaveState DEF Outside
<1>2. UNCHANGED <<stateVars, cpuVars, callVars, historyVars>>
  BY DEF Outside, StartReturns, Join, AudioDevice, Draw, programVars
<1>3. UNCHANGED <<videoFrameWait, videoFrameOn, audioWait>>
  BY DEF Outside, StartReturns, Join, AudioDevice, Draw, programVars, mCoreSyncConsumeAudio,
     Display, mCoreSyncWaitFrameStart, FrameArrived, FrameTimedOut, mCoreSyncWaitFrameEnd
<1>4. ASSUME NEW c \in Clients PROVE pc'[c] = pc[c] \/ (pc[c] \notin CallPlaces /\ pc'[c] \notin CallPlaces)
  BY <1>0 DEF Outside, StartReturns, Join, AudioDevice, Draw, programVars, mCoreSyncConsumeAudio,
     Display, mCoreSyncWaitFrameStart, FrameArrived, FrameTimedOut, mCoreSyncWaitFrameEnd,
     TakeFrame, Goto, Step, CallPlaces, WaitPlaces
<1> QED
  BY <1>1, <1>2, <1>3, <1>4

\* The steps there are, as the proofs below tell them apart.
LEMMA StepCases ==
  ASSUME [Next]_vars
  PROVE  /\ frontend' = frontend
         /\ \/ CpuStep \/ RunLoopReturns \/ lineEntered
            \/ Outside
            \/ \E c \in Clients : ClientStep(c) \/ \E op \in Calls : Request(c, op)
BY DEF Next, Finished, Outside, vars

--------------------------------------------------------------------------------
(* Calls *)

\* A call goes through its own places, whoever makes it.
LEMMA StepCallsInPlace ==
  ProgramTypeOK /\ CallsInPlace /\ [Next]_vars => CallsInPlace'
<1> SUFFICES ASSUME ProgramTypeOK, CallsInPlace, [Next]_vars, NEW c \in Clients
             PROVE  InItsCall(c)'
  BY SyncAssumption DEF CallsInPlace, Clients
<1> USE DEF Clients
<1>0. /\ pc \in [Threads -> CpuPlaces \cup ClientPlaces]
      /\ call \in [Clients -> Calls \cup {"none"}]
      /\ pc[c] \in ClientPlaces
      /\ InItsCall(c) /\ frontend' = frontend
  BY StepCases DEF ProgramTypeOK, PlacesTypeOK, CallTypeOK, CallsInPlace
<1>1. ASSUME pc'[c] = pc[c], call'[c] = call[c] PROVE InItsCall(c)'
  BY <1>0, <1>1 DEF InItsCall
<1>2. ASSUME NEW op \in Calls, Request(c, op) PROVE InItsCall(c)'
  <2>1. call'[c] = op /\ pc'[c] = "enter" /\ <<c, op>> \in frontend.requests
    BY <1>0, <1>2 DEF Request, Step
  <2>2. op # "none"
    BY DEF Calls
  <2> QED
    BY <1>0, <2>1, <2>2 DEF InItsCall, CallPlaces, WaitPlaces
<1>3. ASSUME ClientStep(c) PROVE InItsCall(c)'
  <2> USE <1>0 DEF InItsCall, CallPlaces, WaitPlaces, Waiting, Pausing, Patient, InCall, Return,
                   StartWaiting, Goto, Step, callVars
  <2>1. CASE _waitOnInterrupt(c) \/ mCoreThreadInterrupt(c) \/ mCoreThreadInterruptFromThread(c)
    BY <2>1 DEF _waitOnInterrupt, mCoreThreadInterrupt, mCoreThreadInterruptFromThread
  <2>2. CASE mCoreThreadContinue(c) \/ mCoreThreadRunFunction(c) \/ mCoreThreadReset(c)
    BY <2>2 DEF mCoreThreadContinue, mCoreThreadRunFunction, mCoreThreadReset
  <2>3. CASE mCoreThreadStopWaiting(c) \/ mCoreThreadSetRewinding(c) \/ mCoreThreadEnd(c)
    BY <2>3 DEF mCoreThreadStopWaiting, mCoreThreadSetRewinding, mCoreThreadEnd
  <2>4. CASE mCoreThreadPause(c)
    BY <2>4 DEF mCoreThreadPause
  <2>5. CASE PauseVideoSync(c) \/ ArmPauseAfterFrame(c)
    BY <2>5 DEF PauseVideoSync, ArmPauseAfterFrame
  <2>6. CASE EndAudio(c) \/ EndVideo(c)
    BY <2>6 DEF EndAudio, EndVideo
  <2>7. CASE SaveVideo(c) \/ SaveAudio(c) \/ WakeVideo(c) \/ WakeAudio(c) \/ LockAgain(c)
    BY <2>7 DEF SaveVideo, SaveAudio, WakeVideo, WakeAudio, LockAgain, TestState
  <2>8. CASE RestoreAudio(c) \/ RestoreVideo(c)
    BY <2>8 DEF RestoreAudio, RestoreVideo
  <2>9. CASE SetAudioSync(c) \/ SetVideoWait(c)
    BY <2>9 DEF SetAudioSync, SetVideoWait
  <2> QED
    BY <1>3, <2>1, <2>2, <2>3, <2>4, <2>5, <2>6, <2>7, <2>8, <2>9 DEF ClientStep
<1>4. CASE CpuStep \/ RunLoopReturns \/ lineEntered
  BY <1>1, <1>4, CpuLeavesClients
<1>5. CASE Outside
  <2>1. call'[c] = call[c] /\ (pc'[c] = pc[c] \/ (pc[c] \notin CallPlaces /\ pc'[c] \notin CallPlaces))
    BY <1>5, OutsideLeavesCalls DEF callVars
  <2> QED
    BY <1>0, <2>1 DEF InItsCall, CallPlaces, WaitPlaces
<1>6. ASSUME NEW d \in Clients, d # c, ClientStep(d) PROVE InItsCall(c)'
  BY <1>1, <1>6, ClientLeavesOthers
<1>7. ASSUME NEW d \in Clients, d # c, NEW op \in Calls, Request(d, op) PROVE InItsCall(c)'
  BY <1>0, <1>1, <1>7 DEF Request, Step
<1> QED
  BY <1>2, <1>3, <1>4, <1>5, <1>6, <1>7, StepCases

LEMMA CallsStayInPlace == Spec => []CallsInPlace
<1>1. Init => CallsInPlace
  BY SyncAssumption, CoreThreadAssumption
     DEF Init, CallsInPlace, InItsCall, CallPlaces, WaitPlaces, Clients
<1> QED
  BY <1>1, StepCallsInPlace, ProgramTypesHold, PTL DEF Spec

--------------------------------------------------------------------------------
(* The synchronisation flags *)

\* With a client that waits nobody else is in a call that waits or switches.
LEMMA WaitsAlone ==
  ASSUME CallsInPlace, SwitchedByWaiter, NEW c \in Clients, NEW d \in Clients,
         call[c] \in Switching \cup Waiting, pc[d] \in WaitPlaces
  PROVE  c = d
<1>1. PICK a \in Switching \cup Waiting : <<c, a>> \in frontend.requests
  BY DEF CallsInPlace, InItsCall, Switching, Waiting, Pausing
<1>2. PICK b \in Waiting : <<d, b>> \in frontend.requests
  BY DEF CallsInPlace, InItsCall, Waiting, Pausing
<1> QED
  BY <1>1, <1>2 DEF SwitchedByWaiter

\* The flags are as they were asked for, or with the one client that waits.
FlagsInv == SwitchedByWaiter => FlagsKept /\ SyncRestored

LEMMA ClientFlagsInv ==
  ASSUME NEW c \in Clients
  PROVE  ProgramTypeOK /\ CallsInPlace /\ FlagsKept /\ SyncRestored /\ SwitchedByWaiter /\ ClientStep(c)
           => FlagsKept' /\ SyncRestored'
<1> SUFFICES ASSUME ProgramTypeOK, CallsInPlace, FlagsKept, SyncRestored, SwitchedByWaiter, ClientStep(c)
             PROVE  FlagsKept' /\ SyncRestored'
  OBVIOUS
<1> USE DEF Clients
<1>0. /\ pc \in [Threads -> CpuPlaces \cup ClientPlaces]
      /\ flags \in [Clients -> [video : BOOLEAN, audio : BOOLEAN]]
      /\ asked \in [video : BOOLEAN, audio : BOOLEAN]
      /\ audioWait \in BOOLEAN /\ videoFrameWait \in BOOLEAN
  BY DEF ProgramTypeOK, PlacesTypeOK, CallTypeOK, HistoryTypeOK, SyncVarsTypeOK
<1>1. /\ \A t \in Threads \ {c} : pc'[t] = pc[t]
      /\ \A d \in Clients \ {c} : flags'[d] = flags[d]
  BY ClientLeavesOthers
<1>2. ASSUME call[c] \in Switching \cup Waiting
      PROVE  \A d \in Clients \ {c} : pc[d] \notin WaitPlaces
  BY <1>2, WaitsAlone
<1> DEFINE Cleared == {"wakeVideo", "wakeAudio", "lockAgain", "restoreAudio"}
<1>3. ASSUME UNCHANGED <<flags, asked, audioWait, videoFrameWait>>,
             pc[c] \in WaitPlaces \ {"saveVideo"} <=> pc'[c] \in WaitPlaces \ {"saveVideo"},
             pc[c] \in Cleared <=> pc'[c] \in Cleared
      PROVE  FlagsKept' /\ SyncRestored'
  BY <1>0, <1>1, <1>3 DEF FlagsKept, SyncRestored, WaitPlaces
<1>4. CASE SaveVideo(c)
  <2>1. \A d \in Clients \ {c} : pc[d] \notin WaitPlaces
    BY <1>0, <1>2, <1>4 DEF SaveVideo, Step, CallsInPlace, InItsCall, WaitPlaces
  <2>2. videoFrameWait = asked.video
    BY <1>4, <2>1 DEF SaveVideo, Step, SyncRestored, WaitPlaces
  <2>3. pc[c] = "saveVideo" /\ pc'[c] = "saveAudio" /\ flags'[c].video = asked.video
    BY <1>0, <1>4, <2>2 DEF SaveVideo, Step
  <2> QED
    BY <1>0, <1>1, <1>4, <2>1, <2>3 DEF SaveVideo, FlagsKept, SyncRestored, WaitPlaces, historyVars
<1>5. CASE SaveAudio(c)
  <2>1. \A d \in Clients \ {c} : pc[d] \notin WaitPlaces
    BY <1>0, <1>2, <1>5 DEF SaveAudio, CallsInPlace, InItsCall, WaitPlaces
  <2>2. audioWait = asked.audio
    BY <1>5, <2>1 DEF SaveAudio, SyncRestored, WaitPlaces
  <2>3. /\ pc[c] = "saveAudio" /\ pc'[c] \in {"wakeVideo", "restoreAudio"}
        /\ flags'[c].audio = asked.audio /\ flags'[c].video = flags[c].video
    BY <1>0, <1>5, <2>2 DEF SaveAudio, TestState, Goto
  <2> QED
    BY <1>0, <1>1, <1>5, <2>1, <2>3 DEF SaveAudio, FlagsKept, SyncRestored, WaitPlaces, historyVars
<1>6. CASE RestoreAudio(c)
  <2>1. \A d \in Clients \ {c} : pc[d] \notin WaitPlaces
    BY <1>0, <1>2, <1>6 DEF RestoreAudio, Step, CallsInPlace, InItsCall, WaitPlaces
  <2>2. pc[c] = "restoreAudio" /\ pc'[c] = "restoreVideo" /\ audioWait' = asked.audio
    BY <1>0, <1>6 DEF RestoreAudio, Step, FlagsKept
  <2> QED
    BY <1>0, <1>1, <1>6, <2>1, <2>2 DEF RestoreAudio, FlagsKept, SyncRestored, WaitPlaces, historyVars, callVars
<1>7. CASE RestoreVideo(c)
  <2>1. \A d \in Clients \ {c} : pc[d] \notin WaitPlaces
    BY <1>0, <1>2, <1>7 DEF RestoreVideo, CallsInPlace, InItsCall, WaitPlaces
  <2>2. pc[c] = "restoreVideo" /\ pc'[c] \notin WaitPlaces /\ videoFrameWait' = asked.video
    BY <1>0, <1>7 DEF RestoreVideo, FlagsKept, Goto, Return, WaitPlaces
  <2>3. audioWait = asked.audio
    BY <2>1, <2>2 DEF SyncRestored, WaitPlaces
  <2> QED
    BY <1>0, <1>1, <1>7, <2>1, <2>2, <2>3 DEF RestoreVideo, FlagsKept, SyncRestored, WaitPlaces
<1>8. CASE EndAudio(c) \/ EndVideo(c) \/ SetAudioSync(c) \/ SetVideoWait(c)
  <2>1. call[c] \in Switching /\ pc[c] \notin WaitPlaces /\ pc'[c] \notin WaitPlaces
    BY <1>0, <1>8 DEF EndAudio, EndVideo, SetAudioSync, SetVideoWait, Return, Goto, Step,
       CallsInPlace, InItsCall, Switching, WaitPlaces
  <2>2. \A d \in Clients : pc[d] \notin WaitPlaces /\ pc'[d] \notin WaitPlaces
    BY <1>1, <1>2, <2>1
  <2>3. audioWait = asked.audio /\ videoFrameWait = asked.video
    BY <2>2 DEF SyncRestored, WaitPlaces
  <2>4. audioWait' = asked'.audio /\ videoFrameWait' = asked'.video
    <3>1. CASE EndAudio(c) \/ EndVideo(c)
      BY <1>0, <2>3, <3>1 DEF EndAudio, EndVideo
    <3>2. CASE SetAudioSync(c)
      BY <1>0, <2>3, <3>2 DEF SetAudioSync
    <3>3. CASE SetVideoWait(c)
      BY <1>0, <2>3, <3>3 DEF SetVideoWait
    <3> QED
      BY <1>8, <3>1, <3>2, <3>3
  <2> QED
    BY <2>2, <2>4 DEF FlagsKept, SyncRestored, WaitPlaces
<1>9. CASE \/ _waitOnInterrupt(c) \/ mCoreThreadInterrupt(c) \/ mCoreThreadInterruptFromThread(c)
           \/ mCoreThreadContinue(c) \/ mCoreThreadRunFunction(c) \/ mCoreThreadReset(c)
           \/ mCoreThreadStopWaiting(c) \/ mCoreThreadSetRewinding(c) \/ mCoreThreadPause(c)
           \/ mCoreThreadEnd(c)
  <2>1. UNCHANGED <<flags, asked, audioWait, videoFrameWait>>
    BY <1>9 DEF _waitOnInterrupt, mCoreThreadInterrupt, mCoreThreadInterruptFromThread,
       mCoreThreadContinue, mCoreThreadRunFunction, mCoreThreadReset, mCoreThreadStopWaiting,
       mCoreThreadSetRewinding, mCoreThreadPause, mCoreThreadEnd, syncVars, callVars, historyVars
  <2>2. pc[c] \in {"enter", "resume"} /\ pc'[c] \in {"resume", "idle", "saveVideo", "setVideoSync", "endAudio"}
    BY <1>0, <1>9 DEF _waitOnInterrupt, mCoreThreadInterrupt, mCoreThreadInterruptFromThread,
       mCoreThreadContinue, mCoreThreadRunFunction, mCoreThreadReset, mCoreThreadStopWaiting,
       mCoreThreadSetRewinding, mCoreThreadPause, mCoreThreadEnd, InCall, StartWaiting, Return, Goto
  <2> QED
    BY <1>3, <2>1, <2>2 DEF WaitPlaces
<1>10. CASE PauseVideoSync(c) \/ ArmPauseAfterFrame(c) \/ WakeVideo(c) \/ WakeAudio(c) \/ LockAgain(c)
  <2>1. UNCHANGED <<flags, asked, audioWait, videoFrameWait>>
    BY <1>10 DEF PauseVideoSync, ArmPauseAfterFrame, WakeVideo, WakeAudio, LockAgain,
       _changeVideoSync, Return, syncVars, callVars, historyVars
  <2>2. \/ {pc[c], pc'[c]} \subseteq {"setVideoSync", "arm", "enter", "idle"}
        \/ {pc[c], pc'[c]} \subseteq Cleared
    BY <1>0, <1>10 DEF PauseVideoSync, ArmPauseAfterFrame, WakeVideo, WakeAudio, LockAgain,
       TestState, Return, Goto, Step
  <2> QED
    BY <1>3, <2>1, <2>2 DEF WaitPlaces
<1> QED
  BY <1>4, <1>5, <1>6, <1>7, <1>8, <1>9, <1>10 DEF ClientStep

LEMMA StepFlagsInv ==
  ProgramTypeOK /\ CallsInPlace /\ FlagsInv /\ [Next]_vars => FlagsInv'
<1> SUFFICES ASSUME ProgramTypeOK, CallsInPlace, FlagsKept, SyncRestored, SwitchedByWaiter, [Next]_vars
             PROVE  FlagsKept' /\ SyncRestored'
  BY StepCases DEF FlagsInv, SwitchedByWaiter
<1>1. CASE CpuStep \/ RunLoopReturns \/ lineEntered
  <2>1. UNCHANGED <<flags, asked>> /\ \A c \in Clients : pc'[c] = pc[c]
    BY <1>1, CpuLeavesClients
  <2>2. UNCHANGED <<audioWait, videoFrameWait>>
    BY <1>1 DEF CpuStep, CpuStart, CpuLoop, CpuLock, CpuWoken, CpuParkedAudio, CpuDeferred,
       CpuRestoreState, CpuExit, FrameEnded, mCoreThreadPauseFromThread, PauseFromThreadVideoSync,
       mCoreThreadWaitFromThread, CoreCrashes, readLine, CoreSyncStep, RunLoopReturns, lineEntered,
       mCoreSyncPostFrame, PostFrameWoken, mCoreSyncProduceAudio, ProduceAudioWoken,
       _changeVideoSync, syncVars, flagVars
  <2> QED
    BY <2>1, <2>2 DEF FlagsKept, SyncRestored
<1>2. CASE Outside
  BY <1>2, OutsideLeavesCalls
     DEF FlagsKept, SyncRestored, CallPlaces, WaitPlaces, callVars, historyVars
<1>3. ASSUME NEW c \in Clients, NEW op \in Calls, Request(c, op) PROVE FlagsKept' /\ SyncRestored'
  <2>1. pc \in [Threads -> CpuPlaces \cup ClientPlaces]
    BY DEF ProgramTypeOK, PlacesTypeOK
  <2>2. /\ UNCHANGED <<flags, asked, audioWait, videoFrameWait>>
        /\ \A d \in Clients : pc'[d] = pc[d] \/ (pc[d] = "idle" /\ pc'[d] = "enter")
    BY <1>3, <2>1 DEF Request, Step, Clients, syncVars
  <2> QED
    BY <2>2 DEF FlagsKept, SyncRestored, WaitPlaces
<1> QED
  BY <1>1, <1>2, <1>3, ClientFlagsInv, StepCases

\* _waitUntilNotState gives back the synchronisation flags it has cleared, as the
\* frontend last asked for them, with any frontend that has one client who waits and
\* who alone switches them.
THEOREM SyncIsRestored == Spec => []SyncAsAsked
<1>1. Init => FlagsInv
  BY SyncAssumption, CoreThreadAssumption
     DEF Init, FlagsInv, FlagsKept, SyncRestored, WaitPlaces, Clients
<1>2. FlagsInv => SyncAsAsked
  BY DEF FlagsInv, SyncAsAsked
<1> QED
  BY <1>1, <1>2, StepFlagsInv, CallsStayInPlace, ProgramTypesHold, PTL DEF Spec

--------------------------------------------------------------------------------
(* The caller and its peers *)

\* All a peer does to the thread is to end a wait, in the state or behind it.
LEMMA PeerStep ==
  ASSUME ProgramTypeOK, CallsInPlace, NEW m \in Clients, CallsFrom(m),
         NEW c \in Clients, c # m, ClientStep(c)
  PROVE  /\ UNCHANGED <<interruptDepth, run, frameCallback, deferred, held, granted, ran,
                       videoFrameOn, frameWasOn, frameDone>>
         /\ pc'[CPU] = pc[CPU] /\ pc'[m] = pc[m] /\ call'[m] = call[m]
         /\ waiting'["stateCond"] \subseteq waiting["stateCond"]
         /\ pc'[c] # "resume"
         /\ \/ UNCHANGED <<state, savedState>>
            \/ state = "WAITING" /\ state' = "RUNNING" /\ UNCHANGED savedState
            \/ savedState = "WAITING" /\ savedState' = "RUNNING" /\ UNCHANGED state
<1> USE SyncAssumption DEF Clients, Conditions, syncVars, stateVars, cpuVars, callVars, historyVars
<1>0. /\ pc \in [Threads -> CpuPlaces \cup ClientPlaces] /\ ThreadingTypeOK
      /\ call \in [Clients -> Calls \cup {"none"}]
  BY DEF ProgramTypeOK, PlacesTypeOK, CallTypeOK
<1>1. pc[c] \in CallPlaces => call[c] \in PeerCalls
  BY <1>0 DEF CallsInPlace, InItsCall, CallsFrom, PeerCalls, Calls
<1>2. pc[c] \notin WaitPlaces \cup {"resume", "setVideoSync", "arm", "endAudio", "endVideo"}
  BY <1>1 DEF CallsInPlace, InItsCall, CallPlaces, WaitPlaces, PeerCalls, Waiting, Pausing, Patient
<1>3. mCoreThreadStopWaiting(c) \/ SetAudioSync(c) \/ SetVideoWait(c)
  BY <1>1, <1>2 DEF ClientStep, _waitOnInterrupt, mCoreThreadInterrupt,
     mCoreThreadInterruptFromThread, mCoreThreadContinue, mCoreThreadRunFunction, mCoreThreadReset,
     mCoreThreadSetRewinding, mCoreThreadPause, PauseVideoSync, ArmPauseAfterFrame, mCoreThreadEnd,
     EndAudio, EndVideo, SaveVideo, SaveAudio, WakeVideo, WakeAudio, LockAgain, RestoreAudio,
     RestoreVideo, InCall, Step, CallPlaces, WaitPlaces, PeerCalls, Pausing
<1>4. pc'[CPU] = pc[CPU] /\ pc'[m] = pc[m] /\ call'[m] = call[m]
  BY ClientLeavesOthers
<1>5. CASE mCoreThreadStopWaiting(c)
  <2>1. waiting'["stateCond"] \subseteq waiting["stateCond"]
    BY <1>0, <1>5, ConditionWakeEffect DEF mCoreThreadStopWaiting
  <2> QED
    BY <1>0, <1>4, <1>5, <2>1 DEF mCoreThreadStopWaiting, Return, Goto
<1>6. CASE SetAudioSync(c) \/ SetVideoWait(c)
  BY <1>0, <1>4, <1>6 DEF SetAudioSync, SetVideoWait, Return, Goto
<1> QED
  BY <1>3, <1>5, <1>6

\* The CPU thread counts its own interruption only.
LEMMA CpuCounted ==
  ASSUME NEW m \in Clients
  PROVE  ProgramTypeOK /\ Counted(m) /\ (CpuStep \/ RunLoopReturns \/ lineEntered) /\ UNCHANGED frontend
           => Counted(m)'
<1> SUFFICES ASSUME ProgramTypeOK, Counted(m), CpuStep \/ RunLoopReturns \/ lineEntered,
                    UNCHANGED frontend
             PROVE  Counted(m)'
  OBVIOUS
<1> USE SyncAssumption DEF syncVars, stateVars, cpuVars
<1>0. /\ pc \in [Threads -> CpuPlaces \cup ClientPlaces]
      /\ interruptDepth \in Int /\ held \in [Clients -> Int]
      /\ frameCallback \in BOOLEAN
  BY DEF ProgramTypeOK, PlacesTypeOK, StateTypeOK, HistoryTypeOK
<1>1. /\ UNCHANGED <<call, held>>
      /\ \A c \in Clients : pc'[c] = pc[c]
  BY CpuLeavesClients
<1>2. ASSUME UNCHANGED <<interruptDepth, frameCallback>>,
             pc'[CPU] # "pauseFromThread", pc[CPU] # "prompt", pc'[CPU] # "prompt"
      PROVE  Counted(m)'
  BY <1>0, <1>1, <1>2 DEF Counted, Requests
<1>3. CASE CpuLock \/ CpuWoken
  BY <1>0, <1>2, <1>3 DEF CpuLock, CpuWoken, ParkAgain, HandleState, Goto
<1>4. CASE CpuStart \/ CpuLoop \/ CpuDeferred \/ CpuRestoreState \/ CpuExit \/ RunLoopReturns
            \/ mCoreThreadPauseFromThread \/ PauseFromThreadVideoSync \/ mCoreThreadWaitFromThread
            \/ CoreCrashes
  BY <1>0, <1>2, <1>4 DEF CpuStart, CpuLoop, CpuDeferred, CpuRestoreState, CpuExit, RunLoopReturns,
     mCoreThreadPauseFromThread, PauseFromThreadVideoSync, mCoreThreadWaitFromThread, CoreCrashes, Step
<1>5. CASE CpuParkedAudio \/ CoreSyncStep
  BY <1>0, <1>2, <1>5 DEF CpuParkedAudio, CoreSyncStep, WaitForAudioRoom, mCoreSyncPostFrame,
     PostFrameWoken, OfferFrame, mCoreSyncProduceAudio, ProduceAudioWoken, Goto
<1>6. CASE FrameEnded
  BY <1>0, <1>1, <1>6 DEF FrameEnded, Step, Counted, Requests
<1>7. CASE readLine \/ lineEntered
  <2>1. /\ readLine => pc[CPU] = "core" /\ pc'[CPU] = "prompt" /\ Debugging
                       /\ interruptDepth' = interruptDepth + 1
        /\ lineEntered => pc[CPU] = "prompt" /\ pc'[CPU] = "core"
                          /\ interruptDepth' = interruptDepth - 1
        /\ UNCHANGED frameCallback
    BY <1>0, <1>7 DEF readLine, lineEntered, InterruptAtOnce, ContinueState, Step
  <2> QED
    BY <1>0, <1>1, <1>7, <2>1 DEF Counted, Requests, Debugging
<1> QED
  BY <1>3, <1>4, <1>5, <1>6, <1>7 DEF CpuStep

\* The caller counts up in its two interrupts and down in its continue.
LEMMA CallerCounted ==
  ASSUME NEW m \in Clients
  PROVE  ProgramTypeOK /\ CallsInPlace /\ CallsFrom(m) /\ Counted(m) /\ ClientStep(m) /\ UNCHANGED frontend
           => Counted(m)'
<1> SUFFICES ASSUME ProgramTypeOK, CallsInPlace, CallsFrom(m), Counted(m), ClientStep(m),
                    UNCHANGED frontend
             PROVE  Counted(m)'
  OBVIOUS
<1> USE SyncAssumption DEF Clients, stateVars, cpuVars, callVars, historyVars
<1>0. /\ pc \in [Threads -> CpuPlaces \cup ClientPlaces]
      /\ call \in [Clients -> Calls \cup {"none"}]
      /\ interruptDepth \in Int /\ held \in [Clients -> Int]
      /\ frameCallback \in BOOLEAN /\ InItsCall(m)
  BY DEF ProgramTypeOK, PlacesTypeOK, StateTypeOK, CallTypeOK, HistoryTypeOK, CallsInPlace
<1>1. /\ pc'[CPU] = pc[CPU]
      /\ \A c \in Clients \ {m} : held'[c] = held[c]
  BY ClientLeavesOthers
<1>2. ASSUME UNCHANGED <<interruptDepth, frameCallback, held>>,
             call'[m] \in {call[m], "none"},
             (pc'[m] \in WaitPlaces /\ call'[m] = "Interrupt") =>
               (pc[m] \in WaitPlaces /\ call[m] = "Interrupt")
      PROVE  Counted(m)'
  BY <1>0, <1>1, <1>2 DEF Counted, Requests, Debugging
<1>3. CASE mCoreThreadInterrupt(m)
  <2>1. /\ interruptDepth' = interruptDepth + 1 /\ held'[m] = held[m] + 1
        /\ call'[m] \in {"Interrupt", "none"} /\ UNCHANGED frameCallback
        /\ call[m] = "Interrupt"
    BY <1>0, <1>3 DEF mCoreThreadInterrupt, InCall, Return, StartWaiting
  <2>2. Requests(m, {"Interrupt", "InterruptFromThread"}) /\ UNCHANGED frontend
    BY <1>0, <2>1 DEF InItsCall, Requests
  <2>3. held[m] >= 0 /\ held[m] \in Int
    BY <1>0 DEF Counted
  <2>4. /\ held'[m] > 0
        /\ interruptDepth' = held'[m] + (IF pc'[CPU] = "prompt" THEN 1 ELSE 0)
    BY <1>0, <1>1, <2>1, <2>3 DEF Counted
  <2>5. \A ops \in {{"Interrupt", "InterruptFromThread"}, {"FrameAdvance"}} :
          Requests(m, ops) => Requests(m, ops)'
    BY <2>2 DEF Requests
  <2>6. Debugging' <=> Debugging
    BY <2>2 DEF Debugging
  <2>7. (frameCallback' \/ pc'[CPU] = "pauseFromThread") => Requests(m, {"FrameAdvance"})'
    BY <1>1, <2>1, <2>5 DEF Counted
  <2>8. pc'[CPU] = "prompt" => Debugging'
    BY <1>1, <2>6 DEF Counted
  <2>9. \A c \in Clients \ {m} : held'[c] = 0
    BY <1>1 DEF Counted
  <2>10. Requests(m, {"Interrupt", "InterruptFromThread"})'
    BY <2>2, <2>5
  <2>11. held'[m] >= 0 /\ call'[m] \in {"Interrupt", "none"}
    BY <2>1, <2>3, <2>4
  <2> QED
    BY <2>4, <2>7, <2>8, <2>9, <2>10, <2>11 DEF Counted
<1>4. CASE mCoreThreadInterruptFromThread(m)
  <2>1. /\ interruptDepth' = interruptDepth + 1 /\ held'[m] = held[m] + 1
        /\ call'[m] = "none" /\ UNCHANGED frameCallback
        /\ call[m] = "InterruptFromThread"
    BY <1>0, <1>4 DEF mCoreThreadInterruptFromThread, InterruptAtOnce, InCall, Return
  <2>2. Requests(m, {"Interrupt", "InterruptFromThread"})
    BY <1>0, <2>1 DEF InItsCall, Requests
  <2> QED
    BY <1>0, <1>1, <2>1, <2>2 DEF Counted, Requests, Debugging
<1>5. CASE mCoreThreadContinue(m)
  <2>1. /\ interruptDepth' = interruptDepth - 1 /\ held'[m] = held[m] - 1
        /\ call'[m] = "none" /\ UNCHANGED frameCallback
        /\ call[m] = "Continue"
    BY <1>0, <1>5 DEF mCoreThreadContinue, ContinueState, InCall, Return
  <2> QED
    BY <1>0, <1>1, <2>1 DEF Counted, Requests, Debugging
<1>6. CASE ArmPauseAfterFrame(m)
  <2>1. /\ call[m] = "FrameAdvance" /\ call'[m] = "Unpause" /\ pc'[m] = "enter"
        /\ UNCHANGED <<interruptDepth, held>>
    BY <1>0, <1>6 DEF ArmPauseAfterFrame, Step, InItsCall
  <2>2. Requests(m, {"FrameAdvance"})
    BY <1>0, <2>1 DEF InItsCall, Requests
  <2> QED
    BY <1>0, <1>1, <2>1, <2>2 DEF Counted, Requests, Debugging, WaitPlaces
<1>7. CASE \/ _waitOnInterrupt(m) \/ mCoreThreadRunFunction(m) \/ mCoreThreadReset(m)
           \/ mCoreThreadStopWaiting(m) \/ mCoreThreadSetRewinding(m) \/ mCoreThreadPause(m)
           \/ mCoreThreadEnd(m)
  BY <1>0, <1>2, <1>7 DEF _waitOnInterrupt, mCoreThreadRunFunction, mCoreThreadReset,
     mCoreThreadStopWaiting, mCoreThreadSetRewinding, mCoreThreadPause, mCoreThreadEnd, InCall,
     Pausing, StartWaiting, Return, Goto, WaitPlaces
<1>8. CASE \/ PauseVideoSync(m) \/ EndAudio(m) \/ EndVideo(m) \/ SetAudioSync(m) \/ SetVideoWait(m)
           \/ RestoreAudio(m) \/ RestoreVideo(m)
  BY <1>0, <1>2, <1>8 DEF PauseVideoSync, EndAudio, EndVideo, SetAudioSync, SetVideoWait,
     RestoreAudio, RestoreVideo, Return, Goto, Step, WaitPlaces
<1>9. CASE SaveVideo(m) \/ SaveAudio(m) \/ WakeVideo(m) \/ WakeAudio(m) \/ LockAgain(m)
  BY <1>0, <1>2, <1>9 DEF SaveVideo, SaveAudio, WakeVideo, WakeAudio, LockAgain, TestState,
     Goto, Step, WaitPlaces
<1> QED
  BY <1>3, <1>4, <1>5, <1>6, <1>7, <1>8, <1>9 DEF ClientStep

LEMMA StepCounted ==
  ASSUME NEW m \in Clients
  PROVE  ProgramTypeOK /\ CallsInPlace /\ CallsFrom(m) /\ Counted(m) /\ [Next]_vars => Counted(m)'
<1> SUFFICES ASSUME ProgramTypeOK, CallsInPlace, CallsFrom(m), Counted(m), [Next]_vars
             PROVE  Counted(m)'
  OBVIOUS
<1> USE SyncAssumption DEF Clients
<1>0. /\ pc \in [Threads -> CpuPlaces \cup ClientPlaces]
      /\ call \in [Clients -> Calls \cup {"none"}]
      /\ interruptDepth \in Int /\ held \in [Clients -> Int]
      /\ frontend' = frontend
  BY StepCases DEF ProgramTypeOK, PlacesTypeOK, StateTypeOK, CallTypeOK, HistoryTypeOK
<1>1. CASE CpuStep \/ RunLoopReturns \/ lineEntered
  BY <1>0, <1>1, CpuCounted
<1>2. CASE Outside
  <2>1. /\ UNCHANGED <<interruptDepth, frameCallback, call, held>> /\ pc'[CPU] = pc[CPU]
        /\ pc'[m] \in WaitPlaces => pc[m] \in WaitPlaces
    BY <1>2, OutsideLeavesCalls DEF stateVars, cpuVars, callVars, historyVars, CallPlaces
  <2> QED
    BY <1>0, <2>1 DEF Counted, Requests, Debugging
<1>3. ASSUME NEW c \in Clients, NEW op \in Calls, Request(c, op) PROVE Counted(m)'
  <2>1. /\ UNCHANGED <<interruptDepth, frameCallback, held>> /\ pc'[CPU] = pc[CPU]
        /\ \A d \in Clients \ {c} : pc'[d] = pc[d] /\ call'[d] = call[d]
        /\ pc'[c] = "enter" /\ call'[c] = op
        /\ op = "Continue" => held[c] > 0
        /\ op \notin {"Interrupt", "InterruptFromThread", "Continue", "Reset", "StopWaiting"} => held[c] = 0
    BY <1>0, <1>3 DEF Request, Step, stateVars, cpuVars
  <2> QED
    BY <1>0, <2>1 DEF Counted, Requests, Debugging, WaitPlaces
<1>4. CASE ClientStep(m)
  BY <1>0, <1>4, CallerCounted
<1>5. ASSUME NEW c \in Clients, c # m, ClientStep(c) PROVE Counted(m)'
  BY <1>0, <1>5, PeerStep DEF Counted, Requests, Debugging
<1> QED
  BY <1>1, <1>2, <1>3, <1>4, <1>5, StepCases

\* With one caller, every interruption is one it holds, or the prompt's.
LEMMA CountHolds == ASSUME NEW m \in Clients PROVE Spec /\ CallsFrom(m) => [](CallsFrom(m) /\ Counted(m))
<1>1. Init /\ CallsFrom(m) => Counted(m)
  BY SyncAssumption, CoreThreadAssumption DEF Init, Counted, WaitPlaces, Clients
<1>2. CallsFrom(m) /\ [Next]_vars => CallsFrom(m)'
  BY StepCases DEF CallsFrom
<1> QED
  BY <1>1, <1>2, StepCounted, CallsStayInPlace, ProgramTypesHold, PTL DEF Spec

--------------------------------------------------------------------------------
(* Sleeping through an interruption *)

\* Nobody but the caller sleeps through an interruption, and then it is the prompt's.
LEMMA SleepsAtPrompt ==
  ASSUME NEW m \in Clients, ProgramTypeOK, CallsInPlace, CallsFrom(m), Counted(m),
         NEW c \in Clients, pc[c] = "resume"
  PROVE  /\ c = m
         /\ (Interrupted /\ InterruptionsEnd) => pc[CPU] = "prompt" /\ interruptDepth = 1
<1>1. call[c] \in Patient /\ call[c] \in Calls
  BY DEF CallsInPlace, InItsCall, Patient, Pausing, Calls
<1>2. c = m
  BY <1>1 DEF CallsInPlace, InItsCall, CallsFrom, PeerCalls, Patient, Pausing, Calls
<1>3. held[m] = 0
  BY <1>1, <1>2 DEF Counted, Patient, Pausing
<1> QED
  BY <1>2, <1>3 DEF Counted, InterruptionsEnd

LEMMA StepSleepsInterrupted ==
  ASSUME NEW m \in Clients
  PROVE  ProgramTypeOK /\ CallsInPlace /\ CallsFrom(m) /\ Counted(m) /\ InterruptionsEnd
           /\ SleepsInterrupted /\ [Next]_vars => SleepsInterrupted'
<1> SUFFICES ASSUME ProgramTypeOK, CallsInPlace, CallsFrom(m), Counted(m), InterruptionsEnd,
                    SleepsInterrupted, [Next]_vars,
                    NEW c \in Clients, pc'[c] = "resume", c \in waiting'["stateCond"]
             PROVE  Interrupted'
  BY DEF SleepsInterrupted
<1> USE SyncAssumption DEF Clients, Conditions, stateVars
<1>0. /\ pc \in [Threads -> CpuPlaces \cup ClientPlaces] /\ ThreadingTypeOK
      /\ interruptDepth \in Int
  BY DEF ProgramTypeOK, PlacesTypeOK, StateTypeOK
<1>1. CASE CpuStep \/ RunLoopReturns \/ lineEntered
  <2>1. pc[c] = "resume"
    BY <1>1, CpuLeavesClients
  <2>2. c \in waiting["stateCond"]
    BY <1>0, <1>1, ConditionWaitEffect, WakeAndWaitEffect, ConditionWakeEffect
       DEF CpuStep, CpuStart, CpuLoop, CpuLock, CpuWoken, CpuParkedAudio, CpuDeferred,
       CpuRestoreState, CpuExit, FrameEnded, mCoreThreadPauseFromThread, PauseFromThreadVideoSync,
       mCoreThreadWaitFromThread, CoreCrashes, readLine, CoreSyncStep, RunLoopReturns, lineEntered,
       ParkAgain, HandleState, WaitForAudioRoom, mCoreSyncPostFrame, PostFrameWoken, OfferFrame,
       mCoreSyncProduceAudio, ProduceAudioWoken, InterruptAtOnce, ContinueState, _changeVideoSync
  <2>3. pc[CPU] = "prompt" /\ interruptDepth = 1 /\ Interrupted
    BY <2>1, <2>2, SleepsAtPrompt DEF SleepsInterrupted
  <2>4. lineEntered
    BY <1>1, <2>3 DEF CpuStep, CpuStart, CpuLoop, CpuLock, CpuWoken, CpuParkedAudio, CpuDeferred,
       CpuRestoreState, CpuExit, FrameEnded, mCoreThreadPauseFromThread, PauseFromThreadVideoSync,
       mCoreThreadWaitFromThread, CoreCrashes, readLine, CoreSyncStep, RunLoopReturns,
       mCoreSyncPostFrame, PostFrameWoken, mCoreSyncProduceAudio, ProduceAudioWoken, Step
  <2>5. waiting'["stateCond"] = {}
    BY <1>0, <2>3, <2>4, ConditionWakeEffect DEF lineEntered, ContinueState, LastInterrupt,
       mCoreThreadIsActive, Interrupted, ExitStates
  <2> QED
    BY <2>5
<1>2. CASE Outside
  BY <1>2, OutsideLeavesCalls DEF SleepsInterrupted, Interrupted, CallPlaces
<1>3. ASSUME NEW d \in Clients, NEW op \in Calls, Request(d, op) PROVE Interrupted'
  <2>1. pc[c] = "resume" /\ UNCHANGED <<state, waiting>>
    BY <1>0, <1>3 DEF Request, Step
  <2> QED
    BY <2>1 DEF SleepsInterrupted, Interrupted
<1>4. CASE ClientStep(m)
  <2>1. CASE _waitOnInterrupt(m)
    BY <2>1 DEF _waitOnInterrupt, Interrupted
  <2>2. CASE ~_waitOnInterrupt(m) /\ c = m
    <3>1. pc'[m] # "resume"
      BY <1>0, <1>4, <2>2 DEF ClientStep, mCoreThreadInterrupt, mCoreThreadInterruptFromThread,
         mCoreThreadContinue, mCoreThreadRunFunction, mCoreThreadReset, mCoreThreadStopWaiting,
         mCoreThreadSetRewinding, mCoreThreadPause, PauseVideoSync, ArmPauseAfterFrame,
         mCoreThreadEnd, EndAudio, EndVideo, SaveVideo, SaveAudio, WakeVideo, WakeAudio, LockAgain,
         RestoreAudio, RestoreVideo, SetAudioSync, SetVideoWait, TestState, StartWaiting, Return,
         Goto, Step
    <3> QED
      BY <2>2, <3>1
  <2>3. CASE c # m
    BY <1>4, <2>3, ClientLeavesOthers, SleepsAtPrompt
  <2> QED
    BY <2>1, <2>2, <2>3
<1>5. ASSUME NEW d \in Clients, d # m, ClientStep(d) PROVE Interrupted'
  <2>1. pc[c] = "resume" /\ c \in waiting["stateCond"]
    BY <1>5, PeerStep, ClientLeavesOthers
  <2>2. Interrupted
    BY <2>1 DEF SleepsInterrupted
  <2> QED
    BY <1>5, <2>2, PeerStep DEF Interrupted
<1> QED
  BY <1>1, <1>2, <1>3, <1>4, <1>5, StepCases

\* A client asleep in _waitOnInterrupt is asleep through an interruption, and whoever ends
\* that has woken it: with any frontend that has one caller, also when its core crashes
\* and with calls that come after the end.
THEOREM ClientsAreWoken ==
  ASSUME NEW m \in Clients PROVE Spec /\ CallsFrom(m) => []NoClientForgotten
<1>1. Init => SleepsInterrupted
  BY SyncAssumption, CoreThreadAssumption DEF Init, SleepsInterrupted, Clients
<1>2. SleepsInterrupted => NoClientForgotten
  BY DEF SleepsInterrupted, NoClientForgotten, Awake
<1> QED
  BY <1>1, <1>2, StepSleepsInterrupted, CountHolds, InterruptionsComeToAnEnd, CallsStayInPlace,
     ProgramTypesHold, PTL DEF Spec

--------------------------------------------------------------------------------
(* Before the start *)

LEMMA StepStarted == ProgramTypeOK /\ CallsInPlace /\ Started /\ [Next]_vars => Started'
<1> SUFFICES ASSUME ProgramTypeOK, CallsInPlace, Started, [Next]_vars PROVE Started'
  OBVIOUS
<1> USE SyncAssumption, CoreThreadAssumption
        DEF Clients, syncVars, stateVars, cpuVars, callVars, historyVars
<1>0. /\ pc \in [Threads -> CpuPlaces \cup ClientPlaces]
      /\ call \in [Clients -> Calls \cup {"none"}] /\ held \in [Clients -> Int]
  BY DEF ProgramTypeOK, PlacesTypeOK, CallTypeOK, HistoryTypeOK
<1>1. CASE CpuStep \/ RunLoopReturns \/ lineEntered
  <2>0. UNCHANGED <<call, held>> /\ \A c \in Clients : pc'[c] = pc[c]
    BY <1>1, CpuLeavesClients
  <2>1. CASE CpuStart
    BY <1>0, <2>1 DEF CpuStart, Step, Started
  <2>2. CASE CpuLock \/ CpuWoken
    <3>1. pc[CPU] # "start" /\ pc'[CPU] \notin {"start", "store"} /\ UNCHANGED savedState
      BY <1>0, <2>2 DEF CpuLock, CpuWoken, ParkAgain, HandleState, Goto
    <3>2. state' # state => state' # "INITIALIZED"
      BY <2>2 DEF CpuLock, CpuWoken, ParkAgain, HandleState, DeferredStates
    <3> QED
      BY <2>0, <3>1, <3>2 DEF Started
  <2>3. CASE CpuRestoreState
    BY <1>0, <2>0, <2>3 DEF CpuRestoreState, Step, Started
  <2>4. CASE CpuLoop \/ CpuDeferred \/ CpuExit \/ RunLoopReturns \/ FrameEnded
              \/ mCoreThreadPauseFromThread \/ PauseFromThreadVideoSync
              \/ mCoreThreadWaitFromThread \/ CoreCrashes
    BY <1>0, <2>0, <2>4 DEF CpuLoop, CpuDeferred, CpuExit, RunLoopReturns, FrameEnded,
       mCoreThreadPauseFromThread, PauseFromThreadVideoSync, mCoreThreadWaitFromThread,
       CoreCrashes, Step, Started
  <2>5. CASE CpuParkedAudio \/ CoreSyncStep
    BY <1>0, <2>0, <2>5 DEF CpuParkedAudio, CoreSyncStep, WaitForAudioRoom, mCoreSyncPostFrame,
       PostFrameWoken, OfferFrame, mCoreSyncProduceAudio, ProduceAudioWoken, Goto, Started
  <2>6. CASE readLine \/ lineEntered
    BY <1>0, <2>0, <2>6 DEF readLine, lineEntered, InterruptAtOnce, ContinueState, Step, Started
  <2> QED
    BY <1>1, <2>1, <2>2, <2>3, <2>4, <2>5, <2>6 DEF CpuStep
<1>2. CASE Outside
  <2>1. /\ UNCHANGED <<stateVars, cpuVars, callVars, historyVars>> /\ pc'[CPU] = pc[CPU]
    BY <1>2, OutsideLeavesCalls
  <2>2. pc[CPU] = "start" => pc'[Owner] = pc[Owner]
    BY <1>0, <1>2 DEF Started, Outside, StartReturns, Join, AudioDevice, Draw, programVars, threadVars,
       mCoreSyncConsumeAudio, Display, mCoreSyncWaitFrameStart, FrameArrived, FrameTimedOut,
       mCoreSyncWaitFrameEnd, TakeFrame, Goto, Step
  <2> QED
    BY <2>1, <2>2 DEF Started
<1>3. ASSUME NEW c \in Clients, NEW op \in Calls, Request(c, op) PROVE Started'
  BY <1>0, <1>3 DEF Request, Step, Started
<1>4. ASSUME NEW c \in Clients, ClientStep(c) PROVE Started'
  <2>1. pc[CPU] # "start" /\ state # "INITIALIZED"
    BY <1>4, ClientLeavesOthers DEF Started, CallsInPlace, InItsCall
  <2>2. pc'[CPU] = pc[CPU] /\ UNCHANGED deferred
    BY <1>4, ClientLeavesOthers
  <2>3. state' # "INITIALIZED" /\ savedState' # "INITIALIZED"
    BY <1>4, <2>1 DEF Started, ClientStep, _waitOnInterrupt, mCoreThreadInterrupt,
       mCoreThreadInterruptFromThread, mCoreThreadContinue, mCoreThreadRunFunction,
       mCoreThreadReset, mCoreThreadStopWaiting, mCoreThreadSetRewinding, mCoreThreadPause,
       PauseVideoSync, ArmPauseAfterFrame, mCoreThreadEnd, EndAudio, EndVideo, SaveVideo,
       SaveAudio, WakeVideo, WakeAudio, LockAgain, RestoreAudio, RestoreVideo, SetAudioSync,
       SetVideoWait, InterruptAtOnce, ContinueState
  <2> QED
    BY <2>1, <2>2, <2>3 DEF Started
<1> QED
  BY <1>1, <1>2, <1>3, <1>4, StepCases

LEMMA StartedHolds == Spec => []Started
<1>1. Init => Started
  BY SyncAssumption, CoreThreadAssumption DEF Init, Started, Clients
<1> QED
  BY <1>1, StepStarted, CallsStayInPlace, ProgramTypesHold, PTL DEF Spec

--------------------------------------------------------------------------------
(* The function that runs once *)

\* A client that waits for its function holds no interrupt: the depth is zero.
LEMMA NoDepthInFunction ==
  ASSUME NEW m \in Clients, ProgramTypeOK, CallsInPlace, Counted(m), NoFunctionAtPrompt(m),
         call[m] = "RunFunction"
  PROVE  interruptDepth = 0 /\ ~Debugging
<1>1. Requests(m, {"RunFunction"})
  BY DEF CallsInPlace, InItsCall, Requests
<1>2. ~Debugging
  BY <1>1 DEF NoFunctionAtPrompt
<1> QED
  BY <1>2 DEF Counted

LEMMA CpuFunctionInv ==
  ASSUME NEW m \in Clients
  PROVE  ProgramTypeOK /\ CallsInPlace /\ Counted(m) /\ NoFunctionAtPrompt(m) /\ Started
           /\ FunctionInv(m) /\ (CpuStep \/ RunLoopReturns \/ lineEntered) => FunctionInv(m)'
<1> SUFFICES ASSUME ProgramTypeOK, CallsInPlace, Counted(m), NoFunctionAtPrompt(m), Started,
                    FunctionInv(m), CpuStep \/ RunLoopReturns \/ lineEntered
             PROVE  FunctionInv(m)'
  OBVIOUS
<1> USE SyncAssumption DEF syncVars, stateVars, cpuVars, CoreStopped
<1>0. /\ pc \in [Threads -> CpuPlaces \cup ClientPlaces]
      /\ ran \in [Clients -> 0..2] /\ interruptDepth \in Int
  BY DEF ProgramTypeOK, PlacesTypeOK, StateTypeOK, HistoryTypeOK
<1>1. call'[m] = call[m] /\ pc'[m] = pc[m]
  BY CpuLeavesClients
<1>2. state = "RUN_ON" => call[m] = "RunFunction"
  BY DEF FunctionInv
<1>3. CASE CpuStart
  BY <1>0, <1>1, <1>3 DEF CpuStart, Step, Started, FunctionInv, historyVars
<1>4. CASE CpuLock \/ CpuWoken
  <2>1. UNCHANGED <<savedState, run, ran>> /\ pc'[CPU] \notin {"restore", "store"}
    BY <1>0, <1>4 DEF CpuLock, CpuWoken, ParkAgain, HandleState, Goto, historyVars
  <2>2. pc[CPU] \notin {"restore", "store"}
    BY <1>4 DEF CpuLock, CpuWoken
  <2>3. state = "RUN_ON" <=> state' = "RUN_ON"
    BY <1>4 DEF CpuLock, CpuWoken, ParkAgain, HandleState, DeferredStates, WaitingStates
  <2>4. pc'[CPU] \in {"parked", "parkedAudio", "parkedBlocked", "relock"} => deferred' # "RUN_ON"
    BY <1>0, <1>4 DEF CpuLock, CpuWoken, ParkAgain, HandleState, Goto, FunctionInv, WaitingStates
  <2>5. deferred' = "RUN_ON" => state = "RUN_ON"
    BY <1>0, <1>4 DEF CpuLock, CpuWoken, ParkAgain, HandleState, FunctionInv, WaitingStates
  <2>6. state \in ExitStates => state' = state
    BY <1>4 DEF CpuLock, CpuWoken, ParkAgain, HandleState, DeferredStates, WaitingStates, ExitStates
  <2> QED
    BY <1>1, <2>1, <2>2, <2>3, <2>4, <2>5, <2>6 DEF FunctionInv
<1>5. CASE CpuDeferred
  <2>0. /\ pc[CPU] = "deferred" /\ pc'[CPU] \in {"restore", "loop"}
        /\ UNCHANGED <<state, savedState, deferred, run>>
    BY <1>0, <1>5 DEF CpuDeferred, Step
  <2>1. CASE deferred = "RUN_ON"
    <3>1. state = "RUN_ON" /\ run = m /\ ran[m] = 0
      BY <2>0, <2>1 DEF FunctionInv, BeforeRestore
    <3>2. ran' = [ran EXCEPT ![m] = IF ran[m] < 2 THEN ran[m] + 1 ELSE 2]
      BY <1>5, <2>1, <3>1 DEF CpuDeferred
    <3>3. ran'[m] = 1 /\ pc'[CPU] = "restore"
      BY <1>0, <1>5, <2>1, <3>1, <3>2 DEF CpuDeferred, Step
    <3> QED
      BY <1>1, <2>0, <3>1, <3>3 DEF FunctionInv, BeforeRestore, WaitPlaces
  <2>2. CASE deferred # "RUN_ON"
    <3>1. pc'[CPU] = "loop" /\ UNCHANGED ran
      BY <1>0, <1>5, <2>2 DEF CpuDeferred, Step
    <3> QED
      BY <1>1, <2>0, <3>1 DEF FunctionInv
  <2> QED
    BY <2>1, <2>2
<1>6. CASE CpuRestoreState
  BY <1>0, <1>1, <1>6 DEF CpuRestoreState, Step, FunctionInv, historyVars
<1>7. CASE CpuLoop \/ CpuExit \/ RunLoopReturns \/ FrameEnded \/ PauseFromThreadVideoSync
  BY <1>0, <1>1, <1>7 DEF CpuLoop, CpuExit, RunLoopReturns, FrameEnded, PauseFromThreadVideoSync,
     Step, FunctionInv, historyVars, ExitStates
<1>8. CASE mCoreThreadPauseFromThread \/ mCoreThreadWaitFromThread \/ CoreCrashes
  <2>1. call[m] = "RunFunction" => interruptDepth = 0
    BY NoDepthInFunction
  <2>2. UNCHANGED <<deferred, run, ran>> /\ {pc[CPU], pc'[CPU]} \subseteq {"core", "pauseFromThread", "videoSync"}
    BY <1>0, <1>8 DEF mCoreThreadPauseFromThread, mCoreThreadWaitFromThread, CoreCrashes, Step, historyVars
  <2>3. /\ savedState' # "RUN_ON" /\ (state' = "RUN_ON" => state = "RUN_ON")
        /\ call[m] = "RunFunction" => (UNCHANGED state \/ state = "RUNNING" \/ state' \in ExitStates)
    BY <1>8, <2>1 DEF mCoreThreadPauseFromThread, mCoreThreadWaitFromThread, CoreCrashes, FunctionInv, ExitStates
  <2> QED
    BY <1>1, <2>2, <2>3 DEF FunctionInv, ExitStates
<1>9. CASE CpuParkedAudio \/ CoreSyncStep
  <2>1. UNCHANGED <<state, savedState, deferred, run, ran>>
    BY <1>9 DEF CpuParkedAudio, CoreSyncStep, historyVars
  <2>2. \/ {pc[CPU], pc'[CPU]} \subseteq {"core", "post", "posted", "audioBlocked"}
        \/ {pc[CPU], pc'[CPU]} \subseteq {"parked", "parkedAudio", "parkedBlocked", "relock"}
    BY <1>0, <1>9 DEF CpuParkedAudio, CoreSyncStep, WaitForAudioRoom, mCoreSyncPostFrame,
       PostFrameWoken, OfferFrame, mCoreSyncProduceAudio, ProduceAudioWoken, Goto
  <2> QED
    BY <1>1, <2>1, <2>2 DEF FunctionInv
<1>10. CASE readLine \/ lineEntered
  <2>1. Debugging
    BY <1>10 DEF readLine, lineEntered, Step, Counted
  <2>2. call[m] # "RunFunction"
    BY <2>1, NoDepthInFunction
  <2>3. state # "RUN_ON"
    BY <1>2, <2>2
  <2> QED
    BY <1>0, <1>1, <1>10, <2>2, <2>3 DEF readLine, lineEntered, InterruptAtOnce, ContinueState, Step,
       FunctionInv, historyVars
<1> QED
  BY <1>3, <1>4, <1>5, <1>6, <1>7, <1>8, <1>9, <1>10 DEF CpuStep

\* What the caller asks of the thread it asks outside of its waits, and so with no
\* function under way.
LEMMA CallerFunctionInv ==
  ASSUME NEW m \in Clients
  PROVE  ProgramTypeOK /\ CallsInPlace /\ FunctionInv(m) /\ ClientStep(m) => FunctionInv(m)'
<1> SUFFICES ASSUME ProgramTypeOK, CallsInPlace, FunctionInv(m), ClientStep(m)
             PROVE  FunctionInv(m)'
  OBVIOUS
<1> USE SyncAssumption DEF Clients, syncVars, stateVars, cpuVars, callVars, CoreStopped
<1>0. /\ pc \in [Threads -> CpuPlaces \cup ClientPlaces]
      /\ call \in [Clients -> Calls \cup {"none"}]
      /\ ran \in [Clients -> 0..2] /\ InItsCall(m)
  BY DEF ProgramTypeOK, PlacesTypeOK, CallTypeOK, HistoryTypeOK, CallsInPlace
<1>1. pc'[CPU] = pc[CPU] /\ UNCHANGED <<ran, deferred>>
  BY ClientLeavesOthers
<1>2. CASE pc[m] \notin WaitPlaces
  <2>1. state # "RUN_ON" /\ pc[CPU] \notin {"restore", "store"} /\ ~(pc[CPU] = "deferred" /\ deferred = "RUN_ON")
    BY <1>2 DEF FunctionInv, BeforeRestore
  <2>2. CASE mCoreThreadRunFunction(m)
    <3>1. /\ state' = "RUN_ON" /\ savedState' = state /\ run' = m
          /\ pc'[m] = "saveVideo" /\ call'[m] = "RunFunction" /\ ran[m] = 0
      BY <1>0, <2>2 DEF mCoreThreadRunFunction, InCall, StartWaiting, Goto, FunctionInv
    <3> QED
      BY <1>1, <2>1, <3>1 DEF FunctionInv, BeforeRestore, WaitPlaces
  <2>3. CASE _waitOnInterrupt(m)
    BY <1>0, <1>1, <2>1, <2>3 DEF _waitOnInterrupt, InCall, Goto, FunctionInv, WaitPlaces
  <2>4. CASE ~mCoreThreadRunFunction(m) /\ ~_waitOnInterrupt(m)
    <3>1. /\ state' # "RUN_ON" /\ savedState' # "RUN_ON"
      BY <1>2, <2>1, <2>4 DEF FunctionInv, ClientStep, mCoreThreadInterrupt,
         mCoreThreadInterruptFromThread, mCoreThreadContinue, mCoreThreadReset,
         mCoreThreadStopWaiting, mCoreThreadSetRewinding, mCoreThreadPause, PauseVideoSync,
         ArmPauseAfterFrame, mCoreThreadEnd, EndAudio, EndVideo, SaveVideo, SaveAudio, WakeVideo,
         WakeAudio, LockAgain, RestoreAudio, RestoreVideo, SetAudioSync, SetVideoWait,
         InterruptAtOnce, ContinueState
    <3>2. call'[m] # "RunFunction"
      BY <1>0, <1>2, <2>4 DEF ClientStep, mCoreThreadInterrupt,
         mCoreThreadInterruptFromThread, mCoreThreadContinue, mCoreThreadReset,
         mCoreThreadStopWaiting, mCoreThreadSetRewinding, mCoreThreadPause, PauseVideoSync,
         ArmPauseAfterFrame, mCoreThreadEnd, EndAudio, EndVideo, SaveVideo, SaveAudio, WakeVideo,
         WakeAudio, LockAgain, RestoreAudio, RestoreVideo, SetAudioSync, SetVideoWait,
         InCall, Return, Goto, StartWaiting, Step, InItsCall, Pausing, WaitPlaces
    <3> QED
      BY <1>1, <2>1, <3>1, <3>2 DEF FunctionInv
  <2> QED
    BY <2>2, <2>3, <2>4
<1>3. CASE pc[m] \in WaitPlaces
  <2>1. \/ SaveVideo(m) \/ SaveAudio(m) \/ WakeVideo(m) \/ WakeAudio(m) \/ LockAgain(m)
        \/ RestoreAudio(m) \/ RestoreVideo(m)
    BY <1>3 DEF ClientStep, _waitOnInterrupt, mCoreThreadInterrupt, mCoreThreadInterruptFromThread,
       mCoreThreadContinue, mCoreThreadRunFunction, mCoreThreadReset, mCoreThreadStopWaiting,
       mCoreThreadSetRewinding, mCoreThreadPause, PauseVideoSync, ArmPauseAfterFrame,
       mCoreThreadEnd, EndAudio, EndVideo, SetAudioSync, SetVideoWait, InCall, Step, WaitPlaces
  <2>2. UNCHANGED <<state, savedState, run>>
    BY <2>1 DEF SaveVideo, SaveAudio, WakeVideo, WakeAudio, LockAgain, RestoreAudio, RestoreVideo
  <2>3. /\ call[m] = "RunFunction" /\ pc'[m] \notin BeforeRestore => state # "RUN_ON"
        /\ call'[m] \in {call[m], "none"} /\ pc'[m] \notin {"enter", "resume"}
        /\ call'[m] = call[m] \/ pc[m] = "restoreVideo"
    BY <1>0, <2>1 DEF SaveVideo, SaveAudio, WakeVideo, WakeAudio, LockAgain, RestoreAudio, RestoreVideo,
       TestState, WaitedFor, Return, Goto, Step, FunctionInv, BeforeRestore, WaitPlaces
  <2> QED
    BY <1>1, <1>3, <2>2, <2>3 DEF FunctionInv, BeforeRestore, WaitPlaces
<1> QED
  BY <1>2, <1>3

LEMMA StepFunctionInv ==
  ASSUME NEW m \in Clients
  PROVE  ProgramTypeOK /\ CallsInPlace /\ CallsFrom(m) /\ Counted(m) /\ NoFunctionAtPrompt(m)
           /\ Started /\ FunctionInv(m) /\ [Next]_vars => FunctionInv(m)'
<1> SUFFICES ASSUME ProgramTypeOK, CallsInPlace, CallsFrom(m), Counted(m), NoFunctionAtPrompt(m),
                    Started, FunctionInv(m), [Next]_vars
             PROVE  FunctionInv(m)'
  OBVIOUS
<1> USE SyncAssumption DEF Clients, CoreStopped
<1>0. /\ pc \in [Threads -> CpuPlaces \cup ClientPlaces]
      /\ call \in [Clients -> Calls \cup {"none"}]
      /\ ran \in [Clients -> 0..2]
  BY DEF ProgramTypeOK, PlacesTypeOK, CallTypeOK, HistoryTypeOK
<1>1. CASE CpuStep \/ RunLoopReturns \/ lineEntered
  BY <1>1, CpuFunctionInv
<1>2. CASE Outside
  BY <1>2, OutsideLeavesCalls DEF FunctionInv, BeforeRestore, CallPlaces, WaitPlaces,
     stateVars, cpuVars, callVars, historyVars
<1>3. ASSUME NEW op \in Calls, Request(m, op) PROVE FunctionInv(m)'
  <2>1. /\ pc[m] = "idle" /\ pc'[m] = "enter" /\ ran'[m] = 0 /\ pc'[CPU] = pc[CPU]
        /\ UNCHANGED <<stateVars, cpuVars>>
    BY <1>0, <1>3 DEF Request, Step
  <2>2. state # "RUN_ON"
    BY <2>1 DEF FunctionInv, BeforeRestore, WaitPlaces
  <2> QED
    BY <2>1, <2>2 DEF FunctionInv, WaitPlaces, stateVars, cpuVars
<1>4. ASSUME NEW c \in Clients, c # m, NEW op \in Calls, Request(c, op) PROVE FunctionInv(m)'
  <2>1. /\ pc'[m] = pc[m] /\ pc'[CPU] = pc[CPU] /\ call'[m] = call[m] /\ ran'[m] = ran[m]
        /\ UNCHANGED <<stateVars, cpuVars>>
    BY <1>0, <1>4 DEF Request, Step
  <2> QED
    BY <2>1 DEF FunctionInv, stateVars, cpuVars
<1>5. CASE ClientStep(m)
  BY <1>5, CallerFunctionInv
<1>6. ASSUME NEW c \in Clients, c # m, ClientStep(c) PROVE FunctionInv(m)'
  <2>1. /\ UNCHANGED <<run, deferred, ran>>
        /\ pc'[CPU] = pc[CPU] /\ pc'[m] = pc[m] /\ call'[m] = call[m]
        /\ \/ UNCHANGED <<state, savedState>>
           \/ state = "WAITING" /\ state' = "RUNNING" /\ UNCHANGED savedState
           \/ savedState = "WAITING" /\ savedState' = "RUNNING" /\ UNCHANGED state
    BY <1>6, PeerStep
  <2> QED
    BY <2>1 DEF FunctionInv, ExitStates
<1> QED
  BY <1>1, <1>2, <1>3, <1>4, <1>5, <1>6, StepCases

LEMMA FunctionHolds ==
  ASSUME NEW m \in Clients
  PROVE  Spec /\ CallsFrom(m) /\ NoFunctionAtPrompt(m) => [](NoFunctionAtPrompt(m) /\ FunctionInv(m))
<1>1. Init => FunctionInv(m)
  BY SyncAssumption, CoreThreadAssumption
     DEF Init, FunctionInv, CoreStopped, WaitPlaces, Clients
<1>2. NoFunctionAtPrompt(m) /\ [Next]_vars => NoFunctionAtPrompt(m)'
  BY StepCases DEF NoFunctionAtPrompt, Debugging, Requests
<1> QED
  BY <1>1, <1>2, StepFunctionInv, CountHolds, StartedHolds, CallsStayInPlace, ProgramTypesHold,
     PTL DEF Spec

\* mCoreThreadRunFunction returns when its function has run, exactly once, unless the
\* thread is on its way out: with any frontend that has one caller and runs no functions
\* while the debugger is attached, also when its core crashes.
THEOREM FunctionHasRun ==
  ASSUME NEW m \in Clients
  PROVE  Spec /\ CallsFrom(m) /\ NoFunctionAtPrompt(m) => FunctionRunsOnce
<1> DEFINE Returned(c) == call[c] = "RunFunction" /\ call'[c] = "none"
<1>1. ASSUME ProgramTypeOK, CallsInPlace, CallsFrom(m), FunctionInv(m), [Next]_vars
      PROVE  [\A c \in Clients : Returned(c) => (ran[c] = 1 \/ state \in ExitStates)]_vars
  <2> SUFFICES ASSUME NEW c \in Clients, Returned(c) PROVE ran[c] = 1 \/ state \in ExitStates
    OBVIOUS
  <2> USE SyncAssumption DEF Clients
  <2>0. call \in [Clients -> Calls \cup {"none"}] /\ pc \in [Threads -> CpuPlaces \cup ClientPlaces]
    BY <1>1 DEF ProgramTypeOK, PlacesTypeOK, CallTypeOK
  <2>1. c = m
    BY <1>1 DEF CallsFrom, PeerCalls, CallsInPlace, InItsCall, Calls
  <2>2. ClientStep(m)
    <3>1. ~(CpuStep \/ RunLoopReturns \/ lineEntered)
      BY <1>1, <2>1, CpuLeavesClients
    <3>2. ~Outside
      BY <1>1, <2>1, OutsideLeavesCalls DEF callVars
    <3>3. ~\E d \in Clients, op \in Calls : Request(d, op)
      BY <2>0, <2>1 DEF Request, Calls
    <3>4. ~\E d \in Clients \ {m} : ClientStep(d)
      BY <1>1, <2>1, ClientLeavesOthers
    <3> QED
      BY <1>1, <3>1, <3>2, <3>3, <3>4, StepCases
  <2>3. RestoreVideo(m)
    BY <1>1, <2>0, <2>1, <2>2 DEF ClientStep, _waitOnInterrupt, mCoreThreadInterrupt,
       mCoreThreadInterruptFromThread, mCoreThreadContinue, mCoreThreadRunFunction,
       mCoreThreadReset, mCoreThreadStopWaiting, mCoreThreadSetRewinding, mCoreThreadPause,
       PauseVideoSync, ArmPauseAfterFrame, mCoreThreadEnd, EndAudio, EndVideo, SaveVideo,
       SaveAudio, WakeVideo, WakeAudio, LockAgain, RestoreAudio, SetAudioSync, SetVideoWait,
       InCall, Return, callVars, CallsInPlace, InItsCall, Pausing
  <2> QED
    BY <1>1, <2>1, <2>3 DEF RestoreVideo, FunctionInv, BeforeRestore, WaitPlaces
<1> QED
  BY <1>1, FunctionHolds, CountHolds, CallsStayInPlace, ProgramTypesHold, PTL DEF Spec, FunctionRunsOnce

--------------------------------------------------------------------------------
(* The interruption that is complete *)

\* Without the debugger the caller's interrupts are all there are.
LEMMA DepthIsHeld ==
  ASSUME NEW m \in Clients, ProgramTypeOK, Counted(m), ~Debugging
  PROVE  pc[CPU] # "prompt" /\ interruptDepth = held[m]
BY DEF Counted, ProgramTypeOK, HistoryTypeOK

\* Where nobody declares the core interrupted for the CPU thread, there is no prompt and no
\* call that could.
LEMMA OnlyCpuAnswers ==
  ASSUME NEW c \in Clients, CallsInPlace, ~AnswersForCpu
  PROVE  ~Debugging /\ ~mCoreThreadInterruptFromThread(c)
<1>1. call[c] # "InterruptFromThread"
  BY DEF CallsInPlace, InItsCall, AnswersForCpu
<1> QED
  BY <1>1 DEF AnswersForCpu, mCoreThreadInterruptFromThread, InCall

LEMMA StepInterruptedIsStopped ==
  ASSUME NEW m \in Clients
  PROVE  ProgramTypeOK /\ CallsInPlace /\ CallsFrom(m) /\ Counted(m) /\ ~AnswersForCpu /\ InterruptIInv
           /\ InterruptedIsStopped /\ [Next]_vars => InterruptedIsStopped'
<1> SUFFICES ASSUME ProgramTypeOK, CallsInPlace, CallsFrom(m), Counted(m), ~AnswersForCpu, InterruptIInv,
                    InterruptedIsStopped, [Next]_vars
             PROVE  InterruptedIsStopped'
  OBVIOUS
<1> USE SyncAssumption DEF Clients, InterruptedIsStopped, CoreStopped, stateVars, cpuVars
<1>0. /\ pc \in [Threads -> CpuPlaces \cup ClientPlaces] /\ interruptDepth \in Int
      /\ held \in [Clients -> Int]
  BY DEF ProgramTypeOK, PlacesTypeOK, StateTypeOK, HistoryTypeOK
<1>1. CASE CpuStep \/ RunLoopReturns \/ lineEntered
  <2>1. CASE CpuLock \/ CpuWoken
    BY <1>0, <2>1 DEF CpuLock, CpuWoken, ParkAgain, HandleState, DeferredStates, WaitingStates, Goto
  <2>2. CASE CpuRestoreState
    BY <1>0, <2>2 DEF CpuRestoreState, Step, InterruptIInv
  <2>3. CASE CpuStart \/ CpuLoop \/ CpuDeferred \/ CpuExit \/ RunLoopReturns \/ FrameEnded
              \/ mCoreThreadPauseFromThread \/ PauseFromThreadVideoSync
              \/ mCoreThreadWaitFromThread \/ CoreCrashes
    BY <1>0, <2>3 DEF CpuStart, CpuLoop, CpuDeferred, CpuExit, RunLoopReturns, FrameEnded,
       mCoreThreadPauseFromThread, PauseFromThreadVideoSync, mCoreThreadWaitFromThread,
       CoreCrashes, Step
  <2>4. CASE CpuParkedAudio \/ CoreSyncStep
    BY <1>0, <2>4 DEF CpuParkedAudio, CoreSyncStep, WaitForAudioRoom, mCoreSyncPostFrame,
       PostFrameWoken, OfferFrame, mCoreSyncProduceAudio, ProduceAudioWoken, Goto
  <2>5. ~readLine /\ ~lineEntered
    BY DepthIsHeld DEF readLine, lineEntered, Step, AnswersForCpu
  <2> QED
    BY <1>1, <2>1, <2>2, <2>3, <2>4, <2>5 DEF CpuStep
<1>2. CASE Outside
  BY <1>2, OutsideLeavesCalls
<1>3. ASSUME NEW c \in Clients, NEW op \in Calls, Request(c, op) PROVE InterruptedIsStopped'
  BY <1>0, <1>3 DEF Request, Step
<1>4. CASE ClientStep(m)
  <2>1. pc'[CPU] = pc[CPU]
    BY <1>4, ClientLeavesOthers
  <2>2. ~mCoreThreadInterruptFromThread(m)
    BY OnlyCpuAnswers
  <2>3. state' = "INTERRUPTED" => state = "INTERRUPTED"
    BY <1>4, <2>2 DEF InterruptIInv, InterruptionsEnd, ClientStep, _waitOnInterrupt, mCoreThreadInterrupt,
       mCoreThreadContinue, mCoreThreadRunFunction, mCoreThreadReset, mCoreThreadStopWaiting,
       mCoreThreadSetRewinding, mCoreThreadPause, PauseVideoSync, ArmPauseAfterFrame,
       mCoreThreadEnd, EndAudio, EndVideo, SaveVideo, SaveAudio, WakeVideo, WakeAudio, LockAgain,
       RestoreAudio, RestoreVideo, SetAudioSync, SetVideoWait, ContinueState
  <2> QED
    BY <2>1, <2>3
<1>5. ASSUME NEW c \in Clients, c # m, ClientStep(c) PROVE InterruptedIsStopped'
  BY <1>5, PeerStep
<1> QED
  BY <1>1, <1>2, <1>3, <1>4, <1>5, StepCases

LEMMA InterruptIInvHolds == Spec => []InterruptIInv
<1>1. Init => InterruptIInv
  BY SyncAssumption, CoreThreadAssumption
     DEF Init, InterruptIInv, InterruptionsEnd, Interrupted, Clients
<1> QED
  BY <1>1, StepInterruptIInv, ProgramTypesHold, PTL DEF Spec

LEMMA OnlyCpuStays == ~AnswersForCpu /\ [Next]_vars => ~AnswersForCpu'
BY StepCases DEF AnswersForCpu, Debugging

LEMMA StoppedHolds ==
  ASSUME NEW m \in Clients
  PROVE  Spec /\ CallsFrom(m) /\ ~AnswersForCpu => [](~AnswersForCpu /\ InterruptedIsStopped)
<1>1. Init => InterruptedIsStopped
  BY DEF Init, InterruptedIsStopped
<1> QED
  BY <1>1, OnlyCpuStays, StepInterruptedIsStopped, CountHolds, InterruptIInvHolds,
     CallsStayInPlace, ProgramTypesHold, PTL DEF Spec

\* Without the debugger no function is run at its prompt.
LEMMA FunctionHoldsUndisturbed ==
  ASSUME NEW m \in Clients
  PROVE  Spec /\ CallsFrom(m) /\ ~AnswersForCpu => [](NoFunctionAtPrompt(m) /\ FunctionInv(m))
<1>1. ~AnswersForCpu => NoFunctionAtPrompt(m)
  BY DEF NoFunctionAtPrompt, AnswersForCpu
<1> QED
  BY <1>1, FunctionHolds, PTL

--------------------------------------------------------------------------------
(* The interruption that was granted *)

\* An interruption that is complete is not the CPU thread's to end.
LEMMA InterruptedStays ==
  ASSUME InterruptedIsStopped, CpuStep \/ RunLoopReturns \/ lineEntered, ~readLine, ~lineEntered,
         state = "INTERRUPTED"
  PROVE  state' = "INTERRUPTED"
BY DEF InterruptedIsStopped, CoreStopped, stateVars, CpuStep, CpuStart, CpuLoop, CpuLock, CpuWoken,
   CpuParkedAudio, CpuDeferred, CpuRestoreState, CpuExit, FrameEnded, mCoreThreadPauseFromThread,
   PauseFromThreadVideoSync, mCoreThreadWaitFromThread, CoreCrashes, CoreSyncStep,
   RunLoopReturns, ParkAgain, HandleState, WaitingStates, Step

\* Nor does it end one on its way to be complete, but by ending itself.
LEMMA InterruptionKept ==
  ASSUME NEW m \in Clients, Started, Counted(m), NoAdvanceInterrupted(m), FunctionInv(m),
         CpuStep \/ RunLoopReturns \/ lineEntered, ~readLine, ~lineEntered,
         held[m] > 0, Interrupted \/ state \in ExitStates
  PROVE  /\ Interrupted' \/ state' \in ExitStates
         /\ state' = "INTERRUPTING" => state = "INTERRUPTING"
<1>1. pc[CPU] \notin {"start", "pauseFromThread", "store"}
  BY DEF Started, Counted, NoAdvanceInterrupted, FunctionInv, Interrupted, ExitStates
<1>2. state \notin {"RUNNING", "PAUSING", "RESETING", "RUN_ON"}
  BY DEF Interrupted, ExitStates
<1> QED
  BY <1>1, <1>2 DEF stateVars, CpuStep, CpuStart, CpuLoop, CpuLock, CpuWoken, CpuParkedAudio,
     CpuDeferred, CpuRestoreState, CpuExit, FrameEnded, mCoreThreadPauseFromThread,
     PauseFromThreadVideoSync, mCoreThreadWaitFromThread, CoreCrashes, CoreSyncStep,
     RunLoopReturns, ParkAgain, HandleState, DeferredStates, Step, Interrupted, ExitStates

LEMMA CpuGrantedInv ==
  ASSUME NEW m \in Clients
  PROVE  ProgramTypeOK /\ Counted(m) /\ ~AnswersForCpu /\ NoAdvanceInterrupted(m) /\ Started
           /\ InterruptedIsStopped /\ FunctionInv(m) /\ GrantedInv(m)
           /\ (CpuStep \/ RunLoopReturns \/ lineEntered) => GrantedInv(m)'
<1> SUFFICES ASSUME ProgramTypeOK, Counted(m), ~AnswersForCpu, NoAdvanceInterrupted(m), Started,
                    InterruptedIsStopped, FunctionInv(m), GrantedInv(m),
                    CpuStep \/ RunLoopReturns \/ lineEntered
             PROVE  GrantedInv(m)'
  OBVIOUS
<1> USE SyncAssumption DEF stateVars, CoreStopped
<1>0. /\ pc \in [Threads -> CpuPlaces \cup ClientPlaces]
  BY DEF ProgramTypeOK, PlacesTypeOK
<1>1. UNCHANGED <<call, held, granted>> /\ pc'[m] = pc[m]
  BY CpuLeavesClients
<1>2. ~readLine /\ ~lineEntered
  BY DepthIsHeld DEF readLine, lineEntered, Step, AnswersForCpu
<1>3. state = "INTERRUPTED" => state' = "INTERRUPTED"
  BY <1>2, InterruptedStays
<1>4. ASSUME held[m] > 0, Interrupted \/ state \in ExitStates
      PROVE  /\ Interrupted' \/ state' \in ExitStates
             /\ state' = "INTERRUPTING" => state = "INTERRUPTING"
  BY <1>2, <1>4, InterruptionKept
<1>5. (pc[m] \in WaitPlaces /\ call[m] = "Interrupt") => held[m] > 0
  BY DEF Counted
<1> QED
  BY <1>1, <1>3, <1>4, <1>5 DEF GrantedInv

LEMMA CallerGrantedInv ==
  ASSUME NEW m \in Clients
  PROVE  ProgramTypeOK /\ CallsInPlace /\ Counted(m) /\ ~AnswersForCpu /\ GrantedInv(m) /\ ClientStep(m)
           => GrantedInv(m)'
<1> SUFFICES ASSUME ProgramTypeOK, CallsInPlace, Counted(m), ~AnswersForCpu, GrantedInv(m), ClientStep(m)
             PROVE  GrantedInv(m)'
  OBVIOUS
<1> USE SyncAssumption DEF Clients, stateVars, callVars, historyVars
<1>0. /\ pc \in [Threads -> CpuPlaces \cup ClientPlaces]
      /\ call \in [Clients -> Calls \cup {"none"}]
      /\ held \in [Clients -> Int] /\ granted \in [Clients -> BOOLEAN]
      /\ InItsCall(m) /\ interruptDepth = held[m] /\ held[m] >= 0
  BY DepthIsHeld DEF ProgramTypeOK, PlacesTypeOK, CallTypeOK, HistoryTypeOK, CallsInPlace, Counted, AnswersForCpu
<1>1. \A c \in Clients \ {m} : ~granted[c] /\ ~granted'[c]
  BY <1>0, ClientLeavesOthers DEF GrantedInv
<1>2. granted[m] => held[m] > 0 /\ state = "INTERRUPTED"
  BY DEF GrantedInv
<1>3. CASE mCoreThreadInterrupt(m)
  BY <1>0, <1>1, <1>2, <1>3 DEF mCoreThreadInterrupt, InCall, Return, StartWaiting, Goto,
     GrantedInv, WaitPlaces, Interrupted
<1>4. CASE mCoreThreadContinue(m)
  <2>1. held'[m] = held[m] - 1 /\ pc'[m] = "idle" /\ (held[m] > 1 => UNCHANGED state)
    BY <1>0, <1>4 DEF mCoreThreadContinue, ContinueState, LastInterrupt, Return, Goto
  <2>2. granted'[m] => granted[m] /\ held[m] > 1
    <3> DEFINE still == held[m] > 1
    <3>1. granted' = [granted EXCEPT ![m] = @ /\ still]
      BY <1>4 DEF mCoreThreadContinue
    <3> HIDE DEF still
    <3>2. granted'[m] => granted[m] /\ still
      BY <1>0, <3>1, Zenon
    <3> QED
      BY <3>2 DEF still
  <2> QED
    BY <1>0, <1>1, <1>2, <2>1, <2>2 DEF GrantedInv, WaitPlaces
<1>5. CASE mCoreThreadReset(m) \/ mCoreThreadStopWaiting(m)
  BY <1>0, <1>1, <1>2, <1>5 DEF mCoreThreadReset, mCoreThreadStopWaiting, Return, Goto, GrantedInv,
     WaitPlaces, Interrupted
<1>6. CASE \/ _waitOnInterrupt(m) \/ mCoreThreadRunFunction(m) \/ mCoreThreadSetRewinding(m)
           \/ mCoreThreadPause(m) \/ mCoreThreadEnd(m)
  <2>1. held[m] = 0
    BY <1>6 DEF _waitOnInterrupt, mCoreThreadRunFunction,
       mCoreThreadSetRewinding, mCoreThreadPause, mCoreThreadEnd, InCall, Counted, Pausing
  <2>2. granted' = granted
    BY <1>6 DEF _waitOnInterrupt, mCoreThreadRunFunction,
       mCoreThreadSetRewinding, mCoreThreadPause, mCoreThreadEnd
  <2>3. call'[m] # "Interrupt"
    BY <1>0, <1>6 DEF _waitOnInterrupt, mCoreThreadRunFunction,
       mCoreThreadSetRewinding, mCoreThreadPause, mCoreThreadEnd, InCall, Return, Pausing
  <2> QED
    BY <1>1, <1>2, <2>1, <2>2, <2>3 DEF GrantedInv
<1>7. CASE \/ PauseVideoSync(m) \/ ArmPauseAfterFrame(m) \/ EndAudio(m) \/ EndVideo(m)
           \/ SetAudioSync(m) \/ SetVideoWait(m)
  <2>1. UNCHANGED <<state, held, granted>> /\ pc'[m] \notin WaitPlaces
    BY <1>0, <1>7 DEF PauseVideoSync, ArmPauseAfterFrame, EndAudio, EndVideo, SetAudioSync,
       SetVideoWait, Return, Goto, Step, WaitPlaces
  <2> QED
    BY <2>1 DEF GrantedInv
<1>8. CASE SaveVideo(m) \/ SaveAudio(m) \/ WakeVideo(m) \/ WakeAudio(m) \/ LockAgain(m) \/ RestoreAudio(m)
  <2>1. UNCHANGED <<state, held, granted, call>> /\ pc[m] \in WaitPlaces
    BY <1>8 DEF SaveVideo, SaveAudio, WakeVideo, WakeAudio, LockAgain, RestoreAudio, Step, WaitPlaces
  <2>2. (call[m] = "Interrupt" /\ pc'[m] \in {"restoreAudio", "restoreVideo"}) => state # "INTERRUPTING"
    BY <1>0, <1>8 DEF SaveVideo, SaveAudio, WakeVideo, WakeAudio, LockAgain, RestoreAudio, Step, Goto,
       TestState, WaitedFor, GrantedInv, WaitPlaces
  <2> QED
    BY <2>1, <2>2 DEF GrantedInv, Interrupted
<1>9. CASE RestoreVideo(m)
  <2>1. /\ UNCHANGED <<state, held>> /\ pc[m] = "restoreVideo" /\ pc'[m] \in {"idle", "setVideoSync"}
        /\ granted'[m] => granted[m] \/ (call[m] = "Interrupt" /\ state \notin ExitStates)
    BY <1>0, <1>9 DEF RestoreVideo, Return, Goto
  <2>2. call[m] = "Interrupt" => held[m] > 0 /\ (state = "INTERRUPTED" \/ state \in ExitStates)
    BY <2>1 DEF GrantedInv, Counted, Interrupted, WaitPlaces
  <2> QED
    BY <1>1, <1>2, <2>1, <2>2 DEF GrantedInv, WaitPlaces
<1>10. ~mCoreThreadInterruptFromThread(m)
  BY OnlyCpuAnswers
<1> QED
  BY <1>10, <1>3, <1>4, <1>5, <1>6, <1>7, <1>8, <1>9 DEF ClientStep

LEMMA StepGrantedInv ==
  ASSUME NEW m \in Clients
  PROVE  ProgramTypeOK /\ CallsInPlace /\ CallsFrom(m) /\ Counted(m) /\ ~AnswersForCpu
           /\ NoAdvanceInterrupted(m) /\ Started /\ InterruptedIsStopped /\ FunctionInv(m)
           /\ GrantedInv(m) /\ [Next]_vars => GrantedInv(m)'
<1> SUFFICES ASSUME ProgramTypeOK, CallsInPlace, CallsFrom(m), Counted(m), ~AnswersForCpu,
                    NoAdvanceInterrupted(m), Started, InterruptedIsStopped, FunctionInv(m),
                    GrantedInv(m), [Next]_vars
             PROVE  GrantedInv(m)'
  OBVIOUS
<1> USE SyncAssumption DEF Clients, stateVars
<1>0. /\ pc \in [Threads -> CpuPlaces \cup ClientPlaces]
      /\ call \in [Clients -> Calls \cup {"none"}]
  BY DEF ProgramTypeOK, PlacesTypeOK, CallTypeOK
<1>1. CASE CpuStep \/ RunLoopReturns \/ lineEntered
  BY <1>1, CpuGrantedInv
<1>2. CASE Outside
  BY <1>2, OutsideLeavesCalls DEF GrantedInv, Interrupted, CallPlaces, callVars, historyVars
<1>3. ASSUME NEW c \in Clients, NEW op \in Calls, Request(c, op) PROVE GrantedInv(m)'
  <2>1. /\ UNCHANGED <<state, held, granted>>
        /\ pc'[m] = "enter" \/ (pc'[m] = pc[m] /\ call'[m] = call[m])
    BY <1>0, <1>3 DEF Request, Step
  <2> QED
    BY <2>1 DEF GrantedInv, Interrupted, WaitPlaces
<1>4. CASE ClientStep(m)
  BY <1>4, CallerGrantedInv
<1>5. ASSUME NEW c \in Clients, c # m, ClientStep(c) PROVE GrantedInv(m)'
  <2>1. /\ UNCHANGED <<held, granted>> /\ pc'[m] = pc[m] /\ call'[m] = call[m]
        /\ UNCHANGED state \/ (state = "WAITING" /\ state' = "RUNNING")
    BY <1>5, PeerStep
  <2> QED
    BY <2>1 DEF GrantedInv, Interrupted, ExitStates
<1> QED
  BY <1>1, <1>2, <1>3, <1>4, <1>5, StepCases

LEMMA GrantedHolds ==
  ASSUME NEW m \in Clients
  PROVE  Spec /\ CallsFrom(m) /\ ~AnswersForCpu /\ NoAdvanceInterrupted(m)
           => [](NoAdvanceInterrupted(m) /\ GrantedInv(m))
<1>1. Init => GrantedInv(m)
  BY SyncAssumption, CoreThreadAssumption DEF Init, GrantedInv, WaitPlaces, Clients
<1>2. NoAdvanceInterrupted(m) /\ [Next]_vars => NoAdvanceInterrupted(m)'
  BY StepCases DEF NoAdvanceInterrupted, Requests
<1> QED
  BY <1>1, <1>2, OnlyCpuStays, StepGrantedInv, CountHolds, StartedHolds, StoppedHolds,
     FunctionHoldsUndisturbed, CallsStayInPlace, ProgramTypesHold, PTL DEF Spec

LEMMA CpuHeldInv ==
  ASSUME NEW m \in Clients
  PROVE  ProgramTypeOK /\ CallsInPlace /\ Counted(m) /\ ~AnswersForCpu /\ NoAdvanceInterrupted(m)
           /\ Started /\ InterruptIInv /\ InterruptedIsStopped /\ FunctionInv(m) /\ HeldInv(m)
           /\ (CpuStep \/ RunLoopReturns \/ lineEntered) => HeldInv(m)'
<1> SUFFICES ASSUME ProgramTypeOK, CallsInPlace, Counted(m), ~AnswersForCpu, NoAdvanceInterrupted(m),
                    Started, InterruptIInv, InterruptedIsStopped, FunctionInv(m), HeldInv(m),
                    CpuStep \/ RunLoopReturns \/ lineEntered
             PROVE  HeldInv(m)'
  OBVIOUS
<1> USE SyncAssumption
<1>1. UNCHANGED <<call, held>> /\ pc'[m] = pc[m]
  BY CpuLeavesClients
<1>2. ~readLine /\ ~lineEntered
  BY DepthIsHeld DEF readLine, lineEntered, Step, AnswersForCpu
<1>3. state = "INTERRUPTED" => state' = "INTERRUPTED"
  BY <1>2, InterruptedStays
<1>4. held[m] > 0 => Interrupted' \/ state' \in ExitStates
  BY <1>2, InterruptionKept DEF HeldInv
<1>5. state' = "INTERRUPTING" => state = "INTERRUPTING"
  BY <1>2 DEF InterruptIInv, DeferredStates, WaitingStates, CpuStep, CpuStart, CpuLoop, CpuLock, CpuWoken, CpuParkedAudio,
     CpuDeferred, CpuRestoreState, CpuExit, FrameEnded, mCoreThreadPauseFromThread,
     PauseFromThreadVideoSync, mCoreThreadWaitFromThread, CoreCrashes, CoreSyncStep,
     RunLoopReturns, ParkAgain, HandleState, Step, stateVars
<1> QED
  BY <1>1, <1>3, <1>4, <1>5 DEF HeldInv

LEMMA CallerHeldInv ==
  ASSUME NEW m \in Clients
  PROVE  ProgramTypeOK /\ CallsInPlace /\ Counted(m) /\ ~AnswersForCpu /\ Started
           /\ InterruptIInv /\ GrantedInv(m) /\ HeldInv(m) /\ ClientStep(m) => HeldInv(m)'
<1> SUFFICES ASSUME ProgramTypeOK, CallsInPlace, Counted(m), ~AnswersForCpu, Started,
                    InterruptIInv, GrantedInv(m), HeldInv(m), ClientStep(m)
             PROVE  HeldInv(m)'
  OBVIOUS
<1> USE SyncAssumption DEF Clients, stateVars, callVars, historyVars, Interrupted
<1>0. /\ pc \in [Threads -> CpuPlaces \cup ClientPlaces]
      /\ call \in [Clients -> Calls \cup {"none"}] /\ held \in [Clients -> Int]
      /\ InItsCall(m) /\ interruptDepth = held[m] /\ held[m] >= 0
  BY DepthIsHeld
     DEF ProgramTypeOK, PlacesTypeOK, CallTypeOK, HistoryTypeOK, CallsInPlace, Counted, AnswersForCpu
<1>1. pc[m] \notin WaitPlaces => state # "INTERRUPTING"
  BY DEF HeldInv
<1>2. state # "INITIALIZED"
  BY ClientLeavesOthers DEF Started, CallsInPlace, InItsCall
<1>3. CASE mCoreThreadInterrupt(m)
  <2>1. pc[m] \notin WaitPlaces /\ call[m] = "Interrupt"
    BY <1>3 DEF mCoreThreadInterrupt, InCall, WaitPlaces
  <2>2. CASE interruptDepth > 0 \/ ~mCoreThreadIsActive
    <3>1. UNCHANGED state /\ call'[m] = "none"
      BY <1>0, <1>3, <2>2 DEF mCoreThreadInterrupt, Return
    <3>2. held[m] > 0 \/ state \in ExitStates
      BY <1>0, <1>2, <2>2 DEF mCoreThreadIsActive
    <3> QED
      BY <1>1, <2>1, <3>1, <3>2 DEF HeldInv
  <2>3. CASE ~(interruptDepth > 0 \/ ~mCoreThreadIsActive)
    BY <1>0, <1>3, <2>1, <2>3 DEF mCoreThreadInterrupt, StartWaiting, Goto, HeldInv, WaitPlaces
  <2> QED
    BY <2>2, <2>3
<1>4. CASE mCoreThreadContinue(m)
  <2>1. /\ held'[m] = held[m] - 1 /\ call'[m] = "none" /\ pc[m] \notin WaitPlaces
        /\ UNCHANGED state \/ (held'[m] <= 0 /\ state' = savedState)
    BY <1>0, <1>4 DEF mCoreThreadContinue, ContinueState, LastInterrupt, InCall, Return, WaitPlaces
  <2> QED
    BY <1>0, <1>1, <2>1 DEF HeldInv, InterruptIInv, InterruptionsEnd
<1>5. CASE mCoreThreadReset(m) \/ mCoreThreadStopWaiting(m)
  <2>1. pc[m] \notin WaitPlaces /\ call'[m] = "none" /\ UNCHANGED held
    BY <1>0, <1>5 DEF mCoreThreadReset, mCoreThreadStopWaiting, InCall, Return, WaitPlaces
  <2>2. mCoreThreadReset(m) => (held[m] > 0 => state = "INTERRUPTED")
    BY DEF mCoreThreadReset, InCall, HeldInv
  <2>3. held[m] > 0 => UNCHANGED state
    BY <1>5, <2>2 DEF mCoreThreadReset, mCoreThreadStopWaiting, HeldInv, ExitStates
  <2>4. state' # "INTERRUPTING"
    BY <1>1, <1>5, <2>1 DEF mCoreThreadReset, mCoreThreadStopWaiting
  <2> QED
    BY <2>1, <2>3, <2>4 DEF HeldInv
<1>6. CASE \/ mCoreThreadRunFunction(m) \/ mCoreThreadSetRewinding(m) \/ mCoreThreadPause(m)
           \/ mCoreThreadEnd(m)
  <2>1. pc[m] \notin WaitPlaces /\ held[m] = 0 /\ UNCHANGED held
    BY <1>0, <1>6 DEF mCoreThreadRunFunction, mCoreThreadSetRewinding, mCoreThreadPause, mCoreThreadEnd,
       InCall, Counted, Pausing, WaitPlaces
  <2>2. state' # "INTERRUPTING"
    BY <1>1, <1>6, <2>1 DEF mCoreThreadRunFunction, mCoreThreadSetRewinding, mCoreThreadPause,
       mCoreThreadEnd
  <2> QED
    BY <2>1, <2>2 DEF HeldInv
<1>7. CASE \/ _waitOnInterrupt(m) \/ PauseVideoSync(m) \/ ArmPauseAfterFrame(m) \/ EndAudio(m)
           \/ EndVideo(m) \/ SetAudioSync(m) \/ SetVideoWait(m)
  <2>1. /\ UNCHANGED <<state, held>> /\ pc[m] \notin WaitPlaces
        /\ call'[m] = "Reset" => call[m] = "Reset"
    BY <1>0, <1>7 DEF _waitOnInterrupt, PauseVideoSync, ArmPauseAfterFrame, EndAudio, EndVideo,
       SetAudioSync, SetVideoWait, InCall, Return, Step, WaitPlaces
  <2> QED
    BY <1>1, <2>1 DEF HeldInv
<1>8. CASE SaveVideo(m) \/ SaveAudio(m) \/ WakeVideo(m) \/ WakeAudio(m) \/ LockAgain(m) \/ RestoreAudio(m)
  <2>1. UNCHANGED <<state, held, call>> /\ pc'[m] \in WaitPlaces
    BY <1>0, <1>8 DEF SaveVideo, SaveAudio, WakeVideo, WakeAudio, LockAgain, RestoreAudio, TestState,
       Goto, Step, WaitPlaces
  <2> QED
    BY <2>1 DEF HeldInv
<1>9. CASE RestoreVideo(m)
  <2>1. /\ UNCHANGED <<state, held>> /\ pc[m] = "restoreVideo"
        /\ call'[m] = "Reset" => call[m] = "Reset"
    BY <1>0, <1>9 DEF RestoreVideo, Return
  <2>2. state # "INTERRUPTING"
    BY <2>1 DEF HeldInv, GrantedInv
  <2> QED
    BY <2>1, <2>2 DEF HeldInv
<1>10. ~mCoreThreadInterruptFromThread(m)
  BY OnlyCpuAnswers
<1> QED
  BY <1>3, <1>4, <1>5, <1>6, <1>7, <1>8, <1>9, <1>10 DEF ClientStep

LEMMA StepHeldInv ==
  ASSUME NEW m \in Clients
  PROVE  ProgramTypeOK /\ CallsInPlace /\ CallsFrom(m) /\ Counted(m) /\ ~AnswersForCpu
           /\ NoAdvanceInterrupted(m) /\ ~LateCalls /\ Started /\ InterruptIInv
           /\ InterruptedIsStopped /\ FunctionInv(m) /\ GrantedInv(m) /\ HeldInv(m)
           /\ [Next]_vars => HeldInv(m)'
<1> SUFFICES ASSUME ProgramTypeOK, CallsInPlace, CallsFrom(m), Counted(m), ~AnswersForCpu,
                    NoAdvanceInterrupted(m), ~LateCalls, Started, InterruptIInv,
                    InterruptedIsStopped, FunctionInv(m), GrantedInv(m), HeldInv(m), [Next]_vars
             PROVE  HeldInv(m)'
  OBVIOUS
<1> USE SyncAssumption DEF Clients, stateVars, Interrupted
<1>0. /\ pc \in [Threads -> CpuPlaces \cup ClientPlaces]
      /\ call \in [Clients -> Calls \cup {"none"}]
  BY DEF ProgramTypeOK, PlacesTypeOK, CallTypeOK
<1>1. CASE CpuStep \/ RunLoopReturns \/ lineEntered
  BY <1>1, CpuHeldInv
<1>2. CASE Outside
  BY <1>2, OutsideLeavesCalls DEF HeldInv, CallPlaces, callVars, historyVars
<1>3. ASSUME NEW c \in Clients, NEW op \in Calls, Request(c, op) PROVE HeldInv(m)'
  <2>1. /\ UNCHANGED <<state, held>>
        /\ \/ pc'[m] = pc[m] /\ call'[m] = call[m]
           \/ pc[m] = "idle" /\ (call'[m] = "Reset" => state \notin ExitStates)
    BY <1>0, <1>3 DEF Request, Step, Late
  <2> QED
    BY <2>1 DEF HeldInv, WaitPlaces
<1>4. CASE ClientStep(m)
  BY <1>4, CallerHeldInv
<1>5. ASSUME NEW c \in Clients, c # m, ClientStep(c) PROVE HeldInv(m)'
  <2>1. /\ held'[m] = held[m] /\ pc'[m] = pc[m] /\ call'[m] = call[m]
        /\ UNCHANGED state \/ (state = "WAITING" /\ state' = "RUNNING")
    BY <1>5, PeerStep
  <2> QED
    BY <2>1 DEF HeldInv, ExitStates
<1> QED
  BY <1>1, <1>2, <1>3, <1>4, <1>5, StepCases

LEMMA HeldHolds ==
  ASSUME NEW m \in Clients
  PROVE  Spec /\ CallsFrom(m) /\ ~AnswersForCpu /\ NoAdvanceInterrupted(m) /\ ~LateCalls => []HeldInv(m)
<1>1. Init => HeldInv(m)
  BY SyncAssumption, CoreThreadAssumption DEF Init, HeldInv, Clients
<1>2. ~LateCalls => (~LateCalls)'
  OBVIOUS
<1> QED
  BY <1>1, <1>2, OnlyCpuStays, StepHeldInv, CountHolds, StartedHolds, StoppedHolds, GrantedHolds,
     FunctionHoldsUndisturbed, InterruptIInvHolds, CallsStayInPlace, ProgramTypesHold, PTL DEF Spec

\* A caller whose mCoreThreadInterrupt has returned has the core to itself until it
\* continues, unless the thread ends: with any frontend that has one caller, which does not
\* interrupt a core it advances by a frame and brings no thread back after its end.  What
\* another caller's unanswered interrupt would excuse cannot happen: an interrupt that
\* returns at once is nested in one of the caller's own, which has been answered.  Also when
\* the core crashes.
THEOREM InterruptHoldsTheCore ==
  ASSUME NEW m \in Clients
  PROVE  Spec /\ CallsFrom(m) /\ NoAdvanceInterrupted(m) /\ ~LateCalls => []InterruptExcludesCore
<1>1. ProgramTypeOK /\ Counted(m) /\ InterruptedIsStopped /\ GrantedInv(m) /\ HeldInv(m)
        => InterruptExcludesCore
  <2> SUFFICES ASSUME ProgramTypeOK, Counted(m), InterruptedIsStopped, GrantedInv(m), HeldInv(m),
                      ~CoreStopped, NEW c \in Clients
               PROVE  ~granted[c] /\ (held[c] = 0 \/ call[c] # "none" \/ state \in ExitStates \/ Unanswered)
    BY DEF InterruptExcludesCore
  <2>1. state # "INTERRUPTED" /\ ~granted[c]
    BY DEF InterruptedIsStopped, GrantedInv
  <2>2. c # m => held[c] = 0
    BY DEF Counted
  <2>3. held[m] = 0 \/ state = "INTERRUPTING" \/ state \in ExitStates
    BY <2>1 DEF Counted, HeldInv, Interrupted, ProgramTypeOK, HistoryTypeOK
  <2>4. state = "INTERRUPTING" => Unanswered
    BY DEF HeldInv, Unanswered, WaitPlaces
  <2> QED
    BY <2>1, <2>2, <2>3, <2>4
<1>2. AnswersForCpu => InterruptExcludesCore
  BY DEF InterruptExcludesCore
<1>3. AnswersForCpu /\ [Next]_vars => AnswersForCpu'
  BY StepCases DEF AnswersForCpu, Debugging
<1> QED
  BY <1>1, <1>2, <1>3, CountHolds, StoppedHolds, GrantedHolds, HeldHolds, ProgramTypesHold,
     PTL DEF Spec

--------------------------------------------------------------------------------
(* The pause *)

LEMMA CpuPausedInv ==
  ASSUME NEW m \in Clients
  PROVE  ProgramTypeOK /\ CallsInPlace /\ Counted(m) /\ ~AnswersForCpu /\ Started /\ FunctionInv(m)
           /\ PausedInv(m) /\ (CpuStep \/ RunLoopReturns \/ lineEntered) => PausedInv(m)'
<1> SUFFICES ASSUME ProgramTypeOK, CallsInPlace, Counted(m), ~AnswersForCpu, Started, FunctionInv(m),
                    PausedInv(m), CpuStep \/ RunLoopReturns \/ lineEntered
             PROVE  PausedInv(m)'
  OBVIOUS
<1> USE SyncAssumption DEF syncVars, stateVars, cpuVars, CoreStopped, Interrupted, mCoreThreadIsActive
<1>0. /\ pc \in [Threads -> CpuPlaces \cup ClientPlaces] /\ interruptDepth \in Int
  BY DEF ProgramTypeOK, PlacesTypeOK, StateTypeOK
<1>1. call'[m] = call[m]
  BY CpuLeavesClients
<1>2. ~readLine /\ ~lineEntered /\ ~Debugging
  BY DepthIsHeld DEF readLine, lineEntered, Step, AnswersForCpu
<1>3. CASE CpuLock \/ CpuWoken
  <2>1. /\ pc[CPU] \in {"lock", "parked", "relock"}
        /\ pc'[CPU] \in {"deferred", "parked", "parkedAudio"}
        /\ UNCHANGED <<savedState, interruptDepth>>
    BY <1>0, <1>3 DEF CpuLock, CpuWoken, ParkAgain, HandleState, Goto
  <2>2. /\ Interrupted' <=> Interrupted
        /\ state' \in ExitStates <=> state \in ExitStates
        /\ state' = "INITIALIZED" <=> state = "INITIALIZED"
    BY <1>3 DEF CpuLock, CpuWoken, ParkAgain, HandleState, DeferredStates, WaitingStates, ExitStates
  <2> QED
    BY <1>1, <2>1, <2>2 DEF PausedInv
<1>4. CASE CpuStart
  <2>1. interruptDepth = 0
    BY <1>4, DepthIsHeld DEF CpuStart, Step, Started, AnswersForCpu
  <2> QED
    BY <1>0, <1>4, <2>1 DEF CpuStart, Step, PausedInv, PauseAhead, ExitStates
<1>5. CASE CpuLoop \/ CpuDeferred \/ RunLoopReturns \/ FrameEnded \/ PauseFromThreadVideoSync
  BY <1>0, <1>1, <1>2, <1>5 DEF CpuLoop, CpuDeferred, RunLoopReturns, FrameEnded, PauseFromThreadVideoSync,
     Step, PausedInv, PauseAhead, RunningStates, ExitStates
<1>6. CASE CpuRestoreState
  <2>1. interruptDepth = 0
    BY <1>2, <1>6, NoDepthInFunction DEF CpuRestoreState, Step, FunctionInv, NoFunctionAtPrompt
  <2> QED
    BY <1>0, <1>6, <2>1 DEF CpuRestoreState, Step, FunctionInv, PausedInv, PauseAhead
<1>7. CASE CpuExit \/ CoreCrashes
  <2>1. UNCHANGED <<savedState, interruptDepth>> /\ (UNCHANGED state \/ state' \in ExitStates)
    BY <1>7 DEF CpuExit, CoreCrashes, ExitStates
  <2>2. pc[CPU] \in {"exit", "shutdown", "core"} /\ pc'[CPU] \in {"exit", "shutdown", "core", "done"}
    BY <1>0, <1>7 DEF CpuExit, CoreCrashes, Step
  <2>3. state # "INITIALIZED"
    BY <2>2 DEF Started
  <2>4. ~PauseAhead /\ (interruptDepth > 0 /\ call[m] = "Reset" => savedState # "PAUSED")
    BY <2>2, <2>3 DEF PausedInv, PauseAhead
  <2> QED
    BY <1>1, <2>1, <2>2, <2>4 DEF PausedInv, PauseAhead, ExitStates
<1>8. CASE mCoreThreadPauseFromThread \/ mCoreThreadWaitFromThread
  <2>1. pc[CPU] \in {"pauseFromThread", "core"} /\ pc'[CPU] \in {"videoSync", "core"}
    BY <1>0, <1>8 DEF mCoreThreadPauseFromThread, mCoreThreadWaitFromThread, Step
  <2>2. ~PauseAhead
    BY <2>1 DEF PausedInv
  <2> QED
    BY <1>0, <1>1, <1>8, <2>1, <2>2 DEF mCoreThreadPauseFromThread, mCoreThreadWaitFromThread,
       PausedInv, PauseAhead, ExitStates
<1>9. CASE CpuParkedAudio \/ CoreSyncStep
  <2>1. UNCHANGED <<stateVars>>
    BY <1>9 DEF CpuParkedAudio, CoreSyncStep
  <2>2. \/ {pc[CPU], pc'[CPU]} \subseteq {"core", "post", "posted", "audioBlocked"}
        \/ {pc[CPU], pc'[CPU]} \subseteq {"parked", "parkedAudio", "parkedBlocked", "relock"}
    BY <1>0, <1>9 DEF CpuParkedAudio, CoreSyncStep, WaitForAudioRoom, mCoreSyncPostFrame,
       PostFrameWoken, OfferFrame, mCoreSyncProduceAudio, ProduceAudioWoken, Goto
  <2> QED
    BY <1>1, <2>1, <2>2 DEF PausedInv, PauseAhead
<1> QED
  BY <1>2, <1>3, <1>4, <1>5, <1>6, <1>7, <1>8, <1>9 DEF CpuStep

LEMMA CallerPausedInv ==
  ASSUME NEW m \in Clients
  PROVE  ProgramTypeOK /\ CallsInPlace /\ Counted(m) /\ ~AnswersForCpu /\ Started /\ InterruptIInv
           /\ FunctionInv(m) /\ PausedInv(m) /\ ClientStep(m) => PausedInv(m)'
<1> SUFFICES ASSUME ProgramTypeOK, CallsInPlace, Counted(m), ~AnswersForCpu, Started, InterruptIInv,
                    FunctionInv(m), PausedInv(m), ClientStep(m)
             PROVE  PausedInv(m)'
  OBVIOUS
<1> USE SyncAssumption DEF Clients, stateVars, callVars, CoreStopped, Interrupted, mCoreThreadIsActive
<1>0. /\ pc \in [Threads -> CpuPlaces \cup ClientPlaces]
      /\ call \in [Clients -> Calls \cup {"none"}]
      /\ held \in [Clients -> Int] /\ InItsCall(m)
      /\ interruptDepth = held[m] /\ held[m] >= 0
  BY DepthIsHeld DEF ProgramTypeOK, PlacesTypeOK, CallTypeOK, HistoryTypeOK, CallsInPlace, Counted, AnswersForCpu
<1>1. pc'[CPU] = pc[CPU] /\ state # "INITIALIZED"
  BY ClientLeavesOthers DEF Started, CallsInPlace, InItsCall
<1>2. CASE mCoreThreadInterrupt(m)
  <2>1. call'[m] # "Reset"
    BY <1>0, <1>2 DEF mCoreThreadInterrupt, InCall, Return
  <2> QED
    BY <1>0, <1>1, <1>2, <2>1 DEF mCoreThreadInterrupt, PausedInv, PauseAhead
<1>3. ~mCoreThreadInterruptFromThread(m)
  BY OnlyCpuAnswers
<1>4. CASE mCoreThreadContinue(m)
  <2>1. call'[m] # "Reset" /\ held[m] > 0 /\ savedState \notin {"INTERRUPTED", "INTERRUPTING", "RUN_ON"}
    BY <1>0, <1>4 DEF mCoreThreadContinue, InCall, Return, Counted, InterruptIInv, InterruptionsEnd, FunctionInv
  <2> QED
    BY <1>0, <1>1, <1>4, <2>1 DEF mCoreThreadContinue, ContinueState, LastInterrupt, PausedInv, PauseAhead
<1>5. CASE mCoreThreadRunFunction(m) \/ mCoreThreadPause(m) \/ mCoreThreadEnd(m) \/ mCoreThreadSetRewinding(m)
  <2>1. interruptDepth = 0 /\ UNCHANGED interruptDepth
    BY <1>0, <1>5 DEF mCoreThreadRunFunction, mCoreThreadPause, mCoreThreadEnd, mCoreThreadSetRewinding,
       InCall, Counted, Pausing
  <2>2. PauseAhead' => PauseAhead
    BY <1>5 DEF mCoreThreadRunFunction, mCoreThreadPause, mCoreThreadEnd, mCoreThreadSetRewinding, PauseAhead
  <2> QED
    BY <1>1, <2>1, <2>2 DEF PausedInv
<1>6. CASE mCoreThreadReset(m)
  <2>1. call[m] = "Reset" /\ call'[m] = "none"
    BY <1>0, <1>6 DEF mCoreThreadReset, InCall, Return
  <2> QED
    BY <1>0, <1>1, <1>6, <2>1 DEF mCoreThreadReset, PausedInv, PauseAhead, ExitStates
<1>7. CASE mCoreThreadStopWaiting(m)
  <2>1. call'[m] = "none"
    BY <1>0, <1>7 DEF mCoreThreadStopWaiting, Return
  <2> QED
    BY <1>0, <1>1, <1>7, <2>1 DEF mCoreThreadStopWaiting, PausedInv, PauseAhead, ExitStates
<1>8. CASE \/ _waitOnInterrupt(m) \/ PauseVideoSync(m) \/ ArmPauseAfterFrame(m) \/ EndAudio(m)
           \/ EndVideo(m) \/ SaveVideo(m) \/ SaveAudio(m) \/ WakeVideo(m) \/ WakeAudio(m)
           \/ LockAgain(m) \/ RestoreAudio(m) \/ RestoreVideo(m) \/ SetAudioSync(m) \/ SetVideoWait(m)
  <2>1. UNCHANGED <<state, savedState, interruptDepth>>
    BY <1>8 DEF _waitOnInterrupt, PauseVideoSync, ArmPauseAfterFrame, EndAudio, EndVideo, SaveVideo,
       SaveAudio, WakeVideo, WakeAudio, LockAgain, RestoreAudio, RestoreVideo, SetAudioSync, SetVideoWait
  <2>2. call'[m] = "Reset" => call[m] = "Reset"
    BY <1>0, <1>8 DEF _waitOnInterrupt, PauseVideoSync, ArmPauseAfterFrame, EndAudio, EndVideo, SaveVideo,
       SaveAudio, WakeVideo, WakeAudio, LockAgain, RestoreAudio, RestoreVideo, SetAudioSync, SetVideoWait,
       Return
  <2> QED
    BY <1>1, <2>1, <2>2 DEF PausedInv, PauseAhead
<1> QED
  BY <1>2, <1>3, <1>4, <1>5, <1>6, <1>7, <1>8 DEF ClientStep

LEMMA StepPausedInv ==
  ASSUME NEW m \in Clients
  PROVE  ProgramTypeOK /\ CallsInPlace /\ CallsFrom(m) /\ Counted(m) /\ ~AnswersForCpu /\ ~LateCalls
           /\ Started /\ InterruptIInv /\ FunctionInv(m) /\ PausedInv(m) /\ [Next]_vars => PausedInv(m)'
<1> SUFFICES ASSUME ProgramTypeOK, CallsInPlace, CallsFrom(m), Counted(m), ~AnswersForCpu, ~LateCalls,
                    Started, InterruptIInv, FunctionInv(m), PausedInv(m), [Next]_vars
             PROVE  PausedInv(m)'
  OBVIOUS
<1> USE SyncAssumption
        DEF Clients, stateVars, callVars, CoreStopped, Interrupted, mCoreThreadIsActive, PauseAhead
<1>0. /\ pc \in [Threads -> CpuPlaces \cup ClientPlaces]
      /\ call \in [Clients -> Calls \cup {"none"}]
  BY DEF ProgramTypeOK, PlacesTypeOK, CallTypeOK
<1>1. CASE CpuStep \/ RunLoopReturns \/ lineEntered
  BY <1>1, CpuPausedInv
<1>2. CASE Outside
  BY <1>2, OutsideLeavesCalls DEF PausedInv
<1>3. ASSUME NEW c \in Clients, NEW op \in Calls, Request(c, op) PROVE PausedInv(m)'
  <2>1. /\ UNCHANGED stateVars /\ pc'[CPU] = pc[CPU]
        /\ call'[m] = call[m] \/ (call'[m] = "Reset" => state \notin ExitStates)
    BY <1>0, <1>3 DEF Request, Step, Late
  <2> QED
    BY <2>1 DEF PausedInv
<1>4. CASE ClientStep(m)
  BY <1>4, CallerPausedInv
<1>5. ASSUME NEW c \in Clients, c # m, ClientStep(c) PROVE PausedInv(m)'
  <2>1. /\ pc'[CPU] = pc[CPU] /\ call'[m] = call[m] /\ UNCHANGED interruptDepth
        /\ \/ UNCHANGED <<state, savedState>>
           \/ state = "WAITING" /\ state' = "RUNNING" /\ UNCHANGED savedState
           \/ savedState = "WAITING" /\ savedState' = "RUNNING" /\ UNCHANGED state
    BY <1>5, PeerStep
  <2> QED
    BY <2>1 DEF PausedInv, ExitStates
<1> QED
  BY <1>1, <1>2, <1>3, <1>4, <1>5, StepCases

\* While the state says that the core is interrupted or paused, it is, with any frontend
\* that has one caller who does not bring the thread back after its end: also when an
\* interruption comes upon a pause, a function runs behind it, or the core crashes.
THEOREM StoppedIsReal ==
  ASSUME NEW m \in Clients
  PROVE  Spec /\ CallsFrom(m) /\ ~LateCalls => []StoppedStatesAreReal
<1>1. Init => PausedInv(m)
  BY SyncAssumption, CoreThreadAssumption DEF Init, PausedInv, PauseAhead, Interrupted
<1>2. InterruptedIsStopped /\ FunctionInv(m) /\ PausedInv(m) => StoppedStatesAreReal
  BY DEF InterruptedIsStopped, FunctionInv, PausedInv, PauseAhead, StoppedStatesAreReal
<1>3. AnswersForCpu => StoppedStatesAreReal
  BY DEF StoppedStatesAreReal
<1>4. AnswersForCpu /\ [Next]_vars => AnswersForCpu'
  BY StepCases DEF AnswersForCpu, Debugging
<1>5. ~LateCalls => (~LateCalls)'
  OBVIOUS
<1> QED
  BY <1>1, <1>2, <1>3, <1>4, <1>5, OnlyCpuStays, StepPausedInv, CountHolds, StartedHolds,
     StoppedHolds, FunctionHoldsUndisturbed, InterruptIInvHolds, CallsStayInPlace,
     ProgramTypesHold, PTL DEF Spec

--------------------------------------------------------------------------------
(* The end *)

\* What the theorems about the end ask of a frontend.
Tame(m) ==
  CallsFrom(m) /\ NoFunctionAtPrompt(m) /\ NoAdvanceInterrupted(m) /\ NoCrash /\ ~LateCalls

StaysEnded == state \in ExitStates => state' \in ExitStates

LEMMA CpuEndInv ==
  ASSUME NEW m \in Clients
  PROVE  ProgramTypeOK /\ CallsInPlace /\ Counted(m) /\ Started /\ FunctionInv(m) /\ Tame(m)
           /\ EndInv(m) /\ (CpuStep \/ RunLoopReturns \/ lineEntered) => EndInv(m)' /\ StaysEnded
<1> SUFFICES ASSUME ProgramTypeOK, CallsInPlace, Counted(m), Started, FunctionInv(m), Tame(m),
                    EndInv(m), CpuStep \/ RunLoopReturns \/ lineEntered
             PROVE  EndInv(m)' /\ StaysEnded
  OBVIOUS
<1> USE SyncAssumption DEF syncVars, stateVars, cpuVars, Interrupted, StaysEnded
<1>0. /\ pc \in [Threads -> CpuPlaces \cup ClientPlaces] /\ interruptDepth \in Int
      /\ held \in [Clients -> Int]
  BY DEF ProgramTypeOK, PlacesTypeOK, StateTypeOK, HistoryTypeOK
<1>1. call'[m] = call[m] /\ pc'[m] = pc[m]
  BY CpuLeavesClients
<1>2. CASE CpuLock \/ CpuWoken
  <2>1. /\ pc'[CPU] \in {"deferred", "parked", "parkedAudio"}
        /\ UNCHANGED <<savedState, interruptDepth>>
    BY <1>0, <1>2 DEF CpuLock, CpuWoken, ParkAgain, HandleState, Goto
  <2>2. Interrupted' <=> Interrupted
    BY <1>2 DEF CpuLock, CpuWoken, ParkAgain, HandleState, DeferredStates, WaitingStates
  <2>3. state' \in ExitStates <=> state \in ExitStates
    BY <1>2 DEF CpuLock, CpuWoken, ParkAgain, HandleState, DeferredStates, WaitingStates, ExitStates
  <2> QED
    BY <1>1, <2>1, <2>2, <2>3 DEF EndInv
<1>3. CASE CpuStart
  <2>1. interruptDepth = 0
    BY <1>0, <1>3 DEF CpuStart, Step, Started, Counted
  <2> QED
    BY <1>0, <1>1, <1>3, <2>1 DEF CpuStart, Step, Started, EndInv, ExitStates
<1>4. CASE CpuLoop \/ CpuDeferred \/ RunLoopReturns \/ FrameEnded \/ PauseFromThreadVideoSync
  BY <1>0, <1>1, <1>4 DEF CpuLoop, CpuDeferred, RunLoopReturns, FrameEnded, PauseFromThreadVideoSync,
     Step, EndInv
<1>5. CASE CpuRestoreState
  <2>1. /\ state = "RUN_ON" /\ ~(pc[m] \in {"enter", "resume"}) /\ interruptDepth <= 0
    BY <1>0, <1>5 DEF CpuRestoreState, Step, FunctionInv, EndInv, ExitStates, BeforeRestore, WaitPlaces
  <2> QED
    BY <1>0, <1>1, <1>5, <2>1 DEF CpuRestoreState, Step, EndInv, ExitStates
<1>6. CASE CpuExit
  BY <1>0, <1>1, <1>6 DEF CpuExit, Step, EndInv, ExitStates
<1>7. CASE mCoreThreadPauseFromThread
  <2>1. interruptDepth = 0
    BY <1>0, <1>7 DEF mCoreThreadPauseFromThread, Step, Counted, Tame, NoAdvanceInterrupted
  <2> QED
    BY <1>0, <1>1, <1>7, <2>1 DEF mCoreThreadPauseFromThread, Step, EndInv, ExitStates
<1>8. CASE mCoreThreadWaitFromThread
  BY <1>0, <1>1, <1>8 DEF mCoreThreadWaitFromThread, EndInv, ExitStates
<1>9. ~CoreCrashes
  BY DEF CoreCrashes, Tame, NoCrash
<1>10. CASE CpuParkedAudio \/ CoreSyncStep
  <2>1. UNCHANGED <<stateVars>>
    BY <1>10 DEF CpuParkedAudio, CoreSyncStep
  <2>2. pc'[CPU] \notin {"exit", "shutdown", "done"}
    BY <1>0, <1>10 DEF CpuParkedAudio, CoreSyncStep, WaitForAudioRoom, mCoreSyncPostFrame,
       PostFrameWoken, OfferFrame, mCoreSyncProduceAudio, ProduceAudioWoken, Goto
  <2> QED
    BY <1>1, <2>1, <2>2 DEF EndInv
<1>11. CASE readLine
  <2>1. pc[CPU] = "core" /\ pc'[CPU] = "prompt" /\ state # "INITIALIZED"
    BY <1>0, <1>11 DEF readLine, Step, Started
  <2> QED
    BY <1>0, <1>1, <1>11, <2>1 DEF readLine, InterruptAtOnce, EndInv, mCoreThreadIsActive, ExitStates,
       Counted
<1>12. CASE lineEntered
  <2>1. pc[CPU] = "prompt" /\ pc'[CPU] = "core"
    BY <1>0, <1>12 DEF lineEntered, Step
  <2> QED
    BY <1>0, <1>1, <1>12, <2>1 DEF lineEntered, ContinueState, LastInterrupt, EndInv, mCoreThreadIsActive,
       ExitStates
<1> QED
  BY <1>2, <1>3, <1>4, <1>5, <1>6, <1>7, <1>8, <1>9, <1>10, <1>11, <1>12 DEF CpuStep

LEMMA CallerEndInv ==
  ASSUME NEW m \in Clients
  PROVE  ProgramTypeOK /\ CallsInPlace /\ Counted(m) /\ Started /\ EndInv(m) /\ ClientStep(m)
           => EndInv(m)' /\ StaysEnded
<1> SUFFICES ASSUME ProgramTypeOK, CallsInPlace, Counted(m), Started, EndInv(m), ClientStep(m)
             PROVE  EndInv(m)' /\ StaysEnded
  OBVIOUS
<1> USE SyncAssumption DEF Clients, stateVars, callVars, Interrupted, mCoreThreadIsActive, StaysEnded
<1>0. /\ pc \in [Threads -> CpuPlaces \cup ClientPlaces]
      /\ call \in [Clients -> Calls \cup {"none"}]
      /\ interruptDepth \in Int /\ InItsCall(m)
  BY DEF ProgramTypeOK, PlacesTypeOK, StateTypeOK, CallTypeOK, CallsInPlace
<1>1. pc'[CPU] = pc[CPU] /\ state # "INITIALIZED"
  BY ClientLeavesOthers DEF Started, CallsInPlace, InItsCall
<1>2. CASE mCoreThreadInterrupt(m) \/ mCoreThreadInterruptFromThread(m)
  <2>1. call'[m] \in {"Interrupt", "none"} /\ interruptDepth >= 0
    BY <1>0, <1>2 DEF mCoreThreadInterrupt, mCoreThreadInterruptFromThread, InCall, Return, Counted,
       ProgramTypeOK, HistoryTypeOK
  <2> QED
    BY <1>0, <1>1, <1>2, <2>1 DEF mCoreThreadInterrupt, mCoreThreadInterruptFromThread,
       InterruptAtOnce, EndInv, ExitStates
<1>3. CASE mCoreThreadContinue(m)
  <2>1. call'[m] = "none"
    BY <1>0, <1>3 DEF mCoreThreadContinue, Return
  <2> QED
    BY <1>0, <1>1, <1>3, <2>1 DEF mCoreThreadContinue, ContinueState, LastInterrupt, EndInv, ExitStates
<1>4. CASE mCoreThreadRunFunction(m)
  <2>1. pc[m] \in {"enter", "resume"} /\ call[m] = "RunFunction" /\ pc'[m] = "saveVideo"
    BY <1>0, <1>4 DEF mCoreThreadRunFunction, InCall, StartWaiting, Goto
  <2> QED
    BY <1>0, <1>1, <1>4, <2>1 DEF mCoreThreadRunFunction, EndInv, ExitStates
<1>5. CASE mCoreThreadReset(m)
  <2>1. pc[m] \in {"enter", "resume"} /\ call[m] = "Reset" /\ call'[m] = "none"
    BY <1>0, <1>5 DEF mCoreThreadReset, InCall, Return
  <2> QED
    BY <1>0, <1>1, <1>5, <2>1 DEF mCoreThreadReset, EndInv, ExitStates
<1>6. CASE mCoreThreadStopWaiting(m) \/ mCoreThreadSetRewinding(m)
  <2>1. call'[m] = "none"
    BY <1>0, <1>6 DEF mCoreThreadStopWaiting, mCoreThreadSetRewinding, Return
  <2> QED
    BY <1>0, <1>1, <1>6, <2>1 DEF mCoreThreadStopWaiting, mCoreThreadSetRewinding, EndInv, ExitStates
<1>7. CASE mCoreThreadPause(m) \/ mCoreThreadEnd(m)
  <2>1. call'[m] \in Pausing \cup {"End"}
    BY <1>0, <1>7 DEF mCoreThreadPause, mCoreThreadEnd, InCall, callVars
  <2> QED
    BY <1>0, <1>1, <1>7, <2>1 DEF mCoreThreadPause, mCoreThreadEnd, EndInv, ExitStates, Pausing
<1>8. CASE _waitOnInterrupt(m)
  BY <1>0, <1>1, <1>8 DEF _waitOnInterrupt, InCall, EndInv, ExitStates
<1>9. CASE \/ PauseVideoSync(m) \/ ArmPauseAfterFrame(m) \/ EndAudio(m)
           \/ EndVideo(m) \/ SaveVideo(m) \/ SaveAudio(m) \/ WakeVideo(m) \/ WakeAudio(m)
           \/ LockAgain(m) \/ RestoreAudio(m) \/ RestoreVideo(m) \/ SetAudioSync(m) \/ SetVideoWait(m)
  <2>1. UNCHANGED <<state, savedState, interruptDepth>>
    BY <1>9 DEF PauseVideoSync, ArmPauseAfterFrame, EndAudio, EndVideo, SaveVideo,
       SaveAudio, WakeVideo, WakeAudio, LockAgain, RestoreAudio, RestoreVideo, SetAudioSync, SetVideoWait
  <2>2. pc'[m] \in {"enter", "resume"} => call'[m] = "Unpause"
    BY <1>0, <1>9 DEF PauseVideoSync, ArmPauseAfterFrame, EndAudio, EndVideo, SaveVideo,
       SaveAudio, WakeVideo, WakeAudio, LockAgain, RestoreAudio, RestoreVideo, SetAudioSync, SetVideoWait,
       TestState, Return, Goto, Step
  <2> QED
    BY <1>1, <2>1, <2>2 DEF EndInv
<1> QED
  BY <1>2, <1>3, <1>4, <1>5, <1>6, <1>7, <1>8, <1>9 DEF ClientStep

LEMMA StepEndInv ==
  ASSUME NEW m \in Clients
  PROVE  ProgramTypeOK /\ CallsInPlace /\ Counted(m) /\ Started /\ FunctionInv(m) /\ Tame(m)
           /\ EndInv(m) /\ [Next]_vars => EndInv(m)' /\ StaysEnded
<1> SUFFICES ASSUME ProgramTypeOK, CallsInPlace, Counted(m), Started, FunctionInv(m), Tame(m),
                    EndInv(m), [Next]_vars
             PROVE  EndInv(m)' /\ StaysEnded
  OBVIOUS
<1> USE SyncAssumption DEF Clients, stateVars, callVars, Interrupted, StaysEnded
<1>0. /\ pc \in [Threads -> CpuPlaces \cup ClientPlaces]
      /\ call \in [Clients -> Calls \cup {"none"}]
  BY DEF ProgramTypeOK, PlacesTypeOK, CallTypeOK
<1>1. CASE CpuStep \/ RunLoopReturns \/ lineEntered
  BY <1>1, CpuEndInv
<1>2. CASE Outside
  BY <1>2, OutsideLeavesCalls DEF EndInv, CallPlaces
<1>3. ASSUME NEW c \in Clients, NEW op \in Calls, Request(c, op) PROVE EndInv(m)' /\ StaysEnded
  <2>1. /\ UNCHANGED stateVars /\ pc'[CPU] = pc[CPU]
        /\ \/ pc'[m] = pc[m] /\ call'[m] = call[m]
           \/ call'[m] \in {"Reset", "RunFunction"} => state \notin ExitStates
    BY <1>0, <1>3 DEF Request, Step, Late, Tame
  <2> QED
    BY <2>1 DEF EndInv
<1>4. CASE ClientStep(m)
  BY <1>4, CallerEndInv
<1>5. ASSUME NEW c \in Clients, c # m, ClientStep(c) PROVE EndInv(m)' /\ StaysEnded
  <2>1. /\ pc'[CPU] = pc[CPU] /\ pc'[m] = pc[m] /\ call'[m] = call[m] /\ UNCHANGED interruptDepth
        /\ \/ UNCHANGED <<state, savedState>>
           \/ state = "WAITING" /\ state' = "RUNNING" /\ UNCHANGED savedState
           \/ savedState = "WAITING" /\ savedState' = "RUNNING" /\ UNCHANGED state
    BY <1>5, PeerStep DEF Tame
  <2> QED
    BY <2>1 DEF EndInv, ExitStates
<1> QED
  BY <1>1, <1>2, <1>3, <1>4, <1>5, StepCases

LEMMA EndInvHolds == ASSUME NEW m \in Clients PROVE Spec /\ Tame(m) => [](Tame(m) /\ EndInv(m))
<1>1. Init => EndInv(m)
  BY SyncAssumption, CoreThreadAssumption DEF Init, EndInv, ExitStates, Clients
<1>2. Tame(m) => CallsFrom(m) /\ NoFunctionAtPrompt(m)
  BY DEF Tame
<1>3. Tame(m) /\ [Next]_vars => Tame(m)'
  BY StepCases
     DEF Tame, CallsFrom, NoFunctionAtPrompt, NoAdvanceInterrupted, NoCrash, Debugging, Requests
<1> QED
  BY <1>1, <1>2, <1>3, StepEndInv, CountHolds, StartedHolds, FunctionHolds, CallsStayInPlace,
     ProgramTypesHold, PTL DEF Spec

\* Once mCoreThreadEnd has been called the thread does not come back to life, whatever was
\* under way when it ended - an interrupt, a prompt, a pause after the next frame - with any
\* tame frontend.
THEOREM TheEndIsFinal == ASSUME NEW m \in Clients PROVE Spec /\ Tame(m) => EndIsFinal
<1>1. StaysEnded => [(state \in ExitStates) => (state' \in ExitStates)]_vars
  BY DEF StaysEnded
<1>2. Tame(m) => CallsFrom(m) /\ NoFunctionAtPrompt(m)
  BY DEF Tame
<1> QED
  BY <1>1, <1>2, StepEndInv, EndInvHolds, CountHolds, StartedHolds, FunctionHolds,
     CallsStayInPlace, ProgramTypesHold, PTL DEF Spec, EndIsFinal

\* While the debugger waits for a line, no call of a tame frontend lifts its interruption.
THEOREM PromptIsKept == ASSUME NEW m \in Clients PROVE Spec /\ Tame(m) => []PromptHolds
<1>1. ProgramTypeOK /\ Counted(m) /\ EndInv(m) => PromptHolds
  BY DEF Counted, EndInv, PromptHolds, ProgramTypeOK, HistoryTypeOK
<1>2. Tame(m) => CallsFrom(m)
  BY DEF Tame
<1> QED
  BY <1>1, <1>2, EndInvHolds, CountHolds, ProgramTypesHold, PTL

--------------------------------------------------------------------------------
(* The display of a paused core *)

\* No client advances the core by a frame.
NeverAdvances == \A c \in Clients : ~Requests(c, {"FrameAdvance"})

\* videoFrameOn is FALSE from the start, and so is every copy of it there will be.
NeverRaised ==
  /\ ~videoFrameOn /\ ~frameWasOn /\ \A t \in Threads : ~frameOn[t]
  /\ ~frameCallback /\ pc[CPU] \notin {"pauseFromThread", "videoSync"}

LEMMA CpuNeverRaised ==
  ASSUME ProgramTypeOK, NeverRaised, CpuStep \/ RunLoopReturns \/ lineEntered
  PROVE  NeverRaised'
<1> USE SyncAssumption DEF NeverRaised, Clients, syncVars, flagVars, stateVars, cpuVars, callVars
<1>0. pc \in [Threads -> CpuPlaces \cup ClientPlaces] /\ frameOn \in [Threads -> BOOLEAN]
  BY DEF ProgramTypeOK, PlacesTypeOK, CallTypeOK
<1>1. ~mCoreThreadPauseFromThread /\ ~PauseFromThreadVideoSync
  BY DEF mCoreThreadPauseFromThread, PauseFromThreadVideoSync, Step
<1>2. CASE CpuLock \/ CpuWoken
  BY <1>0, <1>2 DEF CpuLock, CpuWoken, ParkAgain, HandleState, Goto
<1>3. CASE CpuStart \/ CpuLoop \/ CpuDeferred \/ CpuRestoreState \/ CpuExit \/ RunLoopReturns
            \/ FrameEnded \/ mCoreThreadWaitFromThread \/ CoreCrashes \/ readLine \/ lineEntered
  BY <1>0, <1>3 DEF CpuStart, CpuLoop, CpuDeferred, CpuRestoreState, CpuExit, RunLoopReturns,
     FrameEnded, mCoreThreadWaitFromThread, CoreCrashes, readLine, lineEntered, Step
<1>4. CASE CpuParkedAudio \/ CoreSyncStep
  BY <1>0, <1>4 DEF CpuParkedAudio, CoreSyncStep, WaitForAudioRoom, mCoreSyncPostFrame,
     PostFrameWoken, OfferFrame, mCoreSyncProduceAudio, ProduceAudioWoken, Goto
<1> QED
  BY <1>1, <1>2, <1>3, <1>4 DEF CpuStep

LEMMA ClientNeverRaised ==
  ASSUME ProgramTypeOK, CallsInPlace, NeverAdvances, NeverRaised, NEW c \in Clients, ClientStep(c)
  PROVE  NeverRaised'
<1> USE SyncAssumption DEF NeverRaised, Clients, syncVars, flagVars, stateVars, cpuVars, callVars
<1>0. frameOn \in [Threads -> BOOLEAN] /\ pc'[CPU] = pc[CPU]
  BY ClientLeavesOthers DEF ProgramTypeOK, CallTypeOK
<1>1. ~ArmPauseAfterFrame(c)
  BY DEF ArmPauseAfterFrame, Step, CallsInPlace, InItsCall, NeverAdvances, Requests, Calls
<1>2. CASE \/ _waitOnInterrupt(c) \/ mCoreThreadInterrupt(c) \/ mCoreThreadInterruptFromThread(c)
           \/ mCoreThreadContinue(c) \/ mCoreThreadRunFunction(c) \/ mCoreThreadReset(c)
           \/ mCoreThreadStopWaiting(c) \/ mCoreThreadSetRewinding(c)
  BY <1>0, <1>2 DEF _waitOnInterrupt, mCoreThreadInterrupt, mCoreThreadInterruptFromThread,
     mCoreThreadContinue, mCoreThreadRunFunction, mCoreThreadReset, mCoreThreadStopWaiting,
     mCoreThreadSetRewinding, Return
<1>3. CASE mCoreThreadPause(c) \/ PauseVideoSync(c) \/ mCoreThreadEnd(c) \/ EndAudio(c) \/ EndVideo(c)
  BY <1>0, <1>3 DEF mCoreThreadPause, PauseVideoSync, _changeVideoSync, mCoreThreadEnd, EndAudio,
     EndVideo, Return
<1>4. CASE \/ SaveVideo(c) \/ SaveAudio(c) \/ WakeVideo(c) \/ WakeAudio(c) \/ LockAgain(c)
           \/ RestoreAudio(c) \/ RestoreVideo(c) \/ SetAudioSync(c) \/ SetVideoWait(c)
  BY <1>0, <1>4 DEF SaveVideo, SaveAudio, WakeVideo, WakeAudio, LockAgain, RestoreAudio,
     RestoreVideo, SetAudioSync, SetVideoWait, Return
<1> QED
  BY <1>1, <1>2, <1>3, <1>4 DEF ClientStep

LEMMA StepNeverRaised ==
  ProgramTypeOK /\ CallsInPlace /\ NeverAdvances /\ NeverRaised /\ [Next]_vars => NeverRaised'
<1> SUFFICES ASSUME ProgramTypeOK, CallsInPlace, NeverAdvances, NeverRaised, [Next]_vars
             PROVE  NeverRaised'
  OBVIOUS
<1>1. CASE Outside
  BY <1>1, OutsideLeavesCalls DEF NeverRaised, stateVars, cpuVars, callVars
<1>2. ASSUME NEW c \in Clients, NEW op \in Calls, Request(c, op) PROVE NeverRaised'
  BY <1>2, SyncAssumption DEF Request, Step, NeverRaised, Clients, ProgramTypeOK, PlacesTypeOK, CallTypeOK,
     syncVars, stateVars, cpuVars
<1> QED
  BY <1>1, <1>2, CpuNeverRaised, ClientNeverRaised, StepCases

LEMMA NeverRaisedHolds == Spec /\ NeverAdvances => []NeverRaised
<1>1. Init => NeverRaised
  BY SyncAssumption, CoreThreadAssumption DEF Init, NeverRaised, Clients
<1>2. NeverAdvances /\ [Next]_vars => NeverAdvances'
  BY StepCases DEF NeverAdvances, Requests
<1> QED
  BY <1>1, <1>2, StepNeverRaised, CallsStayInPlace, ProgramTypesHold, PTL DEF Spec

\* Beside its frame advance the caller pauses, interrupts and ends: no function, rewinding,
\* reset, wait for a link or prompt.
AdvancesPlainly(m) ==
  /\ CallsFrom(m)
  /\ ~Requests(m, {"RunFunction", "SetRewinding", "Reset"})
  /\ frontend.cpuCalls \cap {"WaitFromThread", "ReadLine"} = {}

\* The states such a frontend brings the thread into.
PlainStates ==
  /\ state \in {"INITIALIZED", "RUNNING", "PAUSING", "PAUSED", "INTERRUPTING", "INTERRUPTED"} \cup ExitStates
  /\ savedState \in {"RUNNING", "PAUSING", "PAUSED"}
  /\ deferred # "RUN_ON" /\ pc[CPU] \notin {"restore", "store"}

\* Where the CPU thread runs the core or what the core calls back.
CorePlaces == {"core", "pauseFromThread", "videoSync", "post", "posted", "audioBlocked"}

\* No other frame ends before the CPU thread looks at the state again.
FrameIsOver == pc[CPU] # "pauseFromThread" /\ (pc[CPU] \in CorePlaces => frameDone)

\* The state is s, or was when the interruption came.
Behind(s) == state = s \/ (Interrupted /\ savedState = s)

\* The caller has the core paused and waits until it is.
AwaitsPause(m) == call[m] \in Pausing /\ pc[m] \in WaitPlaces

\* How far a pause has come: with the core out of reach when it is there, and the frame
\* over when it is the frame that asked for the pause.
PauseStages(m) ==
  /\ pc[CPU] \in {"pauseFromThread", "videoSync", "post", "posted"} => frameDone
  /\ Behind("PAUSED") => pc[CPU] \notin CorePlaces
  /\ Behind("PAUSING") => FrameIsOver \/ AwaitsPause(m)
  /\ (interruptDepth > 0 /\ mCoreThreadIsActive /\ ~Interrupted) => savedState = "RUNNING"
  /\ (AwaitsPause(m) /\ state \notin ExitStates) =>
       state = "PAUSED" \/ (state = "PAUSING" /\ pc[m] \in BeforeRestore)

\* videoFrameOn is set, or will be by whoever has read it or is to restore it.
Raised(m) == videoFrameOn \/ frameOn[m] \/ frameWasOn \/ (pc[CPU] = "videoSync" /\ frameOn[CPU])

\* While the thread lives, only the frame that ends in the middle of a pause raises
\* videoFrameOn, and the caller who paused is there to clear it.
RaisedInv(m) ==
  Raised(m) =>
    /\ FrameIsOver
    /\ \/ state \in ExitStates
       \/ /\ ~frameOn[m] /\ ~frameWasOn
          /\ \/ AwaitsPause(m)
             \/ call[m] \in Pausing /\ pc[m] = "setVideoSync" /\ state = "PAUSED"

DisplayInv(m) == PlainStates /\ PauseStages(m) /\ RaisedInv(m)

\* What the display lemmas know of every state.
DisplayBase(m) ==
  /\ ProgramTypeOK /\ CallsInPlace /\ AdvancesPlainly(m) /\ Counted(m) /\ Started
  /\ InterruptIInv

\* With such a frontend there is no prompt, and no interruption in a call that pauses.
LEMMA PlainDepth ==
  ASSUME NEW m \in Clients, DisplayBase(m)
  PROVE  /\ ~Debugging /\ pc[CPU] # "prompt" /\ interruptDepth = held[m]
         /\ call[m] \in Pausing => interruptDepth = 0 /\ ~Interrupted
<1>1. ~Debugging
  BY DEF DisplayBase, AdvancesPlainly, Debugging
<1>2. pc[CPU] # "prompt" /\ interruptDepth = held[m]
  BY <1>1, DepthIsHeld DEF DisplayBase
<1>3. call[m] \in Pausing => interruptDepth = 0
  BY <1>2 DEF DisplayBase, Counted, Pausing
<1> QED
  BY <1>1, <1>2, <1>3 DEF DisplayBase, InterruptIInv, InterruptionsEnd

LEMMA CpuPlainStates ==
  ASSUME NEW m \in Clients, DisplayBase(m), PlainStates, CpuStep \/ RunLoopReturns \/ lineEntered
  PROVE  PlainStates'
<1> USE SyncAssumption DEF PlainStates, syncVars, stateVars, cpuVars
<1>0. pc \in [Threads -> CpuPlaces \cup ClientPlaces]
  BY DEF DisplayBase, ProgramTypeOK, PlacesTypeOK
<1>1. ~readLine /\ ~lineEntered /\ ~mCoreThreadWaitFromThread /\ ~CpuRestoreState
  BY PlainDepth DEF readLine, lineEntered, mCoreThreadWaitFromThread, CpuRestoreState, Step,
     DisplayBase, AdvancesPlainly
<1>2. CASE CpuLock \/ CpuWoken
  BY <1>0, <1>2 DEF CpuLock, CpuWoken, ParkAgain, HandleState, Goto, DeferredStates, WaitingStates, ExitStates
<1>3. CASE CpuStart \/ CpuLoop \/ CpuDeferred \/ CpuExit \/ RunLoopReturns \/ FrameEnded
  BY <1>0, <1>3 DEF CpuStart, CpuLoop, CpuDeferred, CpuExit, RunLoopReturns, FrameEnded, Step, ExitStates
<1>4. CASE mCoreThreadPauseFromThread \/ PauseFromThreadVideoSync \/ CoreCrashes
  BY <1>0, <1>4 DEF mCoreThreadPauseFromThread, PauseFromThreadVideoSync, CoreCrashes, Step, ExitStates
<1>5. CASE CpuParkedAudio \/ CoreSyncStep
  BY <1>0, <1>5 DEF CpuParkedAudio, CoreSyncStep, WaitForAudioRoom, mCoreSyncPostFrame,
     PostFrameWoken, OfferFrame, mCoreSyncProduceAudio, ProduceAudioWoken, Goto
<1> QED
  BY <1>1, <1>2, <1>3, <1>4, <1>5 DEF CpuStep

\* A step of the CPU thread keeps PlainStates, and takes the state through the stages of a
\* caller's pause or unpause only forwards.
LEMMA CpuPauseStages ==
  ASSUME NEW m \in Clients, DisplayBase(m), PlainStates, PauseStages(m),
         CpuStep \/ RunLoopReturns \/ lineEntered
  PROVE  PauseStages(m)'
<1> USE SyncAssumption DEF syncVars, stateVars, cpuVars
<1>0. /\ pc \in [Threads -> CpuPlaces \cup ClientPlaces] /\ frameDone \in BOOLEAN
      /\ interruptDepth \in Int
  BY DEF DisplayBase, ProgramTypeOK, PlacesTypeOK, StateTypeOK
<1>1. /\ ~readLine /\ ~lineEntered /\ ~mCoreThreadWaitFromThread /\ ~CpuRestoreState
      /\ ~Debugging
  BY PlainDepth DEF readLine, lineEntered, mCoreThreadWaitFromThread, CpuRestoreState, Step,
     DisplayBase, AdvancesPlainly, PlainStates
<1>2. call'[m] = call[m] /\ pc'[m] = pc[m] /\ (AwaitsPause(m)' <=> AwaitsPause(m))
  BY CpuLeavesClients DEF DisplayBase, AwaitsPause
<1>3. ASSUME UNCHANGED <<state, savedState, interruptDepth>>,
             pc'[CPU] \in CorePlaces => pc[CPU] \in CorePlaces /\ frameDone' = frameDone,
             pc'[CPU] \in {"pauseFromThread", "videoSync", "post", "posted"} => frameDone',
             pc'[CPU] # "pauseFromThread"
      PROVE  PauseStages(m)'
  BY <1>2, <1>3 DEF PauseStages, Behind, Interrupted, mCoreThreadIsActive, FrameIsOver
<1>4. CASE CpuLock \/ CpuWoken
  <2>1. /\ pc'[CPU] \in {"deferred", "parked", "parkedAudio"}
        /\ UNCHANGED <<savedState, interruptDepth>>
    BY <1>0, <1>4 DEF CpuLock, CpuWoken, ParkAgain, HandleState, Goto
  <2>2. /\ Interrupted' <=> Interrupted
        /\ state' = state \/ state' = "INTERRUPTED" \/ (state = "PAUSING" /\ state' = "PAUSED")
        /\ mCoreThreadIsActive' <=> mCoreThreadIsActive
        /\ state' \in ExitStates <=> state \in ExitStates
    BY <1>4 DEF CpuLock, CpuWoken, ParkAgain, HandleState, DeferredStates, WaitingStates,
       ExitStates, PlainStates, Interrupted, mCoreThreadIsActive
  <2>3. ~(AwaitsPause(m) /\ Interrupted)
    BY PlainDepth DEF AwaitsPause
  <2> QED
    BY <1>2, <2>1, <2>2, <2>3 DEF PauseStages, Behind, Interrupted, FrameIsOver, CorePlaces
<1>5. CASE CpuStart
  <2>1. interruptDepth = 0 /\ call[m] = "none"
    BY <1>5, PlainDepth DEF CpuStart, Step, DisplayBase, Started
  <2> QED
    BY <1>0, <1>2, <1>5, <2>1 DEF CpuStart, Step, PauseStages, Behind, Interrupted, AwaitsPause,
       Pausing, CorePlaces
<1>6. CASE CpuLoop
  <2>1. CASE pc'[CPU] = "core"
    <3>1. state = "RUNNING" /\ UNCHANGED <<state, savedState, interruptDepth>>
      BY <1>0, <1>1, <1>6, <2>1 DEF CpuLoop, Step, PlainStates, RunningStates, ExitStates
    <3> QED
      BY <1>2, <2>1, <3>1 DEF PauseStages, Behind, Interrupted, mCoreThreadIsActive, ExitStates
  <2>2. CASE pc'[CPU] # "core"
    BY <1>0, <1>3, <1>6, <2>2 DEF CpuLoop, Step, CorePlaces
  <2> QED
    BY <2>1, <2>2
<1>7. CASE CpuDeferred \/ RunLoopReturns
  BY <1>0, <1>1, <1>3, <1>7 DEF CpuDeferred, RunLoopReturns, Step, CorePlaces
<1>8. CASE FrameEnded
  <2>1. /\ pc[CPU] = "core" /\ ~frameDone /\ frameDone' = TRUE
        /\ pc'[CPU] \in {"pauseFromThread", "post"}
        /\ UNCHANGED <<state, savedState, interruptDepth>>
    BY <1>0, <1>8 DEF FrameEnded, Step
  <2>2. ~FrameIsOver
    BY <2>1 DEF FrameIsOver, CorePlaces
  <2> QED
    BY <1>2, <2>1, <2>2 DEF PauseStages, Behind, Interrupted, mCoreThreadIsActive, CorePlaces
<1>9. CASE mCoreThreadPauseFromThread
  <2>1. /\ pc[CPU] = "pauseFromThread" /\ pc'[CPU] = "videoSync"
        /\ UNCHANGED <<savedState, interruptDepth, frameDone>>
        /\ \/ state' = state
           \/ state' = "PAUSING" /\ (state = "RUNNING" \/ (interruptDepth > 0 /\ savedState = "RUNNING"))
    BY <1>0, <1>9 DEF mCoreThreadPauseFromThread, Step
  <2>2. frameDone /\ ~Behind("PAUSED") /\ FrameIsOver'
    BY <2>1 DEF PauseStages, CorePlaces, FrameIsOver
  <2>3. CASE state' = state
    BY <1>2, <2>1, <2>2, <2>3 DEF PauseStages, Behind, Interrupted, mCoreThreadIsActive
  <2>4. CASE state' = "PAUSING" /\ (state = "RUNNING" \/ (interruptDepth > 0 /\ savedState = "RUNNING"))
    <3>1. interruptDepth > 0 => savedState = "RUNNING"
      BY <2>4 DEF PauseStages, mCoreThreadIsActive, Interrupted, ExitStates
    <3>2. AwaitsPause(m) => state = "RUNNING" /\ state \notin ExitStates
      BY <1>0, <2>4, PlainDepth DEF AwaitsPause, ExitStates
    <3>3. ~AwaitsPause(m)
      BY <3>2 DEF PauseStages
    <3> QED
      BY <1>2, <2>1, <2>2, <2>4, <3>1, <3>3 DEF PauseStages, Behind, Interrupted
  <2> QED
    BY <2>1, <2>3, <2>4
<1>10. CASE PauseFromThreadVideoSync
  BY <1>0, <1>3, <1>10 DEF PauseFromThreadVideoSync, Step, CorePlaces, PauseStages
<1>11. CASE CpuExit \/ CoreCrashes
  <2>1. /\ UNCHANGED <<savedState, interruptDepth, frameDone>>
        /\ UNCHANGED state \/ state' \in ExitStates
        /\ \/ pc[CPU] = "core" /\ pc'[CPU] = "core" /\ state' \in ExitStates
           \/ pc'[CPU] \in {"exit", "shutdown", "done"}
    BY <1>0, <1>11 DEF CpuExit, CoreCrashes, Step, ExitStates
  <2> QED
    BY <1>2, <2>1 DEF PauseStages, Behind, Interrupted, mCoreThreadIsActive, ExitStates, FrameIsOver, CorePlaces
<1>12. CASE CpuParkedAudio \/ CoreSyncStep
  <2>1. UNCHANGED <<stateVars, frameDone>>
    BY <1>12 DEF CpuParkedAudio, CoreSyncStep
  <2>2. \/ pc[CPU] \in {"post", "posted"} /\ pc'[CPU] \in {"core", "posted"}
        \/ {pc[CPU], pc'[CPU]} \subseteq {"core", "audioBlocked"}
        \/ pc'[CPU] \in {"parkedBlocked", "relock"}
    BY <1>0, <1>12 DEF CpuParkedAudio, CoreSyncStep, WaitForAudioRoom, mCoreSyncPostFrame,
       PostFrameWoken, OfferFrame, mCoreSyncProduceAudio, ProduceAudioWoken, Goto
  <2> QED
    BY <1>3, <2>1, <2>2 DEF PauseStages, CorePlaces
<1> QED
  BY <1>1, <1>4, <1>5, <1>6, <1>7, <1>8, <1>9, <1>10, <1>11, <1>12 DEF CpuStep


LEMMA CpuRaisedInv ==
  ASSUME NEW m \in Clients, DisplayBase(m), PlainStates, PauseStages(m), RaisedInv(m),
         CpuStep \/ RunLoopReturns \/ lineEntered
  PROVE  RaisedInv(m)'
<1> USE SyncAssumption DEF Clients, syncVars, flagVars, stateVars, cpuVars, callVars
<1>0. /\ pc \in [Threads -> CpuPlaces \cup ClientPlaces] /\ frameOn \in [Threads -> BOOLEAN]
      /\ frameDone \in BOOLEAN
  BY DEF DisplayBase, ProgramTypeOK, PlacesTypeOK, StateTypeOK, CallTypeOK
<1>1. /\ ~readLine /\ ~lineEntered /\ ~mCoreThreadWaitFromThread /\ ~CpuRestoreState
      /\ ~Debugging
  BY PlainDepth DEF readLine, lineEntered, mCoreThreadWaitFromThread, CpuRestoreState, Step,
     DisplayBase, AdvancesPlainly, PlainStates
<1>2. /\ call'[m] = call[m] /\ pc'[m] = pc[m] /\ frameOn'[m] = frameOn[m] /\ frameWasOn' = frameWasOn
      /\ AwaitsPause(m)' <=> AwaitsPause(m)
  BY CpuLeavesClients DEF DisplayBase, AwaitsPause
<1>3. Raised(m) /\ state \notin ExitStates => state \in {"PAUSING", "PAUSED"}
  BY DEF RaisedInv, PauseStages
<1>4. ASSUME Raised(m)' => Raised(m),
             Raised(m) => FrameIsOver',
             Raised(m) => state' = state \/ state' = "PAUSED" \/ state' \in ExitStates,
             state \in ExitStates => state' \in ExitStates
      PROVE  RaisedInv(m)'
  BY <1>2, <1>4 DEF RaisedInv
<1>5. CASE CpuLock \/ CpuWoken
  <2>1. /\ pc'[CPU] \in {"deferred", "parked", "parkedAudio"}
        /\ UNCHANGED <<videoFrameOn, frameOn, frameWasOn>>
        /\ state \in ExitStates => state' = state
        /\ state \in {"PAUSING", "PAUSED"} => state' = "PAUSED" \/ state' = state
    BY <1>0, <1>5 DEF CpuLock, CpuWoken, ParkAgain, HandleState, Goto, ExitStates, DeferredStates,
       WaitingStates
  <2> QED
    BY <1>3, <1>4, <2>1 DEF Raised, FrameIsOver, CorePlaces
<1>6. CASE CpuStart
  <2>1. ~Raised(m)
    BY <1>3, <1>6 DEF CpuStart, Step, DisplayBase, Started, ExitStates
  <2> QED
    BY <1>0, <2>1, <1>6 DEF CpuStart, Step, Raised, RaisedInv
<1>7. CASE CpuLoop \/ CpuDeferred \/ RunLoopReturns
  <2>1. /\ UNCHANGED <<state, videoFrameOn, frameOn, frameWasOn>>
        /\ pc'[CPU] # "videoSync"
        /\ pc'[CPU] \in CorePlaces => state \in RunningStates
    BY <1>0, <1>1, <1>7 DEF CpuLoop, CpuDeferred, RunLoopReturns, Step, CorePlaces, PlainStates
  <2> QED
    BY <1>3, <1>4, <2>1 DEF Raised, FrameIsOver, RunningStates, ExitStates, CorePlaces
<1>8. CASE FrameEnded
  <2>1. /\ UNCHANGED <<videoFrameOn, frameOn, frameWasOn>>
        /\ pc[CPU] = "core" /\ ~frameDone /\ pc'[CPU] # "videoSync"
    BY <1>0, <1>8 DEF FrameEnded, Step
  <2> QED
    BY <2>1 DEF Raised, RaisedInv, FrameIsOver, CorePlaces
<1>9. CASE mCoreThreadPauseFromThread
  <2>1. /\ pc[CPU] = "pauseFromThread" /\ pc'[CPU] = "videoSync"
        /\ UNCHANGED <<videoFrameOn, frameWasOn, frameDone>>
    BY <1>0, <1>9 DEF mCoreThreadPauseFromThread, Step
  <2>2. ~Raised(m) /\ frameDone
    BY <2>1 DEF RaisedInv, FrameIsOver, PauseStages
  <2> DEFINE pausing == state = "RUNNING" \/ (interruptDepth > 0 /\ savedState = "RUNNING")
  <2>3. CASE pausing
    <3>1. ~frameOn'[CPU]
      BY <1>0, <1>9, <2>3 DEF mCoreThreadPauseFromThread
    <3> QED
      BY <1>2, <2>1, <2>2, <3>1 DEF Raised, RaisedInv
  <2>4. CASE ~pausing
    <3>1. state' = state
      BY <1>9, <2>4 DEF mCoreThreadPauseFromThread
    <3>2. ~Behind("PAUSED") /\ ~FrameIsOver /\ state # "INITIALIZED"
      BY <2>1 DEF PauseStages, CorePlaces, FrameIsOver, DisplayBase, Started
    <3>3. ~Interrupted
      <4>1. Interrupted => interruptDepth > 0 /\ savedState = "PAUSING"
        BY <2>4, <3>2 DEF PlainStates, Behind, DisplayBase, InterruptIInv, InterruptionsEnd
      <4>2. Interrupted => AwaitsPause(m)
        BY <3>2, <4>1 DEF PauseStages, Behind
      <4> QED
        BY <4>2, PlainDepth DEF AwaitsPause
    <3>4. state \in ExitStates \/ state = "PAUSING"
      BY <2>4, <3>2, <3>3 DEF PlainStates, Behind, Interrupted
    <3>5. state = "PAUSING" => AwaitsPause(m)
      BY <3>2 DEF PauseStages, Behind
    <3> QED
      BY <1>2, <2>1, <2>2, <3>1, <3>4, <3>5 DEF RaisedInv, Raised, FrameIsOver
  <2> QED
    BY <2>3, <2>4
<1>10. CASE PauseFromThreadVideoSync
  <2>1. /\ pc[CPU] = "videoSync" /\ pc'[CPU] = "post" /\ videoFrameOn' = frameOn[CPU]
        /\ UNCHANGED <<state, frameOn, frameWasOn, frameDone>>
    BY <1>0, <1>10 DEF PauseFromThreadVideoSync, _changeVideoSync, Step
  <2> QED
    BY <1>4, <2>1 DEF Raised, FrameIsOver, PauseStages
<1>11. CASE CpuExit \/ CoreCrashes
  <2>1. /\ UNCHANGED <<videoFrameOn, frameOn, frameWasOn, frameDone>>
        /\ UNCHANGED state \/ state' \in ExitStates
        /\ \/ pc[CPU] = "core" /\ pc'[CPU] = "core"
           \/ pc'[CPU] \in {"exit", "shutdown", "done"}
    BY <1>0, <1>11 DEF CpuExit, CoreCrashes, Step, ExitStates
  <2> QED
    BY <1>4, <2>1 DEF Raised, RaisedInv, FrameIsOver, CorePlaces
<1>12. CASE CpuParkedAudio \/ CoreSyncStep
  <2>1. /\ UNCHANGED <<state, videoFrameOn, frameOn, frameWasOn, frameDone>>
        /\ \/ pc[CPU] \in CorePlaces
           \/ pc'[CPU] \in {"parkedBlocked", "relock"}
        /\ pc'[CPU] \notin {"pauseFromThread", "videoSync"}
    BY <1>0, <1>12 DEF CpuParkedAudio, CoreSyncStep, WaitForAudioRoom, mCoreSyncPostFrame,
       PostFrameWoken, OfferFrame, mCoreSyncProduceAudio, ProduceAudioWoken, Goto, CorePlaces
  <2> QED
    BY <1>4, <2>1 DEF Raised, RaisedInv, FrameIsOver, CorePlaces
<1> QED
  BY <1>1, <1>5, <1>6, <1>7, <1>8, <1>9, <1>10, <1>11, <1>12 DEF CpuStep

LEMMA CallerPlainStates ==
  ASSUME NEW m \in Clients, DisplayBase(m), PlainStates, ClientStep(m)
  PROVE  PlainStates'
<1> USE DEF PlainStates, stateVars
<1>0. call[m] \notin {"RunFunction", "SetRewinding", "Reset"} /\ call \in [Clients -> Calls \cup {"none"}]
  BY DEF DisplayBase, CallsInPlace, InItsCall, AdvancesPlainly, Requests, ProgramTypeOK, CallTypeOK
<1>1. pc'[CPU] = pc[CPU] /\ deferred' = deferred
  BY SyncAssumption, ClientLeavesOthers DEF DisplayBase, Clients
<1>2. ~mCoreThreadRunFunction(m) /\ ~mCoreThreadReset(m)
  BY <1>0 DEF mCoreThreadRunFunction, mCoreThreadReset, InCall
<1>3. CASE mCoreThreadInterrupt(m) \/ mCoreThreadInterruptFromThread(m) \/ mCoreThreadContinue(m)
  <2>1. interruptDepth = 0 => ~Interrupted
    BY DEF DisplayBase, InterruptIInv, InterruptionsEnd
  <2> QED
    BY <1>1, <1>3, <2>1 DEF mCoreThreadInterrupt, mCoreThreadInterruptFromThread, InterruptAtOnce,
       mCoreThreadContinue, ContinueState, mCoreThreadIsActive, Interrupted
<1>4. CASE mCoreThreadStopWaiting(m) \/ mCoreThreadSetRewinding(m) \/ mCoreThreadPause(m) \/ mCoreThreadEnd(m)
  BY <1>0, <1>1, <1>4 DEF mCoreThreadStopWaiting, mCoreThreadSetRewinding, mCoreThreadPause,
     mCoreThreadEnd, ExitStates
<1>5. CASE \/ _waitOnInterrupt(m) \/ PauseVideoSync(m) \/ ArmPauseAfterFrame(m) \/ EndAudio(m)
           \/ EndVideo(m) \/ SaveVideo(m) \/ SaveAudio(m) \/ WakeVideo(m) \/ WakeAudio(m)
           \/ LockAgain(m) \/ RestoreAudio(m) \/ RestoreVideo(m) \/ SetAudioSync(m) \/ SetVideoWait(m)
  BY <1>1, <1>5 DEF _waitOnInterrupt, PauseVideoSync, ArmPauseAfterFrame, EndAudio, EndVideo, SaveVideo,
     SaveAudio, WakeVideo, WakeAudio, LockAgain, RestoreAudio, RestoreVideo, SetAudioSync, SetVideoWait
<1> QED
  BY <1>2, <1>3, <1>4, <1>5 DEF ClientStep


LEMMA CallerPauseStages ==
  ASSUME NEW m \in Clients, DisplayBase(m), PlainStates, PauseStages(m), ClientStep(m)
  PROVE  PauseStages(m)'
<1> USE SyncAssumption DEF Clients, stateVars, cpuVars, callVars
<1>0. /\ pc \in [Threads -> CpuPlaces \cup ClientPlaces]
      /\ call \in [Clients -> Calls \cup {"none"}]
      /\ held \in [Clients -> Int] /\ InItsCall(m)
      /\ interruptDepth = held[m] /\ held[m] >= 0
      /\ call[m] \notin {"RunFunction", "SetRewinding", "Reset"}
  BY PlainDepth DEF DisplayBase, ProgramTypeOK, PlacesTypeOK, CallTypeOK, HistoryTypeOK, CallsInPlace,
     Counted, AdvancesPlainly, Requests, InItsCall
<1>1. pc'[CPU] = pc[CPU] /\ frameDone' = frameDone /\ state # "INITIALIZED" /\ (FrameIsOver' <=> FrameIsOver)
  BY <1>0, ClientLeavesOthers DEF DisplayBase, Started, CallsInPlace, InItsCall, FrameIsOver
<1>2. pc[m] \in {"enter", "resume"} => ~AwaitsPause(m)
  BY DEF AwaitsPause, WaitPlaces
<1>3. ASSUME UNCHANGED <<state, savedState, interruptDepth>>, AwaitsPause(m)' => AwaitsPause(m),
             AwaitsPause(m) /\ state = "PAUSING" => AwaitsPause(m)',
             AwaitsPause(m)' /\ state = "PAUSING" => pc'[m] \in BeforeRestore
      PROVE  PauseStages(m)'
  <2>1. AwaitsPause(m) => ~Interrupted
    BY PlainDepth DEF AwaitsPause
  <2> QED
    BY <1>1, <1>3, <2>1 DEF PauseStages, Behind, Interrupted, mCoreThreadIsActive
<1>4. CASE mCoreThreadInterrupt(m) \/ mCoreThreadInterruptFromThread(m)
  <2>1. /\ pc[m] \in {"enter", "resume"} /\ call[m] \in {"Interrupt", "InterruptFromThread"}
        /\ call'[m] \in {"Interrupt", "none"} /\ interruptDepth' = interruptDepth + 1
    BY <1>0, <1>4 DEF mCoreThreadInterrupt, mCoreThreadInterruptFromThread, InCall, Return,
       InterruptAtOnce
  <2>2. ~AwaitsPause(m) /\ ~AwaitsPause(m)'
    BY <2>1 DEF AwaitsPause, Pausing
  <2>3. CASE /\ UNCHANGED savedState /\ (interruptDepth > 0 \/ ~mCoreThreadIsActive)
             /\ UNCHANGED state \/ (state = "INTERRUPTING" /\ state' = "INTERRUPTED")
    BY <1>1, <2>1, <2>2, <2>3 DEF PauseStages, Behind, Interrupted, mCoreThreadIsActive, ExitStates
  <2>4. CASE interruptDepth = 0 /\ mCoreThreadIsActive /\ savedState' = state /\ state' = "INTERRUPTING"
    <3>1. ~Interrupted
      BY <2>4 DEF DisplayBase, InterruptIInv, InterruptionsEnd
    <3> QED
      BY <1>1, <2>2, <2>4, <3>1 DEF PauseStages, Behind, Interrupted
  <2>5. CASE mCoreThreadInterruptFromThread(m)
    BY <2>3, <2>4, <2>5 DEF mCoreThreadInterruptFromThread, InterruptAtOnce
  <2>6. CASE mCoreThreadInterrupt(m)
    BY <2>3, <2>4, <2>6 DEF mCoreThreadInterrupt
  <2> QED
    BY <1>4, <2>5, <2>6
<1>5. CASE mCoreThreadContinue(m)
  <2>1. /\ call[m] = "Continue" /\ call'[m] = "none" /\ pc[m] \in {"enter", "resume"} /\ held[m] > 0
        /\ interruptDepth' = interruptDepth - 1 /\ savedState' = savedState
    BY <1>0, <1>5 DEF mCoreThreadContinue, ContinueState, InCall, Return, DisplayBase, Counted
  <2>2. ~AwaitsPause(m) /\ ~AwaitsPause(m)'
    BY <2>1 DEF AwaitsPause, Pausing
  <2>3. CASE LastInterrupt /\ mCoreThreadIsActive
    <3>1. state' = savedState /\ interruptDepth' = 0 /\ savedState \in {"RUNNING", "PAUSING", "PAUSED"}
      BY <1>0, <1>5, <2>1, <2>3 DEF mCoreThreadContinue, ContinueState, LastInterrupt, PlainStates
    <3>2. ~Interrupted => state' = "RUNNING"
      BY <1>0, <2>1, <2>3, <3>1 DEF PauseStages
    <3> QED
      BY <1>1, <2>1, <2>2, <3>1, <3>2 DEF PauseStages, Behind, Interrupted
  <2>4. CASE ~(LastInterrupt /\ mCoreThreadIsActive)
    <3>1. state' = state
      BY <1>5, <2>4 DEF mCoreThreadContinue, ContinueState
    <3> QED
      BY <1>0, <1>1, <2>1, <2>2, <2>4, <3>1 DEF PauseStages, Behind, Interrupted, mCoreThreadIsActive
  <2> QED
    BY <2>3, <2>4
<1>6. CASE mCoreThreadPause(m)
  <2>1. /\ call[m] \in Pausing /\ pc[m] \in {"enter", "resume"} /\ ~Interrupted /\ interruptDepth = 0
        /\ UNCHANGED <<savedState, interruptDepth>> /\ call'[m] = call[m]
    BY <1>6, PlainDepth DEF mCoreThreadPause, InCall
  <2>2. CASE state' = "PAUSING" /\ pc'[m] = "saveVideo"
    BY <1>1, <2>1, <2>2 DEF PauseStages, Behind, Interrupted, AwaitsPause, WaitPlaces, BeforeRestore
  <2>3. CASE state' \in {state, "RUNNING"} /\ pc'[m] = "setVideoSync"
    BY <1>1, <1>2, <2>1, <2>3 DEF PauseStages, Behind, Interrupted, AwaitsPause, WaitPlaces
  <2> QED
    BY <1>0, <1>6, <2>2, <2>3 DEF mCoreThreadPause, StartWaiting, Goto
<1>7. CASE mCoreThreadEnd(m)
  BY <1>0, <1>1, <1>2, <1>7 DEF mCoreThreadEnd, InCall, Goto, PauseStages, Behind, Interrupted,
     mCoreThreadIsActive, ExitStates, AwaitsPause, WaitPlaces
<1>8. CASE mCoreThreadStopWaiting(m) \/ mCoreThreadSetRewinding(m)
  <2>1. /\ UNCHANGED <<state, savedState, interruptDepth>> /\ call'[m] = "none"
        /\ pc[m] \in {"enter", "resume"}
    BY <1>0, <1>8 DEF mCoreThreadStopWaiting, mCoreThreadSetRewinding, InCall, Return, PlainStates, ExitStates
  <2> QED
    BY <1>2, <1>3, <2>1 DEF AwaitsPause, Pausing
<1>9. CASE _waitOnInterrupt(m) \/ PauseVideoSync(m) \/ ArmPauseAfterFrame(m) \/ EndAudio(m) \/ EndVideo(m)
           \/ SetAudioSync(m) \/ SetVideoWait(m)
  <2>1. /\ UNCHANGED <<state, savedState, interruptDepth>>
        /\ pc[m] \notin WaitPlaces /\ pc'[m] \notin WaitPlaces
    BY <1>0, <1>9 DEF _waitOnInterrupt, PauseVideoSync, ArmPauseAfterFrame, EndAudio, EndVideo,
       SetAudioSync, SetVideoWait, InCall, Return, Step, Goto, WaitPlaces
  <2> QED
    BY <1>3, <2>1 DEF AwaitsPause
<1>10. CASE SaveVideo(m) \/ SaveAudio(m) \/ WakeVideo(m) \/ WakeAudio(m) \/ LockAgain(m)
  <2>1. /\ UNCHANGED <<state, savedState, interruptDepth, call>>
        /\ pc[m] \in WaitPlaces /\ pc'[m] \in WaitPlaces
        /\ pc'[m] \in BeforeRestore \/ state # WaitedFor(m)
    BY <1>0, <1>10 DEF SaveVideo, SaveAudio, WakeVideo, WakeAudio, LockAgain, TestState, Goto, Step,
       WaitPlaces, BeforeRestore
  <2>2. call[m] \in Pausing => WaitedFor(m) = "PAUSING"
    BY DEF WaitedFor, Pausing
  <2> QED
    BY <1>3, <2>1, <2>2 DEF AwaitsPause
<1>11. CASE RestoreAudio(m)
  <2>1. /\ UNCHANGED <<state, savedState, interruptDepth, call>>
        /\ pc[m] = "restoreAudio" /\ pc'[m] = "restoreVideo"
    BY <1>0, <1>11 DEF RestoreAudio, Step
  <2>2. AwaitsPause(m) => state # "PAUSING"
    BY <2>1 DEF PauseStages, BeforeRestore, ExitStates
  <2> QED
    BY <1>3, <2>1, <2>2 DEF AwaitsPause, WaitPlaces
<1>12. CASE RestoreVideo(m)
  <2>1. /\ UNCHANGED <<state, savedState, interruptDepth>>
        /\ pc[m] = "restoreVideo" /\ pc'[m] \in {"setVideoSync", "idle"}
    BY <1>0, <1>12 DEF RestoreVideo, Return, Goto
  <2>2. AwaitsPause(m) => state # "PAUSING"
    BY <2>1 DEF PauseStages, BeforeRestore, ExitStates
  <2> QED
    BY <1>3, <2>1, <2>2 DEF AwaitsPause, WaitPlaces
<1>13. ~mCoreThreadRunFunction(m) /\ ~mCoreThreadReset(m)
  BY <1>0 DEF mCoreThreadRunFunction, mCoreThreadReset, InCall
<1> QED
  BY <1>4, <1>5, <1>6, <1>7, <1>8, <1>9, <1>10, <1>11, <1>12, <1>13 DEF ClientStep

LEMMA CallerRaisedInv ==
  ASSUME NEW m \in Clients, DisplayBase(m), PlainStates, PauseStages(m), RaisedInv(m), ClientStep(m)
  PROVE  RaisedInv(m)'
<1> USE SyncAssumption DEF Clients, syncVars, stateVars, cpuVars, callVars
<1>0. /\ pc \in [Threads -> CpuPlaces \cup ClientPlaces]
      /\ call \in [Clients -> Calls \cup {"none"}]
      /\ frameOn \in [Threads -> BOOLEAN] /\ InItsCall(m)
      /\ call[m] \notin {"RunFunction", "SetRewinding", "Reset"}
  BY DEF DisplayBase, ProgramTypeOK, PlacesTypeOK, CallTypeOK, CallsInPlace, AdvancesPlainly, Requests,
     InItsCall
<1>1. /\ pc'[CPU] = pc[CPU] /\ frameDone' = frameDone /\ frameOn'[CPU] = frameOn[CPU]
      /\ FrameIsOver' <=> FrameIsOver
  BY ClientLeavesOthers DEF DisplayBase, FrameIsOver
<1>2. Raised(m) /\ pc[m] \notin WaitPlaces \cup {"setVideoSync"} => state \in ExitStates
  BY DEF RaisedInv, AwaitsPause
\* What leaves the end alone, and no new TRUE.
<1>3. ASSUME pc[m] \notin WaitPlaces \cup {"setVideoSync"}, Raised(m)' => Raised(m),
             state \in ExitStates => state' \in ExitStates
      PROVE  RaisedInv(m)'
  BY <1>1, <1>2, <1>3 DEF RaisedInv
<1>4. CASE mCoreThreadInterrupt(m) \/ mCoreThreadInterruptFromThread(m) \/ mCoreThreadContinue(m)
  <2>1. /\ pc[m] \in {"enter", "resume"} /\ UNCHANGED <<videoFrameOn, frameWasOn>>
        /\ frameOn'[m] => frameOn[m]
    BY <1>0, <1>4 DEF mCoreThreadInterrupt, mCoreThreadInterruptFromThread, mCoreThreadContinue, InCall, Return
  <2>2. state \in ExitStates => state' = state
    BY <1>4 DEF mCoreThreadInterrupt, mCoreThreadInterruptFromThread, InterruptAtOnce,
       mCoreThreadContinue, ContinueState, mCoreThreadIsActive, ExitStates
  <2> QED
    BY <1>1, <1>3, <2>1, <2>2 DEF Raised, WaitPlaces
<1>5. CASE mCoreThreadPause(m)
  <2>1. /\ pc[m] \in {"enter", "resume"} /\ UNCHANGED <<videoFrameOn, frameWasOn>>
        /\ frameOn'[m] = frameOn[m] \/ frameOn'[m] = frameWasOn
        /\ state \in ExitStates => state' = state
    BY <1>0, <1>5 DEF mCoreThreadPause, InCall, ExitStates
  <2> QED
    BY <1>1, <1>3, <2>1 DEF Raised, WaitPlaces
<1>6. CASE PauseVideoSync(m)
  <2>1. /\ pc[m] = "setVideoSync" /\ videoFrameOn' = frameOn[m] /\ UNCHANGED <<state, frameWasOn>>
        /\ frameOn'[m] => frameOn[m]
    BY <1>0, <1>6 DEF PauseVideoSync, _changeVideoSync, Return
  <2>2. Raised(m) /\ state \notin ExitStates => ~Raised(m)'
    <3>1. Raised(m) /\ state \notin ExitStates => ~frameOn[m] /\ ~frameWasOn /\ state = "PAUSED"
      BY <2>1 DEF RaisedInv, AwaitsPause, WaitPlaces
    <3>2. state = "PAUSED" => pc[CPU] # "videoSync"
      BY DEF PauseStages, Behind, CorePlaces
    <3> QED
      BY <1>1, <2>1, <3>1, <3>2 DEF Raised
  <2>3. Raised(m)' => Raised(m)
    BY <1>1, <2>1 DEF Raised
  <2> QED
    BY <1>1, <2>1, <2>2, <2>3 DEF RaisedInv
<1>7. CASE ArmPauseAfterFrame(m)
  <2>1. pc[m] = "arm" /\ frameOn'[m] = videoFrameOn /\ UNCHANGED <<state, videoFrameOn, frameWasOn>>
    BY <1>0, <1>7 DEF ArmPauseAfterFrame, Step
  <2> QED
    BY <1>1, <1>3, <2>1 DEF Raised, WaitPlaces
<1>8. CASE mCoreThreadEnd(m) \/ EndAudio(m) \/ EndVideo(m)
  <2>1. /\ pc[m] \in {"enter", "resume", "endAudio", "endVideo"} /\ UNCHANGED frameWasOn
        /\ videoFrameOn' => videoFrameOn
        /\ frameOn'[m] => frameOn[m]
        /\ state' \in {state, "EXITING"}
    BY <1>0, <1>8 DEF mCoreThreadEnd, EndAudio, EndVideo, InCall, Return, Step
  <2> QED
    BY <1>1, <1>3, <2>1 DEF Raised, WaitPlaces, ExitStates
<1>9. CASE _waitOnInterrupt(m) \/ mCoreThreadStopWaiting(m) \/ mCoreThreadSetRewinding(m)
           \/ SetAudioSync(m) \/ SetVideoWait(m)
  <2>1. /\ pc[m] \in {"enter", "resume", "setSync"} /\ UNCHANGED <<state, videoFrameOn, frameWasOn>>
        /\ frameOn'[m] => frameOn[m]
    BY <1>0, <1>9 DEF _waitOnInterrupt, mCoreThreadStopWaiting, mCoreThreadSetRewinding, SetAudioSync,
       SetVideoWait, InCall, Return, PlainStates, ExitStates
  <2> QED
    BY <1>1, <1>3, <2>1 DEF Raised, WaitPlaces
<1>10. CASE SaveVideo(m) \/ SaveAudio(m) \/ WakeVideo(m) \/ WakeAudio(m) \/ LockAgain(m) \/ RestoreAudio(m)
  <2>1. /\ UNCHANGED <<state, call, videoFrameOn, frameOn, frameWasOn>>
        /\ pc[m] \in WaitPlaces /\ pc'[m] \in WaitPlaces
    BY <1>0, <1>10 DEF SaveVideo, SaveAudio, WakeVideo, WakeAudio, LockAgain, RestoreAudio, TestState,
       Goto, Step, WaitPlaces
  <2> QED
    BY <1>1, <2>1 DEF Raised, RaisedInv, AwaitsPause, WaitPlaces
<1>11. CASE RestoreVideo(m)
  <2>1. /\ pc[m] = "restoreVideo" /\ UNCHANGED <<state, videoFrameOn>> /\ ~frameOn'[m]
        /\ \/ call[m] \in Pausing /\ frameWasOn' = frameOn[m] /\ call'[m] = call[m] /\ pc'[m] = "setVideoSync"
           \/ call[m] \notin Pausing /\ frameWasOn' = frameWasOn
    BY <1>0, <1>11 DEF RestoreVideo, Return, Goto
  <2>2. Raised(m)' => Raised(m)
    BY <1>1, <2>1 DEF Raised
  <2>3. CASE state \in ExitStates
    BY <1>1, <2>1, <2>2, <2>3 DEF RaisedInv
  <2>4. CASE state \notin ExitStates
    <3>1. Raised(m) => AwaitsPause(m) /\ ~frameOn[m]
      BY <2>1, <2>4 DEF RaisedInv
    <3>2. AwaitsPause(m) => state = "PAUSED" /\ call[m] \in Pausing
      BY <2>1, <2>4 DEF PauseStages, AwaitsPause, BeforeRestore
    <3> QED
      BY <1>1, <2>1, <2>2, <3>1, <3>2 DEF RaisedInv
  <2> QED
    BY <2>3, <2>4
<1>12. ~mCoreThreadRunFunction(m) /\ ~mCoreThreadReset(m)
  BY <1>0 DEF mCoreThreadRunFunction, mCoreThreadReset, InCall
<1> QED
  BY <1>4, <1>5, <1>6, <1>7, <1>8, <1>9, <1>10, <1>11, <1>12 DEF ClientStep

LEMMA StepDisplayInv ==
  ASSUME NEW m \in Clients
  PROVE  DisplayBase(m) /\ DisplayInv(m) /\ [Next]_vars => DisplayInv(m)'
<1> SUFFICES ASSUME DisplayBase(m), DisplayInv(m), [Next]_vars PROVE DisplayInv(m)'
  OBVIOUS
<1> USE SyncAssumption DEF Clients, stateVars, cpuVars, callVars, DisplayInv
<1>0. /\ pc \in [Threads -> CpuPlaces \cup ClientPlaces] /\ frameOn \in [Threads -> BOOLEAN]
      /\ call \in [Clients -> Calls \cup {"none"}]
  BY DEF DisplayBase, ProgramTypeOK, PlacesTypeOK, CallTypeOK
<1>1. CASE CpuStep \/ RunLoopReturns \/ lineEntered
  BY <1>1, CpuPlainStates, CpuPauseStages, CpuRaisedInv
<1>2. CASE ClientStep(m)
  BY <1>2, CallerPlainStates, CallerPauseStages, CallerRaisedInv
\* The other steps touch neither the state nor the display flag and its copies ...
<1>3. ASSUME UNCHANGED <<state, savedState, interruptDepth, deferred, frameDone, frameWasOn, videoFrameOn>>,
             pc'[CPU] = pc[CPU], frameOn'[CPU] = frameOn[CPU],
             AwaitsPause(m)' <=> AwaitsPause(m),
             pc'[m] = pc[m] \/ pc[m] \notin WaitPlaces \cup {"setVideoSync"},
             call'[m] = call[m] \/ pc[m] \notin WaitPlaces \cup {"setVideoSync"},
             AwaitsPause(m) => pc'[m] = pc[m],
             frameOn'[m] = frameOn[m] \/ (pc[m] = "idle" /\ (frameOn'[m] => videoFrameOn))
      PROVE  DisplayInv(m)'
  <2>1. PlainStates' /\ PauseStages(m)'
    BY <1>3 DEF PlainStates, PauseStages, Behind, Interrupted, FrameIsOver, mCoreThreadIsActive
  <2>2. (Raised(m)' => Raised(m)) /\ (FrameIsOver' <=> FrameIsOver)
    BY <1>3 DEF Raised, FrameIsOver
  <2>3. Raised(m) /\ pc[m] \notin WaitPlaces \cup {"setVideoSync"} => state \in ExitStates
    BY DEF RaisedInv, AwaitsPause
  <2>4. RaisedInv(m)'
    BY <1>3, <2>2, <2>3 DEF RaisedInv, WaitPlaces
  <2> QED
    BY <2>1, <2>4
<1>4. CASE Outside
  <2>1. /\ UNCHANGED <<stateVars, cpuVars, callVars, videoFrameOn>> /\ pc'[CPU] = pc[CPU]
        /\ pc'[m] = pc[m] \/ (pc[m] \notin CallPlaces /\ pc'[m] \notin CallPlaces)
    BY <1>4, OutsideLeavesCalls DEF DisplayBase
  <2> QED
    BY <1>3, <2>1 DEF AwaitsPause, CallPlaces
<1>5. ASSUME NEW c \in Clients, NEW op \in Calls, Request(c, op) PROVE DisplayInv(m)'
  <2>1. /\ UNCHANGED <<state, savedState, interruptDepth, deferred, frameDone, frameWasOn, videoFrameOn>>
        /\ pc'[CPU] = pc[CPU] /\ frameOn'[CPU] = frameOn[CPU]
        /\ c # m => pc'[m] = pc[m] /\ call'[m] = call[m] /\ frameOn'[m] = frameOn[m]
        /\ c = m => pc[m] = "idle" /\ pc'[m] = "enter" /\ (frameOn'[m] => videoFrameOn)
    BY <1>0, <1>5 DEF Request, Step, syncVars
  <2> QED
    BY <1>3, <2>1 DEF AwaitsPause, WaitPlaces
<1>6. ASSUME NEW c \in Clients, c # m, ClientStep(c) PROVE DisplayInv(m)'
  <2>1. /\ UNCHANGED <<interruptDepth, deferred, frameDone, frameWasOn, videoFrameOn>>
        /\ pc'[CPU] = pc[CPU] /\ pc'[m] = pc[m] /\ call'[m] = call[m]
        /\ frameOn'[CPU] = frameOn[CPU] /\ frameOn'[m] = frameOn[m]
    BY <1>6, PeerStep, ClientLeavesOthers DEF DisplayBase, AdvancesPlainly
  <2>2. UNCHANGED <<state, savedState>>
    BY <1>6, PeerStep DEF DisplayBase, AdvancesPlainly, PlainStates, ExitStates
  <2> QED
    BY <1>3, <2>1, <2>2 DEF AwaitsPause
<1> QED
  BY <1>1, <1>2, <1>4, <1>5, <1>6, StepCases

LEMMA DisplayHolds ==
  ASSUME NEW m \in Clients PROVE Spec /\ AdvancesPlainly(m) => []DisplayInv(m)
<1>1. Init => DisplayInv(m)
  BY SyncAssumption, CoreThreadAssumption
     DEF Init, DisplayInv, PlainStates, PauseStages, RaisedInv, Raised, Behind, Interrupted, AwaitsPause,
         Pausing, Clients, CorePlaces
<1>2. AdvancesPlainly(m) => CallsFrom(m)
  BY DEF AdvancesPlainly
<1>3. AdvancesPlainly(m) /\ [Next]_vars => AdvancesPlainly(m)'
  BY StepCases DEF AdvancesPlainly, CallsFrom, Requests
<1>4. /\ ProgramTypeOK /\ CallsInPlace /\ AdvancesPlainly(m) /\ Counted(m) /\ Started
      /\ InterruptIInv
      => DisplayBase(m)
  BY DEF DisplayBase
<1> QED
  BY <1>1, <1>2, <1>3, <1>4, StepDisplayInv, CountHolds, StartedHolds, InterruptIInvHolds,
     CallsStayInPlace, ProgramTypesHold, PTL DEF Spec

\* With nobody in a call, a paused core does not hold up the display (_changeVideoSync): with
\* any number of clients who never advance the core by a frame, and with one caller who does,
\* if beside that it only pauses, interrupts and ends.
THEOREM PausedDisplayIsLeftFree ==
  ASSUME NEW m \in Clients
  PROVE  Spec /\ (NeverAdvances \/ AdvancesPlainly(m)) => []PausedDisplayIsFree
<1>1. NeverRaised => PausedDisplayIsFree
  BY DEF NeverRaised, PausedDisplayIsFree
<1>2. DisplayInv(m) => PausedDisplayIsFree
  BY DEF DisplayInv, RaisedInv, Raised, AwaitsPause, Pausing, PausedDisplayIsFree, ExitStates
<1> QED
  BY <1>1, <1>2, NeverRaisedHolds, DisplayHolds, PTL

================================================================================
