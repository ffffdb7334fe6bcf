------------------------------- MODULE CoreThread -------------------------------
(***************************************************************************)
(* core/thread.c: the thread that runs an emulated machine (the CPU        *)
(* thread) and the calls by which the other threads of a frontend - its    *)
(* clients - start, interrupt, pause, reset and end it.  Every section of  *)
(* the code that holds a mutex, and every unlocked access of shared state, *)
(* is a step.                                                              *)
(***************************************************************************)
EXTENDS CoreSync

CONSTANTS Owner,      \* the client that starts the thread and joins it
          Frontends,  \* the frontends: which clients draw, the pairs <<client, call>>
                      \* they make, and the calls the core makes from the CPU thread
          LateCalls,  \* may the calls of Late come after the end?
          MaxDepth    \* bound on the interrupts a client nests

Calls == {"Interrupt", "InterruptFromThread", "Continue", "RunFunction", "Pause",
          "Unpause", "TogglePause", "FrameAdvance", "SetRewinding", "StopRewinding",
          "StopWaiting", "Reset", "End", "SyncOn", "SyncOff", "AudioSyncOn", "AudioSyncOff"}

ASSUME CoreThreadAssumption ==
  /\ Owner \in Clients
  /\ Frontends \subseteq
       [painters : SUBSET Clients, requests : SUBSET (Clients \X Calls),
        cpuCalls : SUBSET {"WaitFromThread", "Crash", "MarkCrashed", "ReadLine"}]
  /\ LateCalls \in BOOLEAN
  /\ MaxDepth \in Nat \ {0}

VARIABLES
  frontend,        \* the frontend that runs the thread, never changed
  state,           \* impl->state, stateMutex protects it (mostly)
  savedState,      \* impl->savedState: the state behind an interruption
  interruptDepth,  \* impl->interruptDepth
  frameWasOn,      \* impl->frameWasOn: videoFrameOn behind a pause
  run,             \* the client whose function mCoreThreadRunFunction left
  frameCallback,   \* is _pauseAfterFrame the frameCallback?
  deferred,        \* CPU: the local of _mCoreThreadRun
  frameDone,       \* CPU: this pass of core->runLoop has ended a frame
  frameOn,         \* frameOn[t]: the local of the pausing calls
  call,            \* call[c]: the call client c is in
  flags,           \* flags[c]: the locals of _waitUntilNotState
  held,            \* held[c]: interrupts client c has to continue (history)
  granted,         \* granted[c]: a call of Interrupt has stopped the core (history)
  asked,           \* the sync flags last asked for by a frontend (history)
  ran              \* ran[c]: how often the function of c has run (history)

\* Mutant: the inner loop runs the core in every state below PAUSING.
RunningBelowPausing == {"RUNNING", "REWINDING", "WAITING", "INTERRUPTED", "PAUSED"}

\* enum mCoreThreadState, by the ranges the code compares with.
RunningStates == {"RUNNING", "REWINDING"}
WaitingStates == {"WAITING", "INTERRUPTED", "PAUSED"}
DeferredStates == {"PAUSING", "RUN_ON", "RESETING"}
ExitStates == {"EXITING", "SHUTDOWN", "CRASHED"}
States == {"INITIALIZED", "INTERRUPTING"}
            \cup RunningStates \cup WaitingStates \cup DeferredStates \cup ExitStates

stateVars == <<state, savedState, interruptDepth, frameWasOn>>
cpuVars == <<run, frameCallback, deferred, frameDone>>
callVars == <<call, frameOn, flags>>
historyVars == <<held, granted, asked, ran>>
threadVars == <<owner, waiting, pc>>
programVars == <<syncVars, stateVars, cpuVars, callVars, historyVars, threadVars>>
vars == <<programVars, frontend>>

\* Mutant: forgets that a thread may have ended.
IsActiveOnceStarted == state # "INITIALIZED"

mCoreThreadIsActive == state \notin {"INITIALIZED"} \cup ExitStates

Interrupted == state \in {"INTERRUPTED", "INTERRUPTING"}

mCoreThreadIsPaused == (IF interruptDepth > 0 THEN savedState ELSE state) = "PAUSED"

\* What mCoreThreadInterruptFromThread does, for a client or the CPU thread.
InterruptAtOnce ==
  /\ interruptDepth' = interruptDepth + 1
  /\ \/ /\ interruptDepth > 0 \/ ~mCoreThreadIsActive
        /\ state' = IF state = "INTERRUPTING" THEN "INTERRUPTED" ELSE state
        /\ UNCHANGED <<savedState, waiting>>
     \/ /\ interruptDepth = 0 /\ mCoreThreadIsActive
        /\ savedState' = state
        /\ state' = "INTERRUPTING"
        /\ ConditionWake({"stateCond"})

\* Mutant: the depth is tested before it is decremented.
WasLastInterrupt == interruptDepth < 1

LastInterrupt == interruptDepth - 1 < 1

\* Mutant: those who wait for the end of the interruption are not woken.
ContinueUnheard ==
  /\ interruptDepth' = interruptDepth - 1
  /\ state' = IF LastInterrupt /\ mCoreThreadIsActive THEN savedState ELSE state
  /\ UNCHANGED waiting

\* What mCoreThreadContinue does.
ContinueState ==
  /\ interruptDepth' = interruptDepth - 1
  /\ \/ /\ LastInterrupt /\ mCoreThreadIsActive
        /\ state' = savedState
        /\ ConditionWake({"stateCond"})
     \/ /\ ~(LastInterrupt /\ mCoreThreadIsActive)
        /\ UNCHANGED <<state, waiting>>

--------------------------------------------------------------------------------
(* The CPU thread: _mCoreThreadRun *)

CpuStart ==
  /\ Step(CPU, "start", "loop")
  /\ Section("stateMutex")
  /\ state' = "RUNNING"
  /\ ConditionWake({"stateCond"})
  /\ UNCHANGED <<syncVars, savedState, interruptDepth, frameWasOn, cpuVars, callVars, historyVars>>

\* With a debugger attached, mDebuggerRun takes the place of the inner loop:
\* the core goes on for one round whatever the state has become.
Debugging == "ReadLine" \in frontend.cpuCalls

\* The unlocked tests of the outer and of the inner while loop.
CpuLoop ==
  /\ \/ state \notin ExitStates /\ Step(CPU, "loop", "inner")
     \/ state \in ExitStates /\ Step(CPU, "loop", "exit")
     \/ (Debugging \/ state \in RunningStates) /\ Step(CPU, "inner", "core")
     \/ ~Debugging /\ state \notin RunningStates /\ Step(CPU, "inner", "lock")
  /\ UNCHANGED <<syncVars, stateVars, cpuVars, callVars, historyVars, owner, waiting>>

\* core->runLoop returns, which it does after every batch of events: a batch is
\* shorter than a frame.
RunLoopReturns ==
  /\ Step(CPU, "core", IF Debugging THEN "lock" ELSE "inner")
  /\ frameDone' = FALSE
  /\ UNCHANGED <<syncVars, stateVars, run, frameCallback, deferred, callVars, historyVars, owner, waiting>>

\* The loop over the states that stop the core, with d the value of deferred,
\* until the CPU thread sleeps or leaves the loop.
HandleState(d) ==
  \/ /\ state \notin WaitingStates \cup DeferredStates \cup {"INTERRUPTING"}
     /\ deferred' = d
     /\ Goto(CPU, "deferred")
     /\ UNCHANGED <<state, waiting>>
  \/ /\ state \in DeferredStates
     /\ deferred' = state
     /\ state' = CASE state = "PAUSING" -> "PAUSED"
                   [] state = "RESETING" -> "RUNNING"
                   [] state = "RUN_ON" -> "RUN_ON"
     /\ Goto(CPU, "deferred")
     /\ UNCHANGED waiting
  \/ /\ state = "INTERRUPTING"
     /\ state' = "INTERRUPTED"
     /\ deferred' = savedState
     /\ WakeAndWait({"stateCond"}, "stateCond", CPU)
     /\ Goto(CPU, "parked")
  \/ /\ state \in WaitingStates
     /\ deferred' = IF state = "INTERRUPTED" THEN savedState ELSE state
     /\ ConditionWait("stateCond", CPU)
     /\ Goto(CPU, "parked")
     /\ UNCHANGED state

CpuLock ==
  /\ pc[CPU] = "lock"
  /\ Section("stateMutex")
  /\ HandleState("RUNNING")
  /\ UNCHANGED <<syncVars, savedState, interruptDepth, frameWasOn, run, frameCallback, frameDone, callVars, historyVars>>

\* The inner loop sleeps again without looking at what it waits for.
ParkAgain ==
  \/ /\ state \in WaitingStates
     /\ ConditionWait("stateCond", CPU)
     /\ Goto(CPU, "parked")
     /\ UNCHANGED <<state, deferred>>
  \/ /\ state \notin WaitingStates
     /\ HandleState(deferred)

\* Woken, the CPU thread leaves stateMutex to look at the audio buffer.
CpuWoken ==
  /\ Awake(CPU, "stateCond")
  /\ Section("stateMutex")
  /\ \/ /\ pc[CPU] = "parked" /\ audioWait
        /\ Goto(CPU, "parkedAudio")
        /\ UNCHANGED <<state, deferred, waiting>>
     \/ /\ (pc[CPU] = "parked" /\ ~audioWait) \/ pc[CPU] = "relock"
        /\ ParkAgain
  /\ UNCHANGED <<syncVars, savedState, interruptDepth, frameWasOn, run, frameCallback, frameDone, callVars, historyVars>>

CpuParkedAudio ==
  /\ pc[CPU] \in {"parkedAudio", "parkedBlocked"}
  /\ Awake(CPU, "audioRequiredCond")
  /\ WaitForAudioRoom(avail, "parkedBlocked", "relock")
  /\ UNCHANGED <<syncVars, stateVars, cpuVars, callVars, historyVars, owner>>

\* The switch on deferred; only the function of RUN_ON changes what is modelled.
CpuDeferred ==
  /\ \/ /\ deferred = "RUN_ON"
        /\ ran' = [ran EXCEPT ![run] = IF @ < 2 THEN @ + 1 ELSE 2]
        /\ Step(CPU, "deferred", "restore")
     \/ /\ deferred # "RUN_ON"
        /\ Step(CPU, "deferred", "loop")
        /\ UNCHANGED ran
  /\ UNCHANGED <<syncVars, stateVars, cpuVars, callVars, held, granted, asked, owner, waiting>>

\* state = savedState without the mutex: a load and a store.
CpuRestoreState ==
  /\ \/ /\ Step(CPU, "restore", "store")
        /\ deferred' = savedState
        /\ UNCHANGED state
     \/ /\ Step(CPU, "store", "loop")
        /\ state' = deferred
        /\ UNCHANGED deferred
  /\ UNCHANGED <<syncVars, savedState, interruptDepth, frameWasOn, run, frameCallback, frameDone, callVars, historyVars, owner, waiting>>

CpuExit ==
  /\ \/ state \in {"SHUTDOWN", "CRASHED"} /\ Step(CPU, "exit", "done") /\ UNCHANGED <<state, owner>>
     \/ state \notin {"SHUTDOWN", "CRASHED"} /\ Step(CPU, "exit", "shutdown") /\ UNCHANGED <<state, owner>>
     \/ Step(CPU, "shutdown", "exit") /\ Section("stateMutex") /\ state' = "SHUTDOWN"
  /\ UNCHANGED <<syncVars, savedState, interruptDepth, frameWasOn, cpuVars, callVars, historyVars, waiting>>

--------------------------------------------------------------------------------
(* What the core calls back while it runs *)

\* _frameEnded, then the core posts its frame.
FrameEnded ==
  /\ ~frameDone /\ frameDone' = TRUE
  /\ \/ frameCallback /\ Step(CPU, "core", "pauseFromThread")
     \/ ~frameCallback /\ Step(CPU, "core", "post")
  /\ frameCallback' = FALSE
  /\ UNCHANGED <<syncVars, stateVars, run, deferred, callVars, historyVars, owner, waiting>>

mCoreThreadPauseFromThread ==
  LET pausing == state = "RUNNING" \/ (interruptDepth > 0 /\ savedState = "RUNNING")
  IN /\ Step(CPU, "pauseFromThread", "videoSync")
     /\ Section("stateMutex")
     /\ state' = IF pausing THEN "PAUSING" ELSE state
     /\ frameOn' = [frameOn EXCEPT ![CPU] = ~pausing]
     /\ UNCHANGED <<syncVars, savedState, interruptDepth, frameWasOn, cpuVars, call, flags, historyVars, waiting>>

PauseFromThreadVideoSync ==
  /\ Step(CPU, "videoSync", "post")
  /\ _changeVideoSync(frameOn[CPU])
  /\ UNCHANGED <<stateVars, cpuVars, callVars, historyVars>>

mCoreThreadWaitFromThread ==
  /\ "WaitFromThread" \in frontend.cpuCalls /\ pc[CPU] = "core"
  /\ Section("stateMutex")
  /\ \/ /\ interruptDepth > 0 /\ savedState = "RUNNING"
        /\ savedState' = "WAITING"
        /\ UNCHANGED state
     \/ /\ ~(interruptDepth > 0 /\ savedState = "RUNNING") /\ state = "RUNNING"
        /\ state' = "WAITING"
        /\ UNCHANGED savedState
  /\ UNCHANGED <<syncVars, interruptDepth, frameWasOn, cpuVars, callVars, historyVars, waiting, pc>>

\* _crashed and mCoreThreadMarkCrashed (a fatal log); only the first wakes.
CoreCrashes ==
  /\ pc[CPU] = "core"
  /\ Section("stateMutex")
  /\ state' = "CRASHED"
  /\ \/ "Crash" \in frontend.cpuCalls /\ ConditionWake({"stateCond"})
     \/ "MarkCrashed" \in frontend.cpuCalls /\ UNCHANGED waiting
  /\ UNCHANGED <<syncVars, savedState, interruptDepth, frameWasOn, cpuVars, callVars, historyVars, pc>>

\* The prompt of the debugger console: the CPU thread interrupts itself, and
\* continues when the frontend has entered a line.
readLine ==
  /\ Debugging /\ Step(CPU, "core", "prompt")
  /\ Section("stateMutex")
  /\ InterruptAtOnce
  /\ UNCHANGED <<syncVars, frameWasOn, cpuVars, callVars, historyVars>>

lineEntered ==
  /\ Step(CPU, "prompt", "core")
  /\ Section("stateMutex")
  /\ ContinueState
  /\ UNCHANGED <<syncVars, savedState, frameWasOn, cpuVars, callVars, historyVars>>

\* The steps of CoreSync the core takes while it runs.
CoreSyncStep ==
  /\ \/ mCoreSyncPostFrame \/ PostFrameWoken
     \/ mCoreSyncProduceAudio \/ ProduceAudioWoken
  /\ UNCHANGED <<stateVars, cpuVars, callVars, historyVars>>

CpuStep ==
  \/ CpuStart \/ CpuLoop \/ CpuLock \/ CpuWoken \/ CpuParkedAudio
  \/ CpuDeferred \/ CpuRestoreState \/ CpuExit
  \/ FrameEnded \/ mCoreThreadPauseFromThread \/ PauseFromThreadVideoSync
  \/ mCoreThreadWaitFromThread \/ CoreCrashes \/ readLine \/ CoreSyncStep

--------------------------------------------------------------------------------
(* The calls of the clients *)

\* mCoreThreadStart, asleep until the CPU thread has reset its core.
StartReturns ==
  /\ Step(Owner, "starting", "idle")
  /\ Awake(Owner, "stateCond")
  /\ Section("stateMutex")
  /\ state # "INITIALIZED"
  /\ UNCHANGED <<syncVars, stateVars, cpuVars, callVars, historyVars, waiting>>

Pausing == {"Pause", "Unpause", "TogglePause", "FrameAdvance"}

\* What brings an ended thread back, or to a halt: a frontend that has called
\* mCoreThreadEnd leaves these alone (unless LateCalls).
Late == {"Reset", "RunFunction", "End", "SyncOn", "AudioSyncOn"}

\* A frontend makes a call.  A client that has interrupted continues before it
\* makes any call but those that interrupt, reset or stop a wait: the others may
\* wait for the end of the interruption, or ask the waiting core for its answer.
Request(c, op) ==
  /\ Step(c, "idle", "enter")
  /\ pc[Owner] \notin {"starting", "join", "gone"}
  /\ <<c, op>> \in frontend.requests
  /\ CASE op \in {"Interrupt", "InterruptFromThread"} -> held[c] < MaxDepth
       [] op = "Continue" -> held[c] > 0
       [] op \in {"Reset", "StopWaiting"} -> TRUE
       [] OTHER -> held[c] = 0
  /\ LateCalls \/ op \notin Late \/ state \notin ExitStates
  /\ call' = [call EXCEPT ![c] = op]
  /\ frameOn' = [frameOn EXCEPT ![c] = op \in Pausing /\ videoFrameOn]
  /\ ran' = [ran EXCEPT ![c] = 0]
  /\ UNCHANGED <<syncVars, stateVars, cpuVars, flags, held, granted, asked, owner, waiting>>

\* c takes stateMutex for one of the calls in ops.
InCall(c, ops) ==
  /\ pc[c] \in {"enter", "resume"} /\ call[c] \in ops
  /\ Awake(c, "stateCond")
  /\ Free("stateMutex")

Return(c) ==
  /\ Goto(c, "idle")
  /\ call' = [call EXCEPT ![c] = "none"]
  /\ frameOn' = [frameOn EXCEPT ![c] = FALSE]

\* stateMutex stays locked into _waitUntilNotState.
StartWaiting(c) ==
  /\ owner' = [owner EXCEPT !["stateMutex"] = c]
  /\ Goto(c, "saveVideo")

\* mCoreThreadSetRewinding returns at once; only before it has waited.
NothingToRewind(c) ==
  LET effective == IF interruptDepth > 0 THEN savedState ELSE state
  IN /\ pc[c] = "enter"
     /\ \/ call[c] = "SetRewinding" /\ "REWINDING" \in {state, effective}
        \/ call[c] = "StopRewinding" /\ effective # "REWINDING"

\* mCoreThreadInterrupt is not here: with an interruption its depth is above 1.
_waitOnInterrupt(c) ==
  /\ InCall(c, Pausing \cup {"RunFunction", "SetRewinding", "StopRewinding", "End"})
  /\ Interrupted /\ ~NothingToRewind(c)
  /\ ConditionWait("stateCond", c)
  /\ Goto(c, "resume")
  /\ run' = IF call[c] = "RunFunction" /\ pc[c] = "enter" THEN c ELSE run
  /\ UNCHANGED <<syncVars, stateVars, frameCallback, deferred, frameDone, callVars, historyVars, owner>>

mCoreThreadInterrupt(c) ==
  /\ InCall(c, {"Interrupt"})
  /\ interruptDepth' = interruptDepth + 1
  /\ held' = [held EXCEPT ![c] = @ + 1]
  /\ \/ /\ interruptDepth > 0 \/ ~mCoreThreadIsActive
        /\ granted' = [granted EXCEPT ![c] = @ \/ state = "INTERRUPTED"]
        /\ Return(c)
        /\ UNCHANGED <<state, savedState, owner, waiting>>
     \/ /\ interruptDepth = 0 /\ mCoreThreadIsActive
        /\ savedState' = state
        /\ state' = "INTERRUPTING"
        /\ ConditionWake({"stateCond"})
        /\ StartWaiting(c)
        /\ UNCHANGED <<call, frameOn, granted>>
  /\ UNCHANGED <<syncVars, frameWasOn, cpuVars, flags, asked, ran>>

mCoreThreadInterruptFromThread(c) ==
  /\ InCall(c, {"InterruptFromThread"})
  /\ InterruptAtOnce
  /\ held' = [held EXCEPT ![c] = @ + 1]
  /\ Return(c)
  /\ UNCHANGED <<syncVars, frameWasOn, cpuVars, flags, granted, asked, ran, owner>>

mCoreThreadContinue(c) ==
  /\ InCall(c, {"Continue"})
  /\ ContinueState
  /\ held' = [held EXCEPT ![c] = @ - 1]
  /\ granted' = [granted EXCEPT ![c] = @ /\ held[c] > 1]
  /\ Return(c)
  /\ UNCHANGED <<syncVars, savedState, frameWasOn, cpuVars, flags, asked, ran, owner>>

mCoreThreadRunFunction(c) ==
  /\ InCall(c, {"RunFunction"}) /\ ~Interrupted
  /\ run' = IF pc[c] = "enter" THEN c ELSE run
  /\ savedState' = state
  /\ state' = "RUN_ON"
  /\ ConditionWake({"stateCond"})
  /\ StartWaiting(c)
  /\ UNCHANGED <<syncVars, interruptDepth, frameWasOn, frameCallback, deferred, frameDone, callVars, historyVars>>

\* Mutant: the reset does not go behind an interruption.
ResetAtOnce(c) ==
  /\ InCall(c, {"Reset"})
  /\ state' = "RESETING"
  /\ ConditionWake({"stateCond"})
  /\ Return(c)
  /\ UNCHANGED <<syncVars, savedState, interruptDepth, frameWasOn, cpuVars, flags, historyVars, owner>>

mCoreThreadReset(c) ==
  /\ InCall(c, {"Reset"})
  /\ \/ Interrupted /\ savedState' = "RESETING" /\ UNCHANGED state
     \/ ~Interrupted /\ state' = "RESETING" /\ UNCHANGED savedState
  /\ ConditionWake({"stateCond"})
  /\ Return(c)
  /\ UNCHANGED <<syncVars, interruptDepth, frameWasOn, cpuVars, flags, historyVars, owner>>

mCoreThreadStopWaiting(c) ==
  LET behind == interruptDepth > 0 /\ savedState = "WAITING"
  IN /\ InCall(c, {"StopWaiting"})
     /\ savedState' = IF behind THEN "RUNNING" ELSE savedState
     /\ \/ /\ ~behind /\ state = "WAITING"
           /\ state' = "RUNNING"
           /\ ConditionWake({"stateCond"})
        \/ /\ behind \/ state # "WAITING"
           /\ UNCHANGED <<state, waiting>>
     /\ Return(c)
     /\ UNCHANGED <<syncVars, interruptDepth, frameWasOn, cpuVars, flags, historyVars, owner>>

mCoreThreadSetRewinding(c) ==
  /\ InCall(c, {"SetRewinding", "StopRewinding"})
  /\ ~Interrupted \/ NothingToRewind(c)
  /\ state' = CASE NothingToRewind(c) -> state
                [] call[c] = "SetRewinding" /\ state = "RUNNING" -> "REWINDING"
                [] call[c] = "StopRewinding" /\ state = "REWINDING" -> "RUNNING"
                [] OTHER -> state
  /\ Return(c)
  /\ UNCHANGED <<syncVars, savedState, interruptDepth, frameWasOn, cpuVars, flags, historyVars, owner, waiting>>

\* mCoreThreadPause, mCoreThreadUnpause and mCoreThreadTogglePause: one of them
\* stops a running core, another lets a paused one go on, the third does both.
mCoreThreadPause(c) ==
  /\ InCall(c, Pausing) /\ ~Interrupted
  /\ \/ /\ call[c] # "Unpause" /\ state = "RUNNING"
        /\ state' = "PAUSING"
        /\ StartWaiting(c)
        /\ UNCHANGED <<frameOn, waiting>>
     \/ /\ call[c] \in {"Unpause", "TogglePause"} /\ state \in {"PAUSED", "PAUSING"}
        /\ state' = "RUNNING"
        /\ ConditionWake({"stateCond"})
        /\ frameOn' = [frameOn EXCEPT ![c] = frameWasOn]
        /\ Goto(c, "setVideoSync")
        /\ UNCHANGED owner
     \/ /\ ~(call[c] # "Unpause" /\ state = "RUNNING")
        /\ ~(call[c] \in {"Unpause", "TogglePause"} /\ state \in {"PAUSED", "PAUSING"})
        /\ Goto(c, "setVideoSync")
        /\ UNCHANGED <<state, frameOn, owner, waiting>>
  /\ UNCHANGED <<syncVars, savedState, interruptDepth, frameWasOn, cpuVars, call, flags, historyVars>>

\* Mutant: the display is left as it was.
PauseVideoSyncSkipped(c) ==
  /\ pc[c] = "setVideoSync"
  /\ \/ call[c] = "FrameAdvance" /\ Goto(c, "arm") /\ UNCHANGED <<call, frameOn>>
     \/ call[c] # "FrameAdvance" /\ Return(c)
  /\ UNCHANGED <<syncVars, stateVars, cpuVars, flags, historyVars, owner, waiting>>

\* The last step of the three: mCoreSyncSetVideoSync.  The frame advance of the
\* frontends then arms _pauseAfterFrame and unpauses.
PauseVideoSync(c) ==
  /\ pc[c] = "setVideoSync"
  /\ _changeVideoSync(frameOn[c])
  /\ \/ call[c] = "FrameAdvance" /\ Goto(c, "arm") /\ UNCHANGED <<call, frameOn>>
     \/ call[c] # "FrameAdvance" /\ Return(c)
  /\ UNCHANGED <<stateVars, cpuVars, flags, historyVars>>

ArmPauseAfterFrame(c) ==
  /\ Step(c, "arm", "enter")
  /\ frameCallback' = TRUE
  /\ call' = [call EXCEPT ![c] = "Unpause"]
  /\ frameOn' = [frameOn EXCEPT ![c] = videoFrameOn]
  /\ UNCHANGED <<syncVars, stateVars, run, deferred, frameDone, flags, historyVars, owner, waiting>>

\* Mutant: the CPU thread is not woken.
EndUnheard(c) ==
  /\ InCall(c, {"End"}) /\ ~Interrupted
  /\ state' = "EXITING"
  /\ Goto(c, "endAudio")
  /\ UNCHANGED <<syncVars, savedState, interruptDepth, frameWasOn, cpuVars, callVars, historyVars, owner, waiting>>

mCoreThreadEnd(c) ==
  /\ InCall(c, {"End"}) /\ ~Interrupted
  /\ state' = "EXITING"
  /\ ConditionWake({"stateCond"})
  /\ Goto(c, "endAudio")
  /\ UNCHANGED <<syncVars, savedState, interruptDepth, frameWasOn, cpuVars, callVars, historyVars, owner>>

EndAudio(c) ==
  /\ Step(c, "endAudio", "endVideo")
  /\ audioWait' = FALSE
  /\ asked' = [asked EXCEPT !.audio = FALSE]
  /\ ConditionWake({"audioRequiredCond"})
  /\ UNCHANGED <<videoFramePending, videoFrameWait, videoFrameOn, avail, stateVars, cpuVars, callVars, held, granted, ran, owner>>

EndVideo(c) ==
  /\ pc[c] = "endVideo"
  /\ Section("videoFrameMutex")
  /\ videoFrameWait' = FALSE /\ videoFrameOn' = FALSE
  /\ asked' = [asked EXCEPT !.video = FALSE]
  /\ ConditionWake({"videoFrameRequiredCond", "videoFrameAvailableCond"})
  /\ Return(c)
  /\ UNCHANGED <<videoFramePending, audioWait, avail, stateVars, cpuVars, flags, held, granted, ran>>

--------------------------------------------------------------------------------
(* _waitUntilNotState: nudge the CPU thread until it has left a state *)

WaitedFor(c) == CASE call[c] = "Interrupt" -> "INTERRUPTING"
                  [] call[c] = "RunFunction" -> "RUN_ON"
                  [] OTHER -> "PAUSING"

\* Mutant: the caller does not wait.
TestStateNever(c) ==
  /\ owner' = [owner EXCEPT !["stateMutex"] = c]
  /\ Goto(c, "restoreAudio")

\* The loop test, with stateMutex held: go round once more or leave the loop.
TestState(c) ==
  \/ /\ state = WaitedFor(c)
     /\ owner' = [owner EXCEPT !["stateMutex"] = Nobody]
     /\ Goto(c, "wakeVideo")
  \/ /\ state # WaitedFor(c)
     /\ owner' = [owner EXCEPT !["stateMutex"] = c]
     /\ Goto(c, "restoreAudio")

SaveVideo(c) ==
  /\ Step(c, "saveVideo", "saveAudio")
  /\ Section("videoFrameMutex")
  /\ flags' = [flags EXCEPT ![c].video = videoFrameWait]
  /\ videoFrameWait' = FALSE
  /\ UNCHANGED <<videoFramePending, videoFrameOn, audioWait, avail, stateVars, cpuVars, call, frameOn, historyVars, waiting>>

SaveAudio(c) ==
  /\ pc[c] = "saveAudio"
  /\ flags' = [flags EXCEPT ![c].audio = audioWait]
  /\ audioWait' = FALSE
  /\ TestState(c)
  /\ UNCHANGED <<videoFramePending, videoFrameWait, videoFrameOn, avail, stateVars, cpuVars, call, frameOn, historyVars, waiting>>

\* Mutant: the CPU is not woken out of its wait for the display.
WakeVideoSkipped(c) ==
  /\ Step(c, "wakeVideo", "wakeAudio")
  /\ UNCHANGED <<syncVars, stateVars, cpuVars, callVars, historyVars, owner, waiting>>

\* The two MutexTryLock: a mutex somebody holds is passed over.
WakeVideo(c) ==
  /\ Step(c, "wakeVideo", "wakeAudio")
  /\ ConditionWake(IF Free("videoFrameMutex") THEN {"videoFrameRequiredCond"} ELSE {})
  /\ UNCHANGED <<syncVars, stateVars, cpuVars, callVars, historyVars, owner>>

WakeAudio(c) ==
  /\ Step(c, "wakeAudio", "lockAgain")
  /\ ConditionWake({"audioRequiredCond"})
  /\ UNCHANGED <<syncVars, stateVars, cpuVars, callVars, historyVars, owner>>

LockAgain(c) ==
  /\ pc[c] = "lockAgain"
  /\ Free("stateMutex")
  /\ ConditionWake({"stateCond"})
  /\ TestState(c)
  /\ UNCHANGED <<syncVars, stateVars, cpuVars, callVars, historyVars>>

\* Mutant: audioWait stays off after the wait.
RestoreAudioSkipped(c) ==
  /\ Step(c, "restoreAudio", "restoreVideo")
  /\ UNCHANGED <<syncVars, stateVars, cpuVars, callVars, historyVars, owner, waiting>>

RestoreAudio(c) ==
  /\ Step(c, "restoreAudio", "restoreVideo")
  /\ audioWait' = flags[c].audio
  /\ UNCHANGED <<videoFramePending, videoFrameWait, videoFrameOn, avail, stateVars, cpuVars, callVars, historyVars, owner, waiting>>

\* The wait is over: the caller goes on and unlocks stateMutex.
RestoreVideo(c) ==
  /\ pc[c] = "restoreVideo"
  /\ Free("videoFrameMutex")
  /\ videoFrameWait' = flags[c].video
  /\ flags' = [flags EXCEPT ![c] = [video |-> FALSE, audio |-> FALSE]]
  /\ MutexUnlock("stateMutex", c)
  /\ \/ /\ call[c] \in Pausing
        /\ frameWasOn' = frameOn[c]
        /\ frameOn' = [frameOn EXCEPT ![c] = FALSE]
        /\ Goto(c, "setVideoSync")
        /\ UNCHANGED <<call, granted>>
     \/ /\ call[c] \notin Pausing
        /\ granted' = [granted EXCEPT ![c] = @ \/ (call[c] = "Interrupt" /\ state \notin ExitStates)]
        /\ Return(c)
        /\ UNCHANGED frameWasOn
  /\ UNCHANGED <<videoFramePending, videoFrameOn, audioWait, avail, state, savedState, interruptDepth, cpuVars, held, asked, ran, waiting>>

--------------------------------------------------------------------------------
(* What a frontend does besides: sync flags, drawing, joining *)

\* CoreController::setSync and the TAB key write the flags without a lock.
SetAudioSync(c) ==
  LET on == call[c] \in {"SyncOn", "AudioSyncOn"}
  IN /\ pc[c] = "enter"
     /\ call[c] \in {"SyncOn", "SyncOff", "AudioSyncOn", "AudioSyncOff"}
     /\ audioWait' = on
     /\ asked' = [asked EXCEPT !.audio = on]
     /\ \/ call[c] \in {"SyncOn", "SyncOff"} /\ Goto(c, "setSync") /\ UNCHANGED <<call, frameOn>>
        \/ call[c] \notin {"SyncOn", "SyncOff"} /\ Return(c)
     /\ UNCHANGED <<videoFramePending, videoFrameWait, videoFrameOn, avail, stateVars, cpuVars, flags, held, granted, ran, owner, waiting>>

SetVideoWait(c) ==
  /\ pc[c] = "setSync"
  /\ videoFrameWait' = (call[c] = "SyncOn")
  /\ asked' = [asked EXCEPT !.video = (call[c] = "SyncOn")]
  /\ Return(c)
  /\ UNCHANGED <<videoFramePending, videoFrameOn, audioWait, avail, stateVars, cpuVars, flags, held, granted, ran, owner, waiting>>

Draw(c) ==
  /\ pc[Owner] \notin {"starting", "join", "gone"}
  /\ Display(c)
  /\ UNCHANGED <<stateVars, cpuVars, callVars, historyVars>>

AudioDevice ==
  /\ mCoreSyncConsumeAudio
  /\ UNCHANGED <<stateVars, cpuVars, callVars, historyVars>>

\* The loop of the frontend is over; nobody else is in a call any more.
Join ==
  /\ \/ Step(Owner, "idle", "join") /\ ~mCoreThreadIsActive
        /\ \A c \in Clients : pc[c] = "idle" /\ held[c] = 0
     \/ Step(Owner, "join", "gone") /\ pc[CPU] = "done"
  /\ UNCHANGED <<syncVars, stateVars, cpuVars, callVars, historyVars, owner, waiting>>

ClientStep(c) ==
  \/ _waitOnInterrupt(c) \/ mCoreThreadInterrupt(c) \/ mCoreThreadInterruptFromThread(c)
  \/ mCoreThreadContinue(c) \/ mCoreThreadRunFunction(c) \/ mCoreThreadReset(c)
  \/ mCoreThreadStopWaiting(c) \/ mCoreThreadSetRewinding(c) \/ mCoreThreadPause(c)
  \/ PauseVideoSync(c) \/ ArmPauseAfterFrame(c)
  \/ mCoreThreadEnd(c) \/ EndAudio(c) \/ EndVideo(c)
  \/ SaveVideo(c) \/ SaveAudio(c) \/ WakeVideo(c) \/ WakeAudio(c) \/ LockAgain(c)
  \/ RestoreAudio(c) \/ RestoreVideo(c)
  \/ SetAudioSync(c) \/ SetVideoWait(c)

--------------------------------------------------------------------------------

\* mCoreThreadStart has created the CPU thread and sleeps on stateCond.
Init ==
  /\ frontend \in Frontends
  /\ owner = [m \in Mutexes |-> Nobody]
  /\ waiting = [c \in Conditions |-> IF c = "stateCond" THEN {Owner} ELSE {}]
  /\ videoFramePending = FALSE /\ avail = 0
  /\ videoFrameWait \in BOOLEAN /\ audioWait \in BOOLEAN /\ videoFrameOn = FALSE
  /\ pc = [t \in Threads |-> CASE t = CPU -> "start"
                               [] t = Owner -> "starting"
                               [] OTHER -> "idle"]
  /\ state = "INITIALIZED" /\ savedState = "RUNNING"
  /\ interruptDepth = 0 /\ frameWasOn = FALSE
  /\ run = Nobody /\ frameCallback = FALSE /\ deferred = "RUNNING" /\ frameDone = FALSE
  /\ call = [c \in Clients |-> "none"]
  /\ frameOn = [t \in Threads |-> FALSE]
  /\ flags = [c \in Clients |-> [video |-> FALSE, audio |-> FALSE]]
  /\ held = [c \in Clients |-> 0] /\ granted = [c \in Clients |-> FALSE]
  /\ asked = [video |-> videoFrameWait, audio |-> audioWait]
  /\ ran = [c \in Clients |-> 0]

\* The process has joined its CPU thread and stays as it is.
Finished == pc[Owner] = "gone" /\ UNCHANGED programVars

Next ==
  /\ \/ CpuStep \/ RunLoopReturns \/ lineEntered
     \/ StartReturns \/ Join \/ AudioDevice \/ Finished
     \/ \E c \in Clients : \/ ClientStep(c) \/ (c \in frontend.painters /\ Draw(c))
                           \/ \E op \in Calls : Request(c, op)
  /\ UNCHANGED frontend

\* A thread that again and again could go on does; core->runLoop returns again and again; a
\* display that holds its mutex gives it back.
Fairness ==
  /\ SF_programVars(CpuStep)
  /\ SF_programVars(RunLoopReturns)
  /\ WF_programVars(StartReturns)
  /\ \A c \in Clients : SF_programVars(ClientStep(c)) /\ WF_programVars(pc[c] = "drawn" /\ Draw(c))

Spec == Init /\ [][Next]_vars

FairSpec == Spec /\ Fairness

--------------------------------------------------------------------------------
(* Properties *)

CpuPlaces == {"start", "loop", "inner", "core", "lock", "parked", "parkedAudio",
              "parkedBlocked", "relock", "deferred", "restore", "store", "exit", "shutdown",
              "done", "post", "posted", "audioBlocked", "pauseFromThread", "videoSync", "prompt"}

ClientPlaces == {"starting", "idle", "enter", "resume", "saveVideo", "saveAudio",
                 "wakeVideo", "wakeAudio", "lockAgain", "restoreAudio", "restoreVideo",
                 "setVideoSync", "arm", "endAudio", "endVideo", "setSync", "frameWait",
                 "drawn", "join", "gone"}

PlacesTypeOK ==
  /\ pc \in [Threads -> CpuPlaces \cup ClientPlaces]
  /\ pc[CPU] \in CpuPlaces
  /\ \A c \in Clients : pc[c] \in ClientPlaces

StateTypeOK ==
  /\ state \in States /\ savedState \in States /\ deferred \in States
  /\ interruptDepth \in Int
  /\ frameWasOn \in BOOLEAN /\ frameCallback \in BOOLEAN /\ frameDone \in BOOLEAN
  /\ run \in Clients \cup {Nobody}

CallTypeOK ==
  /\ call \in [Clients -> Calls \cup {"none"}]
  /\ frameOn \in [Threads -> BOOLEAN]
  /\ flags \in [Clients -> [video : BOOLEAN, audio : BOOLEAN]]

HistoryTypeOK ==
  /\ held \in [Clients -> Int] /\ granted \in [Clients -> BOOLEAN]
  /\ asked \in [video : BOOLEAN, audio : BOOLEAN]
  /\ ran \in [Clients -> 0..2]

ProgramTypeOK ==
  /\ ThreadingTypeOK /\ SyncVarsTypeOK /\ PlacesTypeOK
  /\ StateTypeOK /\ CallTypeOK /\ HistoryTypeOK

\* Each variable has its type.
TypeOK == ProgramTypeOK /\ frontend \in Frontends

\* Where the CPU thread does not touch the core: asleep or about to look again.
CoreStopped == pc[CPU] \in {"parked", "parkedAudio", "parkedBlocked", "relock"}

\* The frontends some thread of which may tell everyone that the core has stopped
\* (state = INTERRUPTED) when only the CPU thread could know: in a call of
\* mCoreThreadInterruptFromThread inside an interruption that is not answered yet,
\* made at the prompt of the debugger or by a client.
AnswersForCpu ==
  Debugging \/ \E c \in Clients : <<c, "InterruptFromThread">> \in frontend.requests

\* Some client still waits for the CPU thread to leave the core.
Unanswered ==
  state = "INTERRUPTING" /\ \E c \in Clients : call[c] = "Interrupt" /\ pc[c] # "enter"

\* A client whose mCoreThreadInterrupt has returned has the core to itself until
\* it continues, unless the thread ends.  There is one exception: an interrupt inside
\* that of another client, who still waits for the core to stop, returns at once and
\* has the core from when that one is answered.  Once it had the core, no call of
\* another client takes it away.
InterruptExcludesCore ==
  AnswersForCpu \/
  \A c \in Clients :
    \/ CoreStopped
    \/ /\ ~granted[c]
       /\ \/ held[c] = 0 \/ call[c] # "none"
          \/ state \in ExitStates \/ Unanswered

\* While the state says so, the core is interrupted or paused: the CPU thread
\* sets these states itself, after it has left the core, where nobody else
\* declares it interrupted.
StoppedStatesAreReal ==
  (~AnswersForCpu /\ state \in {"INTERRUPTED", "PAUSED"}) =>
    CoreStopped \/ pc[CPU] \in {"deferred", "loop", "inner", "lock", "store"}

\* The CPU thread sleeps on stateCond only in a state that is to be waited for:
\* every call that ends such a state wakes it.
NoLostWakeup == ~Awake(CPU, "stateCond") => state \in WaitingStates

\* An interruption is always somebody's to end, and the state it will bring back
\* is not itself an interruption.
InterruptionsEnd ==
  /\ Interrupted => interruptDepth > 0
  /\ savedState \notin {"INTERRUPTED", "INTERRUPTING"}

\* While the debugger waits for a line nothing lifts its interruption: what a
\* client asks for has to wait, or goes behind it.
PromptHolds == pc[CPU] = "prompt" => Interrupted \/ state \in ExitStates

\* A client asleep until an interruption is over is woken by whoever ends it.
NoClientForgotten ==
  \A c \in Clients : (pc[c] = "resume" /\ ~Awake(c, "stateCond")) => Interrupted

\* Outside of a wait and of a change, the sync flags are what was last asked for:
\* _waitUntilNotState puts back what it has cleared.
SyncRestored ==
  /\ (\A c \in Clients : pc[c] \notin {"wakeVideo", "wakeAudio", "lockAgain", "restoreAudio"})
        => audioWait = asked.audio
  /\ (\A c \in Clients : pc[c] \notin {"saveAudio", "wakeVideo", "wakeAudio", "lockAgain", "restoreAudio", "restoreVideo"})
        => videoFrameWait = asked.video

\* It does with a frontend that has one client who waits, and who alone switches
\* the flags.
Switching == {"SyncOn", "SyncOff", "AudioSyncOn", "AudioSyncOff", "End"}
Waiting == Pausing \cup {"Interrupt", "RunFunction"}
SwitchedByWaiter ==
  \A c, d \in Clients, a \in Switching \cup Waiting, b \in Waiting :
    {<<c, a>>, <<d, b>>} \subseteq frontend.requests => c = d
SyncAsAsked == SyncRestored \/ ~SwitchedByWaiter

\* mCoreThreadRunFunction returns when its function has run, once, unless the
\* thread is on its way out.
FunctionRunsOnce ==
  [][\A c \in Clients : (call[c] = "RunFunction" /\ call'[c] = "none")
        => (ran[c] = 1 \/ state \in ExitStates)]_vars

\* With nobody in a call, a paused core does not hold up the display: the
\* comment of _changeVideoSync.
PausedDisplayIsFree ==
  (state = "PAUSED" /\ CoreStopped /\ \A c \in Clients : call[c] = "none") => ~videoFrameOn

\* Once mCoreThreadEnd has been called the thread does not come back to life.
EndIsFinal == [][(state \in ExitStates) => (state' \in ExitStates)]_vars

\* Every call returns.
CallsReturn == \A c \in Clients : (call[c] # "none") ~> (call[c] = "none")

\* After mCoreThreadEnd the CPU thread ends, from wherever it was.
ThreadEnds == (state \in ExitStates) ~> (pc[CPU] = "done")
================================================================================
