----------------------------- MODULE MCCoreThread -----------------------------
(***************************************************************************)
(* The frontends CoreThread is checked with: who draws, which thread makes *)
(* which call, and what the core calls back.                               *)
(***************************************************************************)
EXTENDS CoreThread

CONSTANTS cpu,   \* the CPU thread
          main,  \* the thread that runs the event loop
          peer   \* a second thread of the frontend

\* platform/sdl: keys, hotkeys, the TAB key and quitting, from the one thread that
\* draws too; frame advance apart.  The core may crash.
SDL ==
  [painters |-> {main}, cpuCalls |-> {"Crash", "MarkCrashed"},
   requests |-> {main} \X {"Interrupt", "Continue", "RunFunction", "Pause", "Unpause",
                           "TogglePause", "SetRewinding", "StopRewinding", "Reset", "End",
                           "AudioSyncOn", "AudioSyncOff"}]

\* platform/sdl: frame advance and pause hotkeys.
Hotkeys == [painters |-> {main}, cpuCalls |-> {},
            requests |-> {main} \X {"FrameAdvance", "TogglePause"}]

\* platform/qt: the GUI thread, and the CPU threads of the other players of a
\* link cable game, which tell this one to stop waiting and switch its
\* synchronisation, for which it asks itself.  A peer draws: one thread less.
LinkedGame ==
  [painters |-> {peer}, cpuCalls |-> {"WaitFromThread"},
   requests |-> {main} \X {"Interrupt", "Continue", "End"}
                  \cup {peer} \X {"StopWaiting", "SyncOff", "SyncOn"}]

\* The same while the GUI thread has functions run on the CPU thread (saving a
\* state); synchronisation stays as it is.
LinkedFunctions ==
  [painters |-> {peer}, cpuCalls |-> {"WaitFromThread"},
   requests |-> {main} \X {"Interrupt", "Continue", "RunFunction", "End"}
                  \cup {peer} \X {"StopWaiting"}]

\* The same while the CPU thread of another player ends, which interrupts all the
\* players' threads (MultiplayerController::detachGame).
SharedGame ==
  [painters |-> {peer}, cpuCalls |-> {"WaitFromThread"},
   requests |-> {main} \X {"Interrupt", "Continue", "Reset", "End"}
                  \cup {peer} \X {"Interrupt", "Continue", "StopWaiting"}]

\* The same while the game starts: Window::gameStarted interrupts without waiting
\* for the core, and the thread of another player may have interrupted first.
StartedGame ==
  [painters |-> {peer}, cpuCalls |-> {"WaitFromThread"},
   requests |-> {main} \X {"InterruptFromThread", "Interrupt", "Continue", "End"}
                  \cup {peer} \X {"Interrupt", "Continue", "StopWaiting"}]

\* platform/qt with the debugger console open: the GUI thread pauses, resets,
\* interrupts to read the machine, and closes the game.
Console == [painters |-> {main}, cpuCalls |-> {"ReadLine"},
            requests |-> {main} \X {"Interrupt", "Continue", "TogglePause", "Reset", "End"}]

AllFrontends ==
  {SDL, Hotkeys, LinkedGame, LinkedFunctions, SharedGame, StartedGame, Console}

\* One call of each kind that waits or is waited for; and frame advance with the
\* calls that may follow it.
Ending == [painters |-> {main}, cpuCalls |-> {},
           requests |-> {main} \X {"Interrupt", "Continue", "RunFunction", "TogglePause",
                                   "Reset", "End"}]
Advancing == [painters |-> {main}, cpuCalls |-> {},
              requests |-> {main} \X {"FrameAdvance", "TogglePause", "End"}]
EndingFrontends == {Ending, Advancing}

\* The frame advance, and the interrupts a key press makes.
KeyFrontends == {[painters |-> {main}, cpuCalls |-> {},
                  requests |-> {main} \X {"FrameAdvance", "Interrupt", "Continue"}]}
===============================================================================
