-------------------------------- MODULE CoreSync --------------------------------
(***************************************************************************)
(* struct mCoreSync (core/sync.c): how the CPU thread hands frames to the  *)
(* display thread and samples to the audio thread, and how both hold it    *)
(* back when synchronisation is on.                                        *)
(***************************************************************************)
EXTENDS Threading

CONSTANTS CPU,       \* the thread that runs the core
          Samples,   \* the samples that fill the audio buffer
          Switches   \* the flags that change while the core runs (SyncSpec)

Clients == Threads \ {CPU}

SyncFlags == {"videoFrameWait", "videoFrameOn", "audioWait"}

ASSUME SyncAssumption ==
  /\ CPU \in Threads
  /\ Samples \in Nat \ {0}
  /\ Switches \subseteq SyncFlags

VARIABLES videoFramePending,  \* a posted frame was not taken yet (the code
                              \* counts; only zero and non-zero differ)
          videoFrameWait,     \* the CPU waits until its frame is taken
          videoFrameOn,       \* the display waits until a frame is posted
          audioWait,          \* the CPU waits while the audio buffer is full
          avail,              \* samples in the audio buffer
          pc                  \* pc[t]: where thread t is

syncVars == <<videoFramePending, videoFrameWait, videoFrameOn, audioWait, avail>>
flagVars == <<videoFrameWait, videoFrameOn, audioWait>>

Step(t, from, to) == pc[t] = from /\ pc' = [pc EXCEPT ![t] = to]

Goto(t, to) == pc' = [pc EXCEPT ![t] = to]

--------------------------------------------------------------------------------
(* The CPU thread *)

\* Mutant: the display is not told of the frame.
OfferFrameUntold ==
  \/ /\ videoFrameWait
     /\ ConditionWait("videoFrameRequiredCond", CPU) /\ Goto(CPU, "posted")
  \/ ~videoFrameWait /\ UNCHANGED waiting /\ Goto(CPU, "core")

\* One pass of the do-while loop: announce the frame, sleep if asked to.
OfferFrame ==
  \/ /\ videoFrameWait
     /\ WakeAndWait({"videoFrameAvailableCond"}, "videoFrameRequiredCond", CPU)
     /\ Goto(CPU, "posted")
  \/ /\ ~videoFrameWait
     /\ ConditionWake({"videoFrameAvailableCond"})
     /\ Goto(CPU, "core")

mCoreSyncPostFrame ==
  /\ pc[CPU] = "post"
  /\ Section("videoFrameMutex")
  /\ videoFramePending' = TRUE
  /\ OfferFrame
  /\ UNCHANGED <<flagVars, avail>>

\* Mutant: an if instead of the do-while loop.
PostFrameWokenOnce ==
  /\ Step(CPU, "posted", "core")
  /\ Awake(CPU, "videoFrameRequiredCond") /\ Section("videoFrameMutex")
  /\ UNCHANGED <<syncVars, waiting>>

PostFrameWoken ==
  /\ pc[CPU] = "posted"
  /\ Awake(CPU, "videoFrameRequiredCond")
  /\ Section("videoFrameMutex")
  /\ \/ /\ videoFrameWait /\ videoFramePending
        /\ OfferFrame
     \/ /\ ~(videoFrameWait /\ videoFramePending)
        /\ Goto(CPU, "core")
        /\ UNCHANGED waiting
  /\ UNCHANGED syncVars

\* The loop of mCoreSyncProduceAudio with samples in the buffer.
WaitForAudioRoom(samples, blocked, done) ==
  IF audioWait /\ samples >= Samples
    THEN ConditionWait("audioRequiredCond", CPU) /\ Goto(CPU, blocked)
    ELSE UNCHANGED waiting /\ Goto(CPU, done)

\* The core adds a sample, unless the buffer is full, and may have to wait.
mCoreSyncProduceAudio ==
  LET produced == IF avail < Samples THEN avail + 1 ELSE avail
  IN /\ pc[CPU] = "core"
     /\ avail' = produced
     /\ WaitForAudioRoom(produced, "audioBlocked", "core")
     /\ UNCHANGED <<videoFramePending, flagVars, owner>>

ProduceAudioWoken ==
  /\ pc[CPU] = "audioBlocked"
  /\ Awake(CPU, "audioRequiredCond")
  /\ WaitForAudioRoom(avail, "audioBlocked", "core")
  /\ UNCHANGED <<syncVars, owner>>

--------------------------------------------------------------------------------
(* The display thread and the audio thread *)

\* Mutant: the frame is drawn and stays pending.
TakeFrameAndKeep(d) == UNCHANGED videoFramePending /\ Goto(d, "drawn")

TakeFrame(d) == videoFramePending' = FALSE /\ Goto(d, "drawn")

\* Returns with videoFrameMutex held, whether there is a frame or not.
mCoreSyncWaitFrameStart(d) ==
  /\ pc[d] = "idle"
  /\ \/ /\ videoFrameOn
        /\ Section("videoFrameMutex")
        /\ WakeAndWait({"videoFrameRequiredCond"}, "videoFrameAvailableCond", d)
        /\ Goto(d, "frameWait")
        /\ UNCHANGED videoFramePending
     \/ /\ ~videoFrameOn
        /\ MutexLock("videoFrameMutex", d)
        /\ ConditionWake({"videoFrameRequiredCond"})
        /\ TakeFrame(d)
  /\ UNCHANGED <<flagVars, avail>>

FrameArrived(d) ==
  /\ pc[d] = "frameWait"
  /\ Awake(d, "videoFrameAvailableCond")
  /\ MutexLock("videoFrameMutex", d)
  /\ TakeFrame(d)
  /\ UNCHANGED <<flagVars, avail, waiting>>

\* The 50 ms of the timed wait ran out: nothing is drawn.
FrameTimedOut(d) ==
  /\ Step(d, "frameWait", "drawn")
  /\ MutexLock("videoFrameMutex", d)
  /\ waiting' = [waiting EXCEPT !["videoFrameAvailableCond"] = @ \ {d}]
  /\ UNCHANGED syncVars

mCoreSyncWaitFrameEnd(d) ==
  /\ Step(d, "drawn", "idle")
  /\ MutexUnlock("videoFrameMutex", d)
  /\ UNCHANGED <<syncVars, waiting>>

\* Mutant: the samples are taken and nobody is woken.
ConsumeAudioSilently ==
  /\ avail' = 0
  /\ UNCHANGED <<videoFramePending, flagVars, owner, waiting, pc>>

\* The audio callback takes some of the samples there are.
mCoreSyncConsumeAudio ==
  /\ \E left \in 0..avail :
       /\ avail > 0 => left < avail
       /\ avail' = left
  /\ ConditionWake({"audioRequiredCond"})
  /\ UNCHANGED <<videoFramePending, flagVars, owner, pc>>

\* Used by mCoreSyncSetVideoSync, called from thread pauses.
_changeVideoSync(on) ==
  /\ Section("videoFrameMutex")
  /\ videoFrameOn' = on
  /\ ConditionWake(IF on # videoFrameOn THEN {"videoFrameAvailableCond"} ELSE {})
  /\ UNCHANGED <<videoFramePending, videoFrameWait, audioWait, avail>>

mCoreSyncForceFrame ==
  /\ Section("videoFrameMutex")
  /\ ConditionWake({"videoFrameAvailableCond"})
  /\ UNCHANGED <<syncVars, pc>>

--------------------------------------------------------------------------------
(* The handover alone: a core that runs frame after frame, its display and *)
(* its audio device, with the flags of Switches set at will.               *)

FrameFinished ==
  /\ Step(CPU, "core", "post")
  /\ UNCHANGED <<syncVars, owner, waiting>>

CpuSync == \/ FrameFinished \/ mCoreSyncPostFrame \/ PostFrameWoken
           \/ mCoreSyncProduceAudio \/ ProduceAudioWoken

Display(d) == \/ mCoreSyncWaitFrameStart(d) \/ FrameArrived(d)
              \/ FrameTimedOut(d) \/ mCoreSyncWaitFrameEnd(d)

\* CoreController::setSync writes both flags without a lock and wakes nobody.
setSync(on) ==
  /\ Switches # {}
  /\ videoFrameWait' = IF "videoFrameWait" \in Switches THEN on ELSE videoFrameWait
  /\ audioWait' = IF "audioWait" \in Switches THEN on ELSE audioWait
  /\ UNCHANGED <<videoFramePending, videoFrameOn, avail, owner, waiting, pc>>

SwitchFlag ==
  \E on \in BOOLEAN :
    \/ setSync(on)
    \/ "videoFrameOn" \in Switches /\ _changeVideoSync(on) /\ UNCHANGED pc

SyncInit ==
  /\ owner = [m \in Mutexes |-> Nobody]
  /\ waiting = [c \in Conditions |-> {}]
  /\ videoFramePending = FALSE
  /\ videoFrameWait \in BOOLEAN /\ videoFrameOn \in BOOLEAN /\ audioWait \in BOOLEAN
  /\ avail = 0
  /\ pc = [t \in Threads |-> IF t = CPU THEN "core" ELSE "idle"]

SyncNext == \/ CpuSync
            \/ \E d \in Clients : Display(d)
            \/ mCoreSyncConsumeAudio
            \/ mCoreSyncForceFrame
            \/ SwitchFlag

allSyncVars == <<syncVars, owner, waiting, pc>>

\* The core ends its frames; the display and the audio device keep asking.
SyncFairness ==
  /\ SF_allSyncVars(FrameFinished)
  /\ SF_allSyncVars(mCoreSyncPostFrame) /\ SF_allSyncVars(PostFrameWoken)
  /\ WF_allSyncVars(ProduceAudioWoken) /\ WF_allSyncVars(mCoreSyncConsumeAudio)
  /\ \A d \in Clients : /\ SF_allSyncVars(mCoreSyncWaitFrameStart(d))
                        /\ SF_allSyncVars(FrameArrived(d))
                        /\ WF_allSyncVars(mCoreSyncWaitFrameEnd(d))

\* The 50 ms of the timed wait are three frames long: with a core that runs they
\* do not run out over and over again before the core has posted a frame.
TimeoutsAreRare == <>[][\A d \in Clients : ~FrameTimedOut(d)]_allSyncVars

SyncSpec == SyncInit /\ [][SyncNext]_allSyncVars /\ SyncFairness /\ TimeoutsAreRare

--------------------------------------------------------------------------------
(* Properties *)

SyncVarsTypeOK ==
  /\ videoFramePending \in BOOLEAN /\ videoFrameWait \in BOOLEAN
  /\ videoFrameOn \in BOOLEAN /\ audioWait \in BOOLEAN
  /\ avail \in 0..Samples

\* The variables stay in their types, every thread is in one of its places, and
\* only the display keeps videoFrameMutex from one step to the next.
SyncTypeOK ==
  /\ ThreadingTypeOK
  /\ SyncVarsTypeOK
  /\ pc[CPU] \in {"core", "post", "posted", "audioBlocked"}
  /\ \A d \in Clients : /\ pc[d] \in {"idle", "frameWait", "drawn"}
                        /\ pc[d] = "drawn" <=> owner["videoFrameMutex"] = d

\* The CPU never sleeps for a display that sleeps for the CPU: each side of the
\* handover (mCoreSyncPostFrame, mCoreSyncWaitFrameStart) wakes the other before
\* it sleeps, so the handover does not lean on the 50 ms timeout.
NeverBothAsleep ==
  \A d \in Clients : ~ /\ ~Awake(CPU, "videoFrameRequiredCond")
                       /\ ~Awake(d, "videoFrameAvailableCond")

\* A CPU asleep in mCoreSyncProduceAudio faces a full buffer: whoever makes
\* room in it (mCoreSyncConsumeAudio) has woken the CPU.
SleepsOnlyWhenFull ==
  ~Awake(CPU, "audioRequiredCond") => avail = Samples

\* With videoFrameWait set throughout, the core does not finish another frame
\* before the display took the one before: no frame is lost.
NoFrameOverrun ==
  [][(videoFrameWait /\ pc[CPU] = "core" /\ pc'[CPU] = "post")
       => ~videoFramePending]_allSyncVars

\* The same with a flag that is switched now and then: from some time after it is
\* set for good no frame is lost, though frames were posted without it before.
NoFrameLostForLong ==
  <>[]videoFrameWait => <>[](pc[CPU] = "post" => ~videoFramePending)

\* A posted frame is taken by the display, whatever the flags do meanwhile.
FramesAreTaken == videoFramePending ~> ~videoFramePending

\* The CPU is never held back for good, by the display or by the audio device.
CpuGoesOn == (pc[CPU] # "core") ~> (pc[CPU] = "core")
================================================================================
