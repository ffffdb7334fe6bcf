# TLA+ project for miyoo-emu: the mGBA emulation core

miyoo-emu is a collection of emulators ported to the Miyoo handhelds. Most of
them are single-threaded: one loop emulates a frame and draws it. mGBA
(`src/mgba-master`) is different: a *CPU thread* runs the emulated machine while
a frontend thread handles keys and draws, an audio callback empties the sample
buffer, rewinding has a thread of its own, and in a link cable game the CPU
threads of several machines wait for each other. This project models the parts
of mGBA whose order of steps is hard to test: `core/thread.c` and `core/sync.c`
first, then `core/rewind.c`, the GBA link cable, the event list, and the
savegame with its masks and delayed write. The build modelled is the one of
`Makefile.miyoo` (POSIX threads, no debugger); the frontends `LinkedGame`, `LinkedFunctions`,
`SharedGame`, `StartedGame` and `Console`, and the link cable, are those of the Qt build.

## Inventory

| part | state | operations | properties that make it correct |
|---|---|---|---|
| CPU thread, `core/thread.c` | `state`, `savedState`, `interruptDepth`, `frameWasOn`, `run`, `frameCallback` | the loop `_mCoreThreadRun`; the calls Start, Interrupt, InterruptFromThread, Continue, RunFunction, Pause, Unpause, TogglePause, PauseFromThread, SetRewinding, WaitFromThread, StopWaiting, Reset, End, MarkCrashed, Join | an interrupt has the core to itself; states mean what they say; no wakeup is lost; what was asked for is done once; every call returns; an ended thread ends |
| frame and audio handover, `core/sync.c` | `videoFramePending`, `videoFrameWait`, `videoFrameOn`, `audioWait`, the audio buffer | PostFrame, ForceFrame, WaitFrameStart/End, SetVideoSync, ProduceAudio, ConsumeAudio | nobody sleeps for a sleeper; no frame is lost or left; the CPU sleeps only on a full buffer |
| mutexes and conditions, `util/threading.h` | owner, sleepers | lock, trylock, unlock, wait, timed wait, broadcast | (used by the above) |
| SDL and Qt frontends | the display loop, keys, audio device; interrupters, paused flag, sync flags | call the above, Qt from several threads | listed with them |
| rewind, `core/rewind.c`, `util/patch-fast.c` | ring of differences, the two last states, `ready` | Init, Deinit, Append, Restore, the difference thread | restoring gives back the saved states, latest first, each whole; the ring stays in its bounds; Deinit returns |
| link cable, `gba/sio/lockstep.c`, `platform/qt/MultiplayerController.cpp` | phase of the transfer, cycles posted, who waits for whom, transfer data | load, unload, attach, the events of master and slaves, signal, wait, addCycles, useCycles | nobody runs ahead; nobody is left asleep; all players see one transfer |
| event timing, `core/timing.c`, `gba/gba.c` | event list, list set aside, 32-bit clock, the CPU's cycles | Schedule, Deschedule, Tick; halting, interrupts, DMA, loading a state | events run in the order of their times across the wrap, none is lost, none is run past |
| savegame, `gba/savedata.c` | chip, command machine, mapping, real file and mask, dirtiness | reads, writes, commands, mask, unmask, clean, clone, load, reset, close | what is written reaches the disk; masks come and go unseen; the player's file is kept |
| GB link cable, mappers, circle buffer, ring FIFO | phases; bank registers; pointers | see "Not modelled" | |

How they interact: a frontend thread (a *client* here) makes calls on the CPU
thread. Some only set `state` under `stateMutex` and wake the CPU thread
(Continue, Reset, End, ...); others (`Interrupt`, `Pause`, `RunFunction`) then
stay in `_waitUntilNotState`, which switches synchronisation off, wakes the CPU
thread out of its frame and audio waits over and over, and switches it back on
when the state has changed. The CPU thread looks at `state` between two calls of
`core->runLoop`; while it runs, the core calls back (`_frameEnded`, `_crashed`)
and hands over frames and samples through `struct mCoreSync`. Inside `runLoop`
the event list decides what is called when: the picture's event ends frames, and
with them runs the frame callbacks (rewinding, which loads states) and the
savegame's delayed write; the link cable's event makes the CPU threads of other
machines wait (`WaitFromThread`) and go on (`StopWaiting`).

Hard behaviours: shared fields read and written without their mutex (`state` in
the loop tests and in `state = savedState`, `videoFrameOn`, the sync flags, the
phase of a transfer, `attachedMulti`); one state variable that requests, answers
and remembers; nested interruptions over a saved state; a timed wait; a sleep for
audio room inside the park; the order of quitting; a state loaded in the midst
of a tick; a save file that is exchanged under a running game. `PROJECT.json`
lists the hazards at their lines with the properties that watch over them, or with
the reason why none does; those
that only code outside of the model meets are under "Not modelled".

All other components of the repository (the other emulators, the instruction
sets, rendering, mixing, configuration, the rest of the GUIs) are listed in
`PROJECT.json` with the reason they are left out.

## Modules

| module | what it is |
|---|---|
| `Threading` | mutexes with owners, conditions with the set of their sleepers; ConditionWake broadcasts, as in `threading.h:75` |
| `CoreSync` | `core/sync.c`, with a specification of its own (`SyncSpec`): a core that runs frame after frame, displays, the audio callback, and flags that change |
| `CoreThread` | `core/thread.c` over `CoreSync`: the CPU thread, the calls of the clients, the frontend around them |
| `MCCoreThread` | the frontends the runs use: who draws and which client makes which call |
| `Rewind` | `core/rewind.c`: saving and restoring on the CPU thread, the difference thread |
| `RewindStack` | what rewinding promises: a bounded stack of states; implemented by `Rewind` |
| `Lockstep`, `MCLockstep` | the GBA link cable in multiplayer mode, any number of players; the sessions the runs use |
| `Timing`, `MCTiming` | the event list and the loop that drives it; the savestates the runs load |
| `Savedata`, `MCSavedata` | the savegame of a GBA game; the games and habits the runs use |
| `CoreSyncProofs`, `CoreThreadProofs`, `RewindProofs`, `LockstepProofs`, `TimingProofs`, `SavedataProofs` | the theorems; `CoreSyncProofs` begins with the lemmas about `Threading` |
| `CallerProofs` | theorems about `CoreThread` with one caller and about its display, and what they ask of a frontend |
| `SharedProofs` | theorems about `CoreThread` with any number of callers |

*CoreThread.* Each thread has a place `pc[t]`; a step is one section of the
code that holds a mutex, or one unlocked access of shared state. A critical
section in which its thread neither sleeps nor takes a second lock is one step
(`Section`); `stateMutex` is really held across steps in `_waitUntilNotState`
(places `saveVideo`, `saveAudio`, `restoreAudio`, `restoreVideo`), and
`videoFrameMutex` by the display while it draws (`drawn`). The actions carry the
names of the functions; where a function takes several steps its later ones are
named for what they do (`EndAudio`, `EndVideo` after `mCoreThreadEnd`;
`SaveVideo` to `RestoreVideo` for `_waitUntilNotState`).

| place of the CPU thread | code |
|---|---|
| `start` | before `_changeState(RUNNING)`, thread.c:185 |
| `loop`, `inner` | the unlocked loop tests, 192 and 203 |
| `core` | inside `core->runLoop`, 204 (with a debugger: inside `mDebuggerRun`, 196) |
| `prompt` | in `DebuggerConsoleController::readLine`, waiting for a line |
| `lock`, `parked`, `parkedAudio`, `parkedBlocked`, `relock` | the loop over the stopped states, 209-247, and its audio wait |
| `deferred`, `restore`, `store` | the switch on `deferred`, 248-273; the unlocked `state = savedState` |
| `exit`, `shutdown`, `done` | 276-294 |
| `post`, `posted`, `audioBlocked` | `mCoreSyncPostFrame`, `mCoreSyncProduceAudio` |
| `pauseFromThread`, `videoSync` | the frame callback `_pauseAfterFrame` |

Abstractions: `videoFramePending` counts in the code and is a Boolean here (only
zero and non-zero differ); the audio buffer is a number of samples up to
`Samples`, where `Samples` also stands for a buffer a fraction of a sample
overfull; what a function run by `RunFunction` does, what the callbacks of a
frontend do and what the core computes are left out, except that the core may
end a frame, produce samples, crash, or ask to wait. `frameDone` says that a
pass of `core->runLoop` ends at most one frame: the loop returns after a batch
of events (`arm/arm.c:297-308`), which is shorter than a frame, and the tests of
`state` are reached in between. The variables `held`, `granted`, `asked` and
`ran` record what the clients did, for the properties only; no action of the
code reads them, except `held`, which keeps a client from continuing an
interruption it does not have. `frontend`, chosen in Init from `Frontends`, says
who draws and what each client may ask; it never changes, so that one run checks
several frontends.

*Rewind.* Each function of `core/rewind.c` holds the context's mutex from its
first line to its last and is one step; only Deinit gives it back before it wakes
and joins the other thread (places `wake` and `join`). A round of
`_rewindThread`, from one wait to the next, is one step too; a wait may also end
without a wakeup, as POSIX allows. The content of a state file is a set of
frames, a single one for a whole state, and a difference is their symmetric
difference, so that a mixture of states can be told from a state. A content of
an even number of states has no magic number and is refused; one of an odd
number has one, with the right checksums, and may be refused or not. The
refinement reads the stack off the ring: `Back(i)` undoes the i newest
differences but one from `previousState`, and a difference that is still to be
made counts as made.

*Lockstep.* `pc[p]` is where in its cable event the CPU thread of player p is:
`core` (outside it), `signal`/`wait`, `post` for the master, `act`, `use` for a
slave, `count` between the load and the store of `++attachedMulti`. Each of the
four calls of `MultiplayerController` holds `m_lock` and is one step; the phase
of the transfer is read and written without it and is a step apart
(`SlaveFires`, `MasterPhase`). `thread` is the state of the player's CPU thread,
`awake` what its `Player` believes of it. Emulated time is cut to what decides
who waits: an event that is due fires at any moment its thread runs the core, up
to `MaxLate` cycles late, and the cycles of the code become a few units
(`Increment`, `Step`, `Rest`). That an event is later than a phase is long
(`MaxLate < Step`) is excluded: 512 cycles are many times the longest
instruction. `MasterFires` is held back while a slave is more than `MaxPosted`
behind: a bound on how far the host lets one thread lag. What the user does to a
CPU thread is cut down from `CoreThread` to the state it leaves: a session with
`"stop"` has functions and pauses, one with `"reset"` resets.

*Timing.* Everything is on one thread; the machine is one record and the
functions of `core/timing.c` map a machine to the next. A step is an instruction
(whatever it writes, then its cycles), halting, one round of `GBAProcessEvents`
begun, one event fired with all its callback does, or the end of a tick. The
list is kept as in the code, as `next` pointers from `root` (and from `reroot`,
where a loaded state's events wait for the end of the tick), so that an event
scheduled twice really makes a loop. Words have `Width` bits. `asked` is a
history: what was scheduled and has neither fired nor been cancelled. `words`
is what the DMA channel has left: one more than `Words` before its first word
(`nextCount == count`), zero when it is idle. A savestate holds the clock, the
cycles of the CPU, whether it was halted, how long until the picture's, the
interrupt's and the timer's events, and the words and the time of a DMA under
way. Loading one schedules all that and puts the list aside; `GBADMAUpdate` then
schedules the DMA, or gives the CPU back when none is under way. Whether
a DMA blocks the CPU is in no state (`cpuBlocked`: only gba/dma.c and a reset write it):
a DMA that had blocked the CPU before the load blocks it on, if the state has one
too, and a DMA that had blocked the CPU when the state was made lets it run until
its next word if nothing blocks it at the load. Both are in the model.

*Savedata.* The machine is one record again. A file is a sequence of cells, one
per bank of flash, per SRAM, and per half of an EEPROM; `file` is what any
process sees of it, `copy` a private mapping, `disk` what a power cut leaves of
the save file. `dirty` and `age` are the two bits and the count of
`GBASavedataClean`. The commands of the flash chip are all there, at the three
addresses a program uses (`HI`, `LO`, `BASE`); an EEPROM is read and written by
whole DMA transfers. A session is a game (its chip, whether an override names
it, how long its file is at first) and the habits of its user: loading states as
a mask (`load`) or for good (`restore`), temporary saves (`temp`), resets,
states made before the game's first access (`early`), loads right after a save
(`hasty`), a mapping that moves when it grows (`moves`). After a lost mapping or
a stale pointer the game's behaviour is undefined and the model stops there
(`Sound`).

## What the runs show

| run | specification | question |
|---|---|---|
| `sync_switches` | `SyncSpec`, every flag changes at any time | the CPU and the display never sleep for each other; the CPU sleeps only on a full buffer; once `videoFrameWait` stays on no frame is lost; every frame is taken; the CPU always goes on |
| `frontends` | `Spec`, seven frontends | a client who holds an interrupt has the core once the one who waits for it is answered; INTERRUPTED and PAUSED are true; no wakeup lost; interruptions end; sync flags come back; a paused core leaves the display free; the prompt's interruption holds and its waiters are woken; functions run once |
| `frontends_end` | `FairSpec`, two frontends | an ended thread stays ended; every call returns; the CPU thread ends |
| `rewind_stack` | `Rewind`, with a thread that is done before the next frame or without one | the ring's bounds; it is the stack of the last states; only whole states are loaded; Deinit returns |
| `link_play` | `FairSpec`, eight sessions | slaves stay behind; whoever waits is known to and will be answered; no abort; all receive the same; transfers end; slaves go on |
| `timing` | `FairSpec`, five sessions with loads in the frame callback or in calm games | no event forgotten; the list in order; the CPU never past an event; the picture goes on |
| `savedata` | `FairSpec`, seven games | types; no bad flash state; the bank is mapped; unsynced means dirty; frames are unseen; states bring the save back; the player's save is kept; what is written reaches the disk |
| `sdl_key_race` | violation | a key during a frame advance: see Findings |
| `rewind_late` | violation | the difference thread is late: see Findings |
| `link_function` | violation | a function on the thread of a player who waits: see Findings |
| `timing_load` | violation | a state loaded by the user: see Findings |
| `savedata_hasty` | violation | a state loaded right after a save: see Findings |

Type correctness of `CoreSync`, `CoreThread`, `Rewind` and `Lockstep` is proved
and therefore in no run; the run `savedata` checks that of `Savedata`, and
`TypeOK` of `Timing` says what its variables hold.

The frontends of `frontends`: `SDL` (keys, pausing, rewinding, TAB, resetting,
quitting, a core that crashes), `Hotkeys` (frame advance and pause), `LinkedGame`
(a GUI thread that nests interrupts beside a peer's CPU thread that
ends waits and switches synchronisation), `LinkedFunctions` (the same with
functions instead of switching), `SharedGame` (a GUI thread and a peer's CPU thread
that both interrupt: `MultiplayerController::detachGame`, which the clean-up of one
game calls, interrupts all the others), `StartedGame` (the same, and the GUI thread
also interrupts without waiting, as `Window::gameStarted` does), `Console` (the debugger's prompt, while
the GUI pauses, resets, interrupts or closes the game). Those of `frontends_end`:
one call of each kind that waits or is waited for, and frame advance.

Several properties are about some of the frontends or sessions of their run and
say so in a premise: what they promise is broken elsewhere by something the code
does not claim to withstand. `InterruptExcludesCore` covers every client who holds
an interrupt, however its call came back: it waited, or found the core stopped, or
came inside the unanswered interrupt of another client and returned at once
(thread.c:448). Such an inner call has the core from when the outer one is answered:
until then the property only asks that the outer client really still waits
(`Unanswered`), for the code gives the inner one nothing to wait for. It and
`StoppedStatesAreReal` leave out the frontends where somebody answers for the CPU
thread (`AnswersForCpu`). A client's `mCoreThreadInterruptFromThread` inside an
unanswered interrupt declares INTERRUPTED a core that runs (thread.c:467), and the
client who waits takes that for the answer: `Window::gameStarted` calls it from the
GUI thread (Window.cpp:732, CoreController.cpp:80), where
`MultiplayerController::detachGame` (MultiplayerController.cpp:243) may be
interrupting from another player's thread. At the prompt of the debugger the CPU
thread interrupts itself in the midst of a round, and goes on when the line is
entered, whoever has interrupted meanwhile. No property is about those two windows;
the other seven of the run are checked in `StartedGame` and `Console` as well, as far
as their own premises go.

`SyncAsAsked` is about frontends with one client who waits and who alone switches the flags: a peer's `setSync` during the wait of another thread is overruled by
what `_waitUntilNotState` puts back, and of two clients who wait at a time each
may put back what the other has cleared.
`PausedDisplayIsFree` holds for pauses and frame advance but not when a reset
comes between the two (videoFrameOn is read before the lock, thread.c:518), a
pair no frontend here has. `WaitIsAnswered`, `TransferEnds` and `SlaveGoesOn` are
about games that stay in multiplayer mode, whatever races and late events there
are; `TransfersAgree` about such without races: a slave that is slow between
reading the phase and signalling takes its bit out of the next transfer's wait.
`NeverAhead` and `WaitersAreKnown` are about everything but functions and pauses
(`link_function` shows why), `NoAbort` about everything but resets. The timing
properties are about states loaded in the frame callback (`"frame"`), and about
states the user loads between two run loops of a game that asks for no event from
the load to the next tick (`"calm"`); `PictureGoesOn` about the first only, as
a user may load for ever. In a game that does ask for one the events of the
state are left aside (finding 4), and no property of `timing` would hold:
`timing_load` has those (`"between"`).

### Bounds

*CoreSync, CoreThread.* `Samples` is 1 or 2: only empty, filling and full
differ. `MaxDepth` 2 bounds the interrupts a client nests: the code tests
`interruptDepth > 1`, `< 1` and non-zero only, so a second level shows all three.
SDL has one client that handles keys and draws; `LinkedGame`, `LinkedFunctions`, `SharedGame` and
`StartedGame` have a second client
(a peer's CPU thread, which also draws, so that one thread more need not be
added). `ran` counts to 2: one run too many. The state space is finite without
any constraint. A client that holds an interrupt makes no call but those that
interrupt (of both kinds), continue, reset or end a wait: the others may wait for the end of its
own interruption, or ask the CPU thread for an answer it cannot give; the frontends
use Interrupt and Continue in pairs around code that makes none of them. With `LateCalls` FALSE, as in all
runs, a frontend that sees an ended thread makes none of the calls of `Late` that
would overwrite the end; `mSDLSWRunloop` tests `mCoreThreadIsActive` between
batches of events. Within one batch SDL could still do it; that is listed under
the hazards (thread.c:406), and no run asks about it. `Console` makes no `RunFunction`: the prompt's interruption
overwrites a RUN_ON that is not answered yet (thread.c:474), and
`FunctionRunsOnce` does not hold then. `lineEntered` may happen at any time and
need not: no fairness is assumed of it. `mCoreThreadInterrupt` calls
`_waitOnInterrupt` at depth 1, where the state is no interruption
(`InterruptionsEnd`, proved for every frontend): that call never waits, and the
model has no action for it.

*Rewind.* Three frames: two whole states and a third one are needed for a
mixture of an odd number. Rings of 1 and 2 slots, one after the other, show the
empty, partly filled and full ring, wrapping in both directions, and a context
that follows a larger one. `Timely` TRUE states the assumption under which the
code keeps its promise: a frame takes 17 ms, a difference a fraction of one.
Fast forward and a busy machine break it, and `Timely` FALSE shows what happens.

*Lockstep.* Three players without disturbance show a transfer in which one slave
lags behind another; each disturbance is checked by itself with two, where its
effect on one pair is complete. One datum is enough: `None` is what is received
from a player who sent nothing. `MaxPosted` 4 is two phases: a slave may lag a
whole phase behind while the next is posted. `MaxLate` 1 of a `Step` of 2.

*Timing.* Width 4: the clock wraps every 16 cycles, every few events, and a
difference has its sign in one bit as in 32. The delays (line 4, timer 3, IRQ
and DMA 1) are such that every pair of events comes in both orders and at the
same time. One or two kinds of events besides the picture's are in play at a time. A
DMA moves `Words` 1, so that a state finds it before its first word or before its
end. `FrameBounds` (`MCTiming`) says that these numbers
satisfy `Bounds`, the premise of two theorems. The savestates stand two cycles before
the wrap. Those of the frame callback are made on time or a cycle late, with the CPU
running or halted, the timer off, due and not yet fired, or running, an interrupt coming or not, and
a DMA idle, waiting, due, or with its word moved. Those the user loads are made between two run
loops, with the CPU running or halted at its next event, and a DMA at most waiting, as one
that has begun blocks the CPU to its end. A state of a halted CPU has no event that is
late: the CPU would begin with negative cycles, and `GBAProcessEvents` reports them as
an error (gba.c:266); `Bounds` excludes it, and as a halted CPU goes to its next
event at once, states the program makes do not have it.

There is one DMA channel. With several, the load has one more danger, which no
property is about: where channel 1 or 2 is bound to the sound FIFO, `GBAIODeserialize`
calls `GBADMASchedule` (io.c:984-985) in the midst of the restore, while the channels
behind it still have the values of the old game. `GBADMAUpdate` then
schedules the event for one of those; if the state has no DMA under way, the last
`GBADMAUpdate` finds none, sets `activeDMA` to -1 and leaves the event where it is,
and `_dmaEvent` indexes with it (dma.c:175).

*Savedata.* `Threshold` 1 for 15 frames: an age below, at and above it. Two
values where a change has to be told from a second change, one elsewhere. Seven
games: every chip with and without an override, with an empty, a short and a
long file, and between them every habit but `hasty`. Fresh bytes of the file are
on disk at once, as they hold nothing of the game's.

### Fairness

`SyncSpec`: the core ends its frames, the display keeps asking for them, the
audio device keeps reading. A section that needs a mutex is strongly fair where
another thread takes that mutex again and again; POSIX mutexes do not promise
it, the schedulers they run on do in practice. `TimeoutsAreRare` says that the
50 ms of `mCoreSyncWaitFrameStart` do not keep running out before the CPU has
announced a frame: a frame takes 17 ms.

`CoreThread` (`FairSpec`): the CPU thread and every client go on when again and
again they could, `core->runLoop` returns, a display that holds its mutex gives
it back. Nothing is assumed of what a frontend asks for, and nothing of the audio
device: the calls have to return without it.

`Rewind`: the difference thread is scheduled, and Deinit goes on when it can.

`Lockstep`: the host gives every CPU thread its turn, so that an event that is
due fires (`WF` of `CableEvent`). Nothing is assumed of what games and users do.

`Timing`: the thread goes on running the core. It always has a step to take, so
`[]<><<TRUE>>_vars` says the same as weak fairness of `Next`.

`Savedata`: frames go on ending once the game has stopped writing.

Deadlock is checked in every run but those of the link cable, where players can
wait for each other for good once a game has left, a function has run or a
player has been attached late: that is what the hazards and `link_function` are
about, and `SlaveGoesOn` and `TransferEnds` exclude it elsewhere. `Finished`
keeps a joined process, or a closed game, as it is.

## What is proved

With TLAPS, for every set of threads, every number of players, every buffer and
ring size, every word size, every choice of cycles, requests, calls and sessions,
and any depth:

| theorem | says |
|---|---|
| `SyncTypesOK`, `ThreadTypesOK` | type correctness of `SyncSpec` and of `CoreThread` |
| `HandoverNeverStuck` | `SyncSpec => []NeverBothAsleep` |
| `CpuSleepsOnlyWhenFull` | `SyncSpec => []SleepsOnlyWhenFull` |
| `NoFrameLost` | `SyncSpec => NoFrameOverrun` unless somebody switches `videoFrameWait` |
| `NoWakeupIsLost` | `Spec => []NoLostWakeup` |
| `InterruptionsComeToAnEnd` | `Spec => []InterruptionsEnd` |
| `SyncIsRestored` | `Spec => []SyncAsAsked` |
| `ClientsAreWoken` | `[]NoClientForgotten`, for one caller |
| `FunctionHasRun` | `FunctionRunsOnce`, for one caller without functions at the prompt |
| `InterruptHoldsTheCore` | `[]InterruptExcludesCore`, for one caller who interrupts no frame advance, without late calls |
| `StoppedIsReal` | `[]StoppedStatesAreReal`, for one caller without late calls |
| `TheEndIsFinal`, `PromptIsKept` | `EndIsFinal` and `[]PromptHolds`, for tame frontends |
| `PausedDisplayIsLeftFree` | `[]PausedDisplayIsFree`, without frame advance or for one plain caller |
| `InterruptsAreShared`, `SharedStopIsReal` | `[]InterruptExcludesCore` and `[]StoppedStatesAreReal`, for callers that are `Shared` |
| `SharedClientsAreWoken`, `SharedEndIsFinal` | `[]NoClientForgotten` and `EndIsFinal`, for callers that are `Shared` |
| `RewindTypesOK`, `RingStaysInRange` | type correctness of `Rewind`, and `Spec => []SlotsInRange` for every capacity |
| `WholeStatesAreLoaded`, `RewindIsAStack` | `Spec => []CoreIsWhole` and the refinement `Spec => ImplementsStack`, if `Timely` |
| `TypesOK` | type correctness of `Lockstep` |
| `WaitersStayKnown` | `Spec => []WaitersAreKnown` |
| `SlavesStayBehind` | `Spec => []NeverAhead` |
| `MasterDoesNotAbort` | `Spec => []NoAbort` |
| `MasterIsAnswered` | `Spec => []WaitIsAnswered` |
| `TransfersEndAlike` | `Spec => TransfersAgree`, if `None \notin Data` |
| `EventsAreKept` | `Spec => []NothingForgotten`, for every savestate |
| `ListIsOrdered`, `CpuIsOnTime` | `Spec => []Ordered` and `Spec => []NeverPast`, if the times fit into a word (`Bounds`) |
| `FlashNeverBad` | `Spec => []NoBadFlashState` |
| `SavedataTypes` | type correctness of `Savedata` |
| `BanksAreMapped` | `[]BankIsMapped`, if `MasksKeepTheirChip` and `MasksFit` |
| `WritesAreDirty` | `[]UnsyncedIsDirty`, if `MasksKeepTheirChip` |
| `SaveIsSafe` | `SaveKept`, if `MasksKeepTheirChip` and no state is loaded hastily |
| `FramesAreUnseen` | `FramesUnseen`, if `MasksKeepTheirChip` and `StatesAreWhole` |
| `StatesAreRestored` | `LoadRestores`, if `StatesAreComplete` |

Assumptions: `NobodyIsNoThread`, `SyncAssumption`, `CoreThreadAssumption`,
`RewindAssumption`, `NAssumption`, `CyclesAssumption`, `SessionsAssumption`,
`EventsAssumption`, `TimesAssumption`, `StatesAssumption`, `SavedataAssumption`
(which also says that `Nil` is none of the files), all about constants.

What the theorems of `CallerProofs` and `SharedProofs` ask of a frontend, client m
being its caller where it has one:

| premise | says | why |
|---|---|---|
| `CallsFrom(m)` | m makes every call that waits, interrupts, resets or ends; the others only end a wait for the link and switch synchronisation | what several callers can do to each other is in the rows of `Shared` |
| `NoFunctionAtPrompt(m)` | no `RunFunction` while a debugger is attached | the prompt's interruption overwrites RUN_ON (thread.c:474) |
| `NoAdvanceInterrupted(m)` | no interrupts together with frame advance | finding 1 |
| `~LateCalls` | no call that overwrites the state of an ended thread | thread.c:406 |
| `Tame(m)` | all of these, and a core that does not crash | a crash overwrites what was under way |
| `NeverAdvances` | nobody advances by a frame, so that `videoFrameOn` is never raised | it holds for any number of callers |
| `AdvancesPlainly(m)` | m makes all calls, and beside frame advance it only pauses, interrupts and ends; no waits for the link, no prompt | `videoFrameOn` is read before the lock (thread.c:518) and written after the pause: a state between the two that is neither running nor paused lets the core end the frame and pause unseen |
| `Shared`: no `RunFunction` | several clients interrupt, pause, reset, rewind and end, but run no functions | the unlocked `state = savedState` after a function (thread.c:263) can overwrite the INTERRUPTING of another client with RUNNING, which that client takes for the answer |
| `Shared`: no frame advance, no `InterruptFromThread` | | finding 1; and inside the unanswered interrupt of another client `InterruptFromThread` declares INTERRUPTED a core that runs (thread.c:467) |
| `Shared`: who resets is who ends | | a reset that waits for `stateMutex` while another client ends overwrites EXITING |
| `Shared`: the core only waits for the link | no crash, no prompt | a reset of another client overwrites a crash, and `mCoreThreadMarkCrashed` does not broadcast on `stateCond`: a client asleep in `_waitOnInterrupt` is forgotten. The prompt is left out only because the proof does not follow it |

`InterruptExcludesCore` and `StoppedStatesAreReal` themselves are about frontends
without `AnswersForCpu` (above), and so are the theorems about them.

The five frontends of the run `frontends` with one caller satisfy the first four, and all
but `SDL`, whose core may crash, are tame; both frontends of `frontends_end` are; the
one of `sdl_key_race` fails the third. `SharedGame` has two callers and satisfies
`Shared`; `StartedGame` has two as well, one of whom interrupts without waiting,
and is covered by the run alone (and by the theorems about any frontend). `Hotkeys`
advances plainly, the others never do.

What the theorems about `Savedata` ask of a session:

| premise | says | why |
|---|---|---|
| `MasksKeepTheirChip` | an override names the chip, or no state is made before the game has told it, or nobody loads states behind a mask or temporary saves | `GBASavedataForceType` gives up a chip that is not the one asked for through `GBASavedataInit`, which makes the mask the real file (savedata.c:205-212): from then on there is no way back to the save |
| `MasksFit` | no temporary save for a game of 1 Mb whose chip no override names | a temporary save is opened for reading; `_flashSwitchBank` maps it anew for writing, which fails |
| `~may("hasty")` | a state is loaded when the last writes are synced | finding 5 |
| `StatesAreWhole` | where states are loaded behind a mask, the chip has one bank, and an EEPROM has 8 KiB | unmasking maps the save at the first bank; an EEPROM of 512 bytes is not cloned into a state |
| `StatesAreComplete` | the same for states that are loaded at all, but that a 1 Mb chip may be restored without a mask | as above |

All seven sessions of the run `savedata` satisfy all five.

The arguments. *Handover*: `NeverBothAsleep` is not inductive in the form that
matters to a display, so `OneSideAsleep` says that one of the two conditions has
no sleepers at all; each side empties the other's condition before it sleeps.
*Full buffer*: a CPU that is asleep on a full buffer can only be overtaken by
`ConsumeAudio`, which wakes it. *No frame lost*: `FrameTaken` says that a CPU
in the core with `videoFrameWait` on has no frame pending; `PostFrameWoken` is
the only way back into the core and tests for it. `NoFrameOverrun` is the form of
`NoFrameLostForLong` that a proof can have, for flags that stay.
*Wakeups*: `AsleepParked` adds the place of the sleeper, so that the steps the
CPU thread takes elsewhere are out of the question; then each call that changes
`state` away from a waiting state is seen to broadcast. *Interruptions*:
`InterruptIInv` adds the local of the CPU thread through which
`state = savedState` passes. 
*Callers*: each call is followed through its places. `CallsInPlace` says which
call a client at a place is in; `Counted` that `interruptDepth` is what the
caller holds, and one more at the prompt, so that only the caller's own Continue,
or the prompt's, brings `savedState` back. On these stand the invariants
of the single properties. `FlagsInv` keeps, at each place of
`_waitUntilNotState`, what its locals will put back. `SleepsInterrupted` says that
a client asleep in `_waitOnInterrupt` faces an interruption. `FunctionInv` follows
RUN_ON through `state` and `savedState` into the CPU thread and back, with the
number of runs at each point. `GrantedInv` says which places the CPU thread may be
at from the moment an interrupt is answered until it is continued, and `HeldInv` that
an interrupt that is not answered is the caller's own, who still waits in it;
`PausedInv` is to PAUSED what `GrantedInv` is to INTERRUPTED. `EndInv` holds an ended thread's state against every call and
every local that could still be stored over it.

*Display*: without frame advance nothing ever raises `videoFrameOn`
(`NeverRaised`). With it, `Raised` says who has it set or will put it back from a
local. `PauseStages` follows a pause from the request to the parked core: once the
frame that asks for it is over, no second one ends before the CPU thread looks at
the state again. `RaisedInv` is what the two make together: the flag, or a copy of
it, is only raised after that frame, and then the caller is still in the pause
that will clear it.

*Several callers*: what all hold has to add up to `interruptDepth`. A sum over the
clients would need an induction; `Interrupts` is the set of the interrupts
themselves, pairs of a client and a number, and its cardinality is the depth
(`Tallied`): an interrupt adds one pair, a continue removes one. `HeldOn` says that
nothing but an end takes the interruption from those who hold one, `GrantsHold` that an
answered interrupt stays answered until all to whom it was granted have continued, and
`PausesReal` that a pause has been begun by the CPU thread whoever asked for it.
For an interrupt that returned at once inside an unanswered one, `Awaited` says
that an interruption stays unanswered only while a client waits in
`_waitUntilNotState`; once that client has its answer the core stands for both.
With one caller there is no such client, and `InterruptHoldsTheCore` says the plain
thing.

*Ring*: the bounds and the types are inductive
together (`RingInv`), and `DiffInRange` says once, for the two threads that may
make it, that a difference keeps both; nothing is needed of the order of the
threads, so the bounds hold even where the contents go wrong. *Stack*: a content
is a set of frames and a difference a symmetric difference, so what the i newest
differences combine to (`Combined`) can be said without recursion: the frames that
are in an odd number of them. `StackInv` says that undoing any number of
differences gives a state that was saved (or the zeros a context begins with),
and that the newest difference, once made, is the one between the two files. Saving
shifts the differences by one slot and restoring takes the newest away; the lemmas
about `Combined` show that neither changes what the others undo, across the wrap of
the ring. `StackStep` maps each step to a push, a pop or a stutter of
`RewindStack`. `Timely` is needed: `rewind_late` is the counterexample without it.

*Link cable*: `WaitersIInv` bounds what states a thread can be in when no
function runs and nobody pauses; each of the four calls then keeps the books
(`SignalKeepsWaiters` and its like). `AheadIInv` needs it: `Bounded` adds to
`NeverAhead` that a slave asleep has nothing scheduled and is out of its event,
so that being woken with all its cycles (`NextEvents`) still fits, and that a
slave in its event had it due, so that using cycles does not overdraw them.
`MasterIInv` says that the master is asleep exactly while a player it waits for
has not signalled, and that this lasts from its call of `wait` to the call of
`signal` of its next event at the latest, which is for everyone in the mode; it
needs that nobody leaves the mode by a reset. The steps of a slave are shown to
touch none of what `MasterOK` looks at but `awake[0]` and `waitMask`
(`SameMaster`). `AnswerIInv` adds to these that a slave the master waits for runs
and does not use up its cycles before it signals; that is where the books, the
cycles and the master's place meet. `TransferIInv` says, phase by phase, who has
signalled, who is still to, and what each player has in its registers; when the
master finishes everyone has passed the phase that copies the data. A game that
sends the word with which `multiRecv` is reset could not be told from one that has
sent nothing, therefore `None \notin Data`.

*Time*: the list is kept as pointers, but there are four events only, so that a
walk along it has four steps and nothing needs an induction: `WalkIs` unfolds it
once, and `IsList` says that it ends and meets no event twice. `Sound` (the list
is what was scheduled and has neither fired nor been cancelled) is kept by each of
Schedule, Deschedule, the firing of the head, and by everything made of them;
`Aside` is the same for a loaded state, from the load to the end of the next tick. `EventsAreKept` needs
nothing else. The order needs the times: a clock that wraps can be compared
only while all times lie within half its range. `Bounds(b)` says that they do, b
being how late an event may come (`late`: the longest instruction or the interrupt), how far
ahead one is asked for (`wait`) and how far away the picture's is (`line`). On a
GBA these are tens of cycles, a timer's period of at most 2^26, and some 1200
cycles, against 2^31. `TimesInv(b)` says that between two ticks no event is later
than allowed and `nextEvent` is no later than any; within a tick, that only the
interrupt takes time, and that it does so once, because its event is then at least
one cycle away; and that a loaded state says nothing that a state of the game
could not. `SignedIs`, `AdvanceLeft` and `Same` are the arithmetic of the clock.

*Flash*: `NoBadFlashState` alone is inductive for the game's writes but not for
savestates, so `FlashInv` says the same of the state in the slot; every function
of the module then either leaves the command machine alone (`Same`) or puts it
to rest (`Quiet`), shown for each once, and only `GBASavedataWriteFlash` and
`GBASavedataDeserialize` do anything else to it.

*Savegame*: most of the proof is about the functions of gba/savedata.c, each of
which has a lemma that says what of the machine it changes. A content has at most
two cells, so that equality, prefixes and one content over another are settled cell
by cell (`SameContent`, `PrefixIs`, `OverIs`, `CutIs`) and nothing needs an
induction. `Ready` says that a mapping fits its file and its chip; every function
keeps it, and with it `TypeInv`. `Known` is what the properties need and do not
say: a file that is not the real one is mapped for reading and written back exactly
if it is a state's, the chip in use is the game's or not told yet, and so is
the one in the slot (`Settled`). `Unsynced` adds to `UnsyncedIsDirty` that a game
that has written has told its chip: unmasking then writes what the mask holds
where the sync looks for it. For `SaveKept`, `Kept` adds that a
state's mask nobody has written into is clean, so that the delayed write-back cannot fire for
it. `Returned` says what writing a mask back leaves: the real file, perhaps longer,
with the mask's cells over it; that the game sees the same then is a matter of
lengths, for which `Long` follows an EEPROM of 8 KiB through every file and state.
`Shown` says that the slot holds what the game saw.

Only model-checked: `NoFrameLostForLong`, whose premise is temporal, and all
liveness, which is out of the prover's reach: `FramesAreTaken`, `CallsReturn`,
`TransferEnds` and their like. Every invariant of a passing run is stated by a theorem,
under the premises above; where the run has a frontend no premise covers, the run is
all there is. Of `Savedata` nothing is said, by a theorem or by a
run, for sessions outside these premises but what the findings say.

## Findings

1. `sdl_key_race` (code bug). `mCoreThreadPauseFromThread` (thread.c:564-565)
   overwrites INTERRUPTING with PAUSING when `savedState` is RUNNING. A client in
   `mCoreThreadInterrupt` takes the change for the answer and goes on, while the
   CPU thread is still in the core. In SDL: a key pressed while the frame of a
   frame advance completes. `CHANGES:219` claims the race on key presses fixed.
2. `rewind_late` (code bug). `mCoreRewindAppend` swaps the two states although
   the difference of the states before may not have been made yet
   (rewind.c:78-85), and nothing makes `mCoreRewindRestore` wait for it either:
   a difference is lost, and rewinding combines the wrong ones into a mixture of
   states. `CHANGES:402` claims rewinding out of sync fixed, before `CHANGES:320`
   moved the differences to their own thread.
3. `link_function` (code bug). `mCoreThreadRunFunction` on the thread of a player
   who waits for cycles saves WAITING; a `mCoreThreadStopWaiting` that comes
   before the function has run does nothing (thread.c:616), yet the player is
   marked awake. The thread goes back to waiting and nobody wakes it. The master
   has just told it that it "can continue up to where we were"
   (gba/sio/lockstep.c:267).
4. `timing_load` (code bug). Loading a state sets its events aside in `reroot`
   until the end of the next tick (gba/serialize.c:202). If the game schedules
   one before that, the tick ends early (timing.c:79-81), the list stays aside
   and the CPU runs past the time the state says its next event is due
   (serialize.h:34); with an event that always schedules itself again the picture
   stops. States loaded by rewinding, in the midst of a tick, are safe.
5. `savedata_hasty` (code bug). `dirty` outlives `GBASavedataMask`. When a state
   is loaded within 15 frames of the game's saving, the delayed
   `GBASavedataClean` takes the mask for what is dirty and writes the state's
   savedata over the save. `CHANGES:191` claims savestate-related save
   overwriting fixed.

## Not modelled, and the plan

Not modelled in the modules above: what the debugger does but for its prompt;
spurious wakeups outside `Rewind` (every sleep tests its condition again, but for
the timed one whose timeout is modelled); the frontends' own state beyond their
calls; a restore on a rewind context that has been closed
(`CoreController::rewind` does not exclude it); of the link cable, normal mode,
detaching a game (but for its interrupts, in `SharedGame`) and the switching of synchronisation (`setSync`, which
`CoreThread` has); of time, the other timers, DMA channels, sound and serial
events, which schedule in the same ways; of the savegame, the bits of an EEPROM
transfer, the settling time of a write (the `dust` event), the flash ID, saves
imported or loaded for good, games without a save file, and failures of the
disk.

Known dangers that no property is about, because nothing is promised or the code
around them is left out: the prompt keeps the CPU thread until a line is entered,
while the GUI that would enter it may sleep in `_waitOnInterrupt`
(DebuggerConsoleController.cpp:85); a frame advance that completes after an end
and beside an interrupt undoes the end (thread.c:565); `CoreController::rewind`
on a closed rewind context (CoreController.cpp:427); `++attachedMulti` without a
lock, and a game alone in multiplayer mode, whose event is not scheduled again
(gba/sio/lockstep.c:96, 333); a slave that leaves and clears its bit in its own
waitMask only (MultiplayerController.cpp:109); a state made before
its game has told its chip, loaded while a mask is in use, makes the mask the real
file (gba/savedata.c:205-212, the premise `MasksKeepTheirChip`); a game of 1 Mb that
turns out so on a temporary save loses its mapping (gba/savedata.c:591, `MasksFit`);
`GBASavedataClone` on a file that is
not mapped reads without a seek, and fails for a 512-byte EEPROM; a mask's
EEPROM that has grown is written into a file that has not; a sync that fails is
not tried again (gba/savedata.c:138, 129, 113, 528).

Parts not modelled: the GB link cable (`gb/sio/lockstep.c`) has phases of its own
over the same four calls, and two dangers of its own: its master gives back
`masterClaimed` before it stores IDLE (line 139), and a reset of the Game Boy
clears the event list with the event of its node (gb/gb.c:461); the
Game Boy mappers and the circle buffer are sequential and change little state at
a time; the ring FIFO is only used by the video thread proxy, which this fork has
switched off (feature/thread-proxy.c:175-179); the instruction sets, rendering
and mixing are data transformations a bounded check says little about. The other
emulators of the collection are single-threaded ports, each of the size of mGBA
or larger; they make up almost all of the repository's lines, and what the map
covers of those is small for that reason.

What would come next, in this order: a module for the GB link cable, composed
with the same players; an abstract specification of what `CoreThread` promises
its clients (a lock on the core with pause, reset and end), implemented for the
SDL frontend without frame advance; runs with `LateCalls` TRUE; the theorems of
`SharedProofs` with the prompt among the calls.
