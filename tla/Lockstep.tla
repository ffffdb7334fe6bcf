------------------------------ MODULE Lockstep ------------------------------
(***************************************************************************)
(* Link cable players in lockstep: core/lockstep.h, gba/sio/lockstep.c and *)
(* the four calls MultiplayerController gives them.  Player 0 is the       *)
(* master: its cable event runs freely, starts the transfers, and posts    *)
(* cycles to the other players.  A slave runs as long as it has cycles     *)
(* posted, then its CPU thread waits.  Each player has a CPU thread of its *)
(* own; m_lock makes each of the four calls one step, and nothing covers   *)
(* the accesses between two calls.                                         *)
(*                                                                         *)
(* Emulated time is cut to what decides who waits: an event that is due    *)
(* fires at any moment its thread runs the core, at most MaxLate late, and *)
(* the cycles of the code are a few units (Increment, Step, Rest).         *)
(***************************************************************************)
EXTENDS Integers, FiniteSets

CONSTANTS
    N,          \* how many games are attached at most (MAX_GBAS is 4)
    Data,       \* what a game may have put in SIOMLT_SEND
    Increment,  \* LOCKSTEP_INCREMENT: how far the idle master runs at once
    Step,       \* the 512 cycles between two phases of a transfer
    Rest,       \* transferCycles - 1024, the rest of a transfer
    MaxLate,    \* how late an event fires: less than a Step
    MaxPosted,  \* bound: the master's event is held while a slave is further behind
    Sessions    \* what is checked together: how many play, and what may happen

ASSUME NAssumption == N \in Nat \ {0, 1}
ASSUME CyclesAssumption ==
    /\ {Increment, Step, Rest} \subseteq Nat \ {0}
    /\ MaxLate \in 0 .. Step - 1 /\ MaxPosted \in Nat
ASSUME SessionsAssumption ==
    Sessions \subseteq [players : 2 .. N, allow : SUBSET {"race", "leave", "reset", "stop", "late", "slow", "eager"}]

Players == 0 .. N - 1
Slaves == 1 .. N - 1
None == "none"              \* 0xFFFF, what a player who sent nothing leaves

VARIABLES
    \* What this session allows, never changed:
    \*   "race"  another thread may run between a slave's look at the phase and
    \*           its signal, and between the load and the store of a counter
    \*   "leave" games leave multiplayer mode at any time
    \*   "reset" the user resets a player
    \*   "stop"  the user pauses a player or has its thread run a function
    \*   "late"  games are attached while others are in multiplayer mode
    \*   "slow"  an instruction may take so long that an event fires late
    \*   "eager" the master's game starts a transfer before its first event
    session,
    \* struct mLockstep, struct GBASIOLockstep
    attached, attachedMulti, transferActive, multiRecv,
    \* struct GBASIOLockstepNode and the registers it fills
    loaded,             \* the node is its player's active driver
    multi,              \* node->mode is SIO_MULTI
    scheduled,          \* node->event is in the player's event list
    nextEvent, eventDiff, transferFinished,
    ready,              \* multiplayerControl.ready of player 0
    received,           \* SIOMULTI0..3
    \* struct MultiplayerController::Player
    awake, cyclesPosted,
    waitMask,           \* of player 0: wait and signal use no other
    \* the CPU threads
    thread, savedState, \* the state of mCoreThread, and what RUN_ON returns to
    pc,                 \* where in its cable event the thread is
    seen,               \* the phase a slave has read
    count,              \* the attachedMulti a player has loaded to count itself
    aborted             \* the program has called abort()

cable == <<attached, attachedMulti, transferActive, multiRecv>>
node == <<loaded, multi, scheduled, nextEvent, eventDiff, transferFinished, ready, received>>
playerVars == <<awake, cyclesPosted, waitMask>>
cpu == <<thread, savedState, pc, seen, count>>
vars == <<session, cable, node, playerVars, cpu, aborted>>

allow == session.allow
Lateness == IF "slow" \in allow THEN 0 .. MaxLate ELSE {0}
Phases == {"IDLE", "STARTING", "STARTED", "FINISHING", "FINISHED"}
Attached == 0 .. attached - 1
Nothing == [i \in Players |-> None]

Init ==
    /\ session \in Sessions
    /\ attached = IF "late" \in allow THEN 1 ELSE session.players
    /\ attachedMulti = 0 /\ transferActive = "IDLE" /\ multiRecv = Nothing
    /\ loaded = [p \in Players |-> FALSE] /\ multi = loaded
    /\ scheduled = loaded /\ ready = FALSE
    /\ nextEvent = [p \in Players |-> 0] /\ eventDiff = nextEvent
    /\ \E b \in BOOLEAN : transferFinished = [p \in Players |-> b]
    /\ received = [p \in Players |-> Nothing]
    /\ awake = [p \in Players |-> TRUE]
    /\ cyclesPosted = [p \in Players |-> 0] /\ waitMask = {}
    /\ thread = [p \in Players |-> "running"] /\ savedState = thread
    /\ pc = [p \in Players |-> "core"] /\ seen = [p \in Players |-> "IDLE"]
    /\ count = [p \in Players |-> 0]
    /\ aborted = FALSE

-----------------------------------------------------------------------------
(* The calls a CPU thread gets from other players' events.                 *)

\* mCoreThreadWaitFromThread: ignored unless the thread is running.
WaitFromThread(p) ==
    thread' = [thread EXCEPT ![p] = IF @ = "running" THEN "waiting" ELSE @]

\* mCoreThreadStopWaiting for every player of P: ignored unless it is waiting.
StopWaiting(P) ==
    thread' = [p \in Players |->
                 IF p \in P /\ thread[p] = "waiting" THEN "running" ELSE thread[p]]

\* The thread runs the core.  It notices a request after the event it is in.
InCore(p) == p \in Attached /\ pc[p] = "core" /\ thread[p] = "running" /\ ~aborted

\* Outside "race" no thread gets between two accesses that no lock covers.
Undisturbed(p) ==
    "race" \notin allow => \A q \in Players \ {p} : pc[q] \notin {"act", "count"}

-----------------------------------------------------------------------------
(* The calls of MultiplayerController, each under m_lock.                  *)

\* Mutant: one player's signal stands for all.
SignalOfOne(mask) ==
    /\ waitMask' = {}
    /\ awake' = [awake EXCEPT ![0] = TRUE]
    /\ IF awake[0] THEN UNCHANGED thread ELSE StopWaiting({0})

\* Mutant: the thread is let go but not marked awake.
SignalUnmarked(mask) ==
    /\ waitMask' = waitMask \ mask
    /\ UNCHANGED awake
    /\ IF waitMask' = {} /\ ~awake[0] THEN StopWaiting({0}) ELSE UNCHANGED thread

\* Mutant: the thread is marked awake but not let go.
SignalUnheard(mask) ==
    /\ waitMask' = waitMask \ mask
    /\ awake' = [awake EXCEPT ![0] = @ \/ waitMask' = {}]
    /\ UNCHANGED thread

signal(mask) ==
    LET left == waitMask \ mask
        wakes == left = {} /\ ~awake[0]
    IN  /\ waitMask' = left
        /\ awake' = [awake EXCEPT ![0] = @ \/ wakes]
        /\ IF wakes THEN StopWaiting({0}) ELSE UNCHANGED thread

\* It returns false, and the master aborts, when player 0 is asleep already.
wait(mask) ==
    /\ waitMask' = waitMask \cup mask
    /\ IF awake[0] THEN WaitFromThread(0) ELSE UNCHANGED thread
    /\ awake' = [awake EXCEPT ![0] = FALSE]
    /\ aborted' = ~awake[0]

\* addCycles and unload post cycles to the slaves of P and wake those asleep.
Posted(P, cycles) ==
    [p \in Players |-> IF p \in P THEN cyclesPosted[p] + cycles ELSE cyclesPosted[p]]
\* Mutant: players who are awake get their cycles a second time.
NextEventsOfAll(P, cycles) ==
    [p \in Players |-> IF p \in P THEN nextEvent[p] + cyclesPosted[p] + cycles ELSE nextEvent[p]]
NextEvents(P, cycles) ==
    [p \in Players |-> IF p \in P /\ ~awake[p]
                       THEN nextEvent[p] + cyclesPosted[p] + cycles ELSE nextEvent[p]]
\* Mutant: the threads that sleep are marked awake only.
WakeAllUnheard(P) ==
    /\ awake' = [p \in Players |-> awake[p] \/ p \in P]
    /\ UNCHANGED thread
WakeAll(P) ==
    /\ awake' = [p \in Players |-> awake[p] \/ p \in P]
    /\ StopWaiting({p \in P : ~awake[p]})

\* Mutant: the player is not marked asleep.
UseCyclesUnmarked(p, cycles) ==
    /\ cyclesPosted' = [cyclesPosted EXCEPT ![p] = @ - cycles]
    /\ IF cyclesPosted[p] <= cycles THEN WaitFromThread(p) ELSE UNCHANGED thread
    /\ UNCHANGED awake
useCycles(p, cycles) ==
    LET left == cyclesPosted[p] - cycles
    IN  /\ cyclesPosted' = [cyclesPosted EXCEPT ![p] = left]
        /\ IF left <= 0
           THEN WaitFromThread(p) /\ awake' = [awake EXCEPT ![p] = FALSE]
           ELSE UNCHANGED <<thread, awake>>

-----------------------------------------------------------------------------
(* _GBASIOLockstepNodeProcessEvents.                                       *)

\* The event comes before its time: it is scheduled again for the rest.
NotYet(p, left) ==
    /\ left > 0
    /\ nextEvent' = [nextEvent EXCEPT ![p] = 0]
    /\ eventDiff' = [eventDiff EXCEPT ![p] = @ + left]
    /\ UNCHANGED <<session, cable, loaded, multi, scheduled, transferFinished, ready,
                   received, playerVars, cpu, aborted>>

\* With fewer than two players attached the event is not scheduled again.
FiresAlone ==
    /\ InCore(0) /\ scheduled[0] /\ attached < 2
    /\ scheduled' = [scheduled EXCEPT ![0] = FALSE]
    /\ UNCHANGED <<session, cable, loaded, multi, nextEvent, eventDiff, transferFinished,
                   ready, received, playerVars, cpu, aborted>>

_finishTransfer(p) ==
    /\ received' = IF transferFinished[p] THEN received
                   ELSE [received EXCEPT ![p] = multiRecv]
    /\ transferFinished' = [transferFinished EXCEPT ![p] = TRUE]

\* _masterUpdate up to its call of wait or signal.
MasterPhase(left) ==
    LET goto(phase, cycles, step) ==
            /\ transferActive' = phase
            /\ nextEvent' = [nextEvent EXCEPT ![0] = left + cycles]
            /\ pc' = [pc EXCEPT ![0] = step]
    IN  \/ /\ transferActive = "IDLE"
           /\ goto("IDLE", Increment, "signal")
           /\ ready' = (attachedMulti = attached)
           /\ UNCHANGED <<multiRecv, transferFinished, received>>
        \/ /\ transferActive = "STARTING"
           /\ goto("STARTED", Step, "wait")
           /\ transferFinished' = [transferFinished EXCEPT ![0] = FALSE]
           /\ multiRecv' = Nothing
           /\ UNCHANGED <<ready, received>>
        \/ /\ transferActive = "STARTED"
           /\ goto("FINISHING", Step, "signal")
           /\ \E d \in Data : multiRecv' = [multiRecv EXCEPT ![0] = d]
           /\ UNCHANGED <<ready, transferFinished, received>>
        \/ /\ transferActive = "FINISHING"
           /\ goto("FINISHED", Rest, "wait")
           /\ UNCHANGED <<ready, multiRecv, transferFinished, received>>
        \/ /\ transferActive = "FINISHED"
           /\ goto("IDLE", Increment, "signal")
           /\ _finishTransfer(0)
           /\ UNCHANGED <<ready, multiRecv>>

MasterFires ==
    /\ InCore(0) /\ scheduled[0] /\ attached >= 2
    /\ \E late \in Lateness :
         LET left == nextEvent[0] - late
         IN  \/ NotYet(0, left)
             \/ /\ left <= 0
                /\ \A p \in Slaves : cyclesPosted[p] + eventDiff[0] <= MaxPosted
                /\ MasterPhase(left)
                /\ UNCHANGED <<session, attached, attachedMulti, loaded, multi, scheduled,
                               eventDiff, playerVars, thread, savedState, seen, count, aborted>>

Mask == {p \in Attached \ {0} : multi[p] = multi[0]}

MasterWaits ==
    /\ pc[0] = "wait"
    /\ IF Mask # {} THEN wait(Mask) ELSE UNCHANGED <<waitMask, awake, thread, aborted>>
    /\ pc' = [pc EXCEPT ![0] = "post"]
    /\ UNCHANGED <<session, cable, node, cyclesPosted, savedState, seen, count>>

MasterSignals ==
    /\ pc[0] = "signal"
    /\ IF Mask # {} THEN signal(Mask) ELSE UNCHANGED <<waitMask, awake, thread>>
    /\ pc' = [pc EXCEPT ![0] = "post"]
    /\ UNCHANGED <<session, cable, node, cyclesPosted, savedState, seen, count, aborted>>

\* addCycles(0, eventDiff), then the event is scheduled again; after a call of
\* wait it is due at once, before nextEvent.
MasterPosts ==
    /\ pc[0] = "post" /\ ~aborted
    /\ LET driven == {p \in Attached \ {0} : loaded[p] = loaded[0]}
           waits == transferActive \in {"STARTED", "FINISHED"}
           woken == NextEvents(driven, eventDiff[0])
           due == ~waits /\ nextEvent[0] > 0
       IN  /\ cyclesPosted' = Posted(driven, eventDiff[0])
           /\ WakeAll(driven)
           /\ nextEvent' = IF due THEN [woken EXCEPT ![0] = 0] ELSE woken
           /\ eventDiff' = [eventDiff EXCEPT ![0] = IF due THEN nextEvent[0] ELSE 0]
    /\ pc' = [pc EXCEPT ![0] = "core"]
    /\ UNCHANGED <<session, cable, loaded, multi, scheduled, transferFinished, ready,
                   received, waitMask, savedState, seen, count, aborted>>

\* _slaveUpdate up to the phase it acts on.
SlaveFires(p) ==
    /\ InCore(p) /\ scheduled[p]
    /\ \E late \in Lateness :
         LET left == nextEvent[p] - late
             idles == transferActive = "IDLE" /\ attachedMulti = attached
         IN  \/ NotYet(p, left)
             \/ /\ left <= 0
                /\ nextEvent' = [nextEvent EXCEPT ![p] = left]
                /\ seen' = [seen EXCEPT ![p] = transferActive]
                /\ pc' = [pc EXCEPT ![p] = IF idles \/ transferActive \in {"STARTING", "FINISHING"}
                                           THEN "use" ELSE "act"]
                /\ UNCHANGED <<session, cable, loaded, multi, scheduled, eventDiff, ready,
                               transferFinished, received, playerVars, thread, savedState,
                               count, aborted>>

\* What a slave does in the phase it has read.
SlaveActs(p) ==
    /\ pc[p] = "act"
    /\ \/ /\ seen[p] = "IDLE"
          /\ cyclesPosted' = [cyclesPosted EXCEPT ![p] = @ + Increment]
          /\ UNCHANGED <<multiRecv, transferFinished, received, waitMask, awake, thread>>
       \/ /\ seen[p] = "STARTED"
          /\ transferFinished' = [transferFinished EXCEPT ![p] = FALSE]
          /\ \E d \in Data : multiRecv' = [multiRecv EXCEPT ![p] = d]
          /\ received' = [received EXCEPT ![p] = Nothing]
          /\ signal({p})
          /\ UNCHANGED cyclesPosted
       \/ /\ seen[p] = "FINISHED"
          /\ _finishTransfer(p)
          /\ signal({p})
          /\ UNCHANGED <<multiRecv, cyclesPosted>>
    /\ pc' = [pc EXCEPT ![p] = "use"]
    /\ seen' = [seen EXCEPT ![p] = "IDLE"]
    /\ UNCHANGED <<session, attached, attachedMulti, transferActive, loaded, multi, scheduled,
                   nextEvent, eventDiff, ready, savedState, count, aborted>>

\* useCycles, then the event is scheduled for when the posted cycles end.
SlaveUses(p) ==
    /\ pc[p] = "use"
    /\ useCycles(p, eventDiff[p])
    /\ LET left == cyclesPosted[p] - eventDiff[p]
       IN  /\ eventDiff' = [eventDiff EXCEPT ![p] = IF left > 0 THEN left ELSE 0]
           /\ nextEvent' = [nextEvent EXCEPT ![p] = IF left > 0 THEN 0 ELSE @]
    /\ pc' = [pc EXCEPT ![p] = "core"]
    /\ UNCHANGED <<session, cable, loaded, multi, scheduled, transferFinished, ready, received,
                   waitMask, savedState, seen, count, aborted>>

-----------------------------------------------------------------------------
(* What the games do.                                                      *)

\* The master's game starts a transfer: the event is brought forward, its
\* eventDiff still counts the cycles up to the time it was scheduled for.
GBASIOLockstepNodeMultiWriteRegister ==
    /\ InCore(0) /\ loaded[0] /\ ready
    /\ transferActive = "IDLE"
    /\ eventDiff[0] = 0 => allow \cap {"eager", "late"} # {}
    /\ transferActive' = "STARTING"
    /\ scheduled' = [scheduled EXCEPT ![0] = TRUE]
    /\ UNCHANGED <<session, attached, attachedMulti, multiRecv, loaded, multi, nextEvent,
                   eventDiff, transferFinished, ready, received, playerVars, cpu, aborted>>

\* The game enters multiplayer mode; the count of those that have is loaded...
GBASIOLockstepNodeLoad(p) ==
    /\ InCore(p) /\ ~loaded[p]
    /\ cyclesPosted[p] + Increment <= MaxPosted
    /\ loaded' = [loaded EXCEPT ![p] = TRUE]
    /\ multi' = [multi EXCEPT ![p] = TRUE]
    /\ scheduled' = [scheduled EXCEPT ![p] = TRUE]
    /\ nextEvent' = [nextEvent EXCEPT ![p] = 0]
    /\ eventDiff' = [eventDiff EXCEPT ![p] = 0]
    /\ pc' = [pc EXCEPT ![p] = "count"]
    /\ count' = [count EXCEPT ![p] = attachedMulti]
    /\ UNCHANGED <<session, cable, transferFinished, ready, received, playerVars, thread,
                   savedState, seen, aborted>>

\* ... and stored.
LoadCounted(p) ==
    /\ pc[p] = "count"
    /\ attachedMulti' = count[p] + 1
    /\ ready' = IF p = 0 THEN count[p] + 1 = attached ELSE ready
    /\ pc' = [pc EXCEPT ![p] = "core"]
    /\ count' = [count EXCEPT ![p] = 0]
    /\ UNCHANGED <<session, attached, transferActive, multiRecv, loaded, multi, scheduled,
                   nextEvent, eventDiff, transferFinished, received, playerVars, thread,
                   savedState, seen, aborted>>

\* unload: a slave clears its own waitMask, which nobody reads, and a master
\* lets every slave go, with the cycles of its own event.  A reset calls it twice.
Unload(p, times) ==
    LET freed == IF p = 0 THEN Attached \ {0} ELSE {p}
        cycles == IF p = 0 THEN eventDiff[0] ELSE 0
        again == IF p = 0 /\ times = 2 THEN eventDiff[0] ELSE 0
    IN  /\ attachedMulti' = attachedMulti - 1
        /\ loaded' = [loaded EXCEPT ![p] = FALSE]
        /\ scheduled' = [scheduled EXCEPT ![p] = FALSE]
        /\ cyclesPosted' = Posted(freed, cycles + again)
        /\ nextEvent' = IF p = 0 THEN NextEvents(freed, cycles) ELSE nextEvent
        /\ awake' = [q \in Players |-> awake[q] \/ q \in freed]

\* The game leaves multiplayer mode; node->mode keeps what it was.
GBASIOLockstepNodeUnload(p) ==
    /\ "leave" \in allow
    /\ InCore(p) /\ loaded[p]
    /\ Unload(p, 1)
    /\ StopWaiting({q \in Players : ~awake[q] /\ awake'[q]})
    /\ UNCHANGED <<session, attached, transferActive, multiRecv, multi, eventDiff,
                   transferFinished, ready, received, waitMask, savedState, pc, seen, count,
                   aborted>>

\* A game is attached when its thread starts, before its first reset.
GBASIOLockstepAttachNode ==
    /\ "late" \in allow /\ attached < session.players /\ ~aborted
    /\ attached' = attached + 1
    /\ UNCHANGED <<session, attachedMulti, transferActive, multiRecv, node, playerVars, cpu,
                   aborted>>

-----------------------------------------------------------------------------
(* What the user does to the CPU thread of one player; CoreThread has the  *)
(* whole of these calls.                                                   *)

Request(p, states, state) ==
    /\ p \in Attached /\ thread[p] \in states /\ ~aborted
    /\ thread' = [thread EXCEPT ![p] = state]
    /\ UNCHANGED <<session, cable, node, playerVars, pc, seen, count, aborted>>

\* The thread is out of its event and changes its state.
Noticed(p, state, next) ==
    /\ thread[p] = state /\ pc[p] = "core" /\ ~aborted
    /\ thread' = [thread EXCEPT ![p] = next]
    /\ UNCHANGED <<session, cable, node, playerVars, pc, seen, count, aborted>>

mCoreThreadRunFunction(p) ==
    /\ "stop" \in allow
    /\ Request(p, {"running", "waiting", "paused"}, "run_on")
    /\ savedState' = [savedState EXCEPT ![p] = thread[p]]
FunctionRun(p) ==
    /\ Noticed(p, "run_on", savedState[p])
    /\ savedState' = [savedState EXCEPT ![p] = "running"]
mCoreThreadPause(p) == "stop" \in allow /\ Request(p, {"running"}, "pausing") /\ UNCHANGED savedState
Paused(p) == Noticed(p, "pausing", "paused") /\ UNCHANGED savedState
mCoreThreadUnpause(p) ==
    "stop" \in allow /\ Request(p, {"paused", "pausing"}, "running") /\ UNCHANGED savedState
mCoreThreadReset(p) ==
    "reset" \in allow /\ Request(p, {"running", "waiting"}, "reseting") /\ UNCHANGED savedState

\* GBAReset drops every event and takes the game out of multiplayer mode.
GBASIOReset(p) ==
    /\ thread[p] = "reseting" /\ pc[p] = "core" /\ ~aborted
    /\ multi' = [multi EXCEPT ![p] = FALSE]
    /\ IF loaded[p]
       THEN /\ Unload(p, 2)
            /\ thread' = [q \in Players |->
                 CASE q = p -> "running"
                   [] q # p /\ ~awake[q] /\ awake'[q] /\ thread[q] = "waiting" -> "running"
                   [] OTHER -> thread[q]]
       ELSE /\ scheduled' = [scheduled EXCEPT ![p] = FALSE]
            /\ thread' = [thread EXCEPT ![p] = "running"]
            /\ UNCHANGED <<attachedMulti, loaded, cyclesPosted, nextEvent, awake>>
    /\ UNCHANGED <<session, attached, transferActive, multiRecv, eventDiff, transferFinished,
                   ready, received, waitMask, savedState, pc, seen, count, aborted>>

-----------------------------------------------------------------------------
CableEvent(p) ==
    \/ p = 0 /\ (FiresAlone \/ MasterFires \/ MasterWaits \/ MasterSignals \/ MasterPosts)
    \/ p # 0 /\ (SlaveFires(p) \/ SlaveActs(p) \/ SlaveUses(p))
    \/ LoadCounted(p)

Game(p) ==
    \/ p = 0 /\ GBASIOLockstepNodeMultiWriteRegister
    \/ GBASIOLockstepNodeLoad(p)
    \/ GBASIOLockstepNodeUnload(p)

User(p) ==
    \/ mCoreThreadRunFunction(p) \/ FunctionRun(p)
    \/ mCoreThreadPause(p) \/ Paused(p) \/ mCoreThreadUnpause(p)
    \/ mCoreThreadReset(p) \/ GBASIOReset(p)

Next ==
    \/ GBASIOLockstepAttachNode
    \/ \E p \in Players : Undisturbed(p) /\ (CableEvent(p) \/ Game(p) \/ User(p))

Spec == Init /\ [][Next]_vars

\* The host gives every CPU thread its turn; what games and users do is theirs.
Fairness == \A p \in Players : WF_vars(Undisturbed(p) /\ CableEvent(p))
FairSpec == Spec /\ Fairness

-----------------------------------------------------------------------------
ThreadStates == {"running", "waiting", "pausing", "paused", "run_on", "reseting"}
Received == [Players -> Data \cup {None}]

\* The domains of the variables; cycles are never negative where they are counted.
TypeOK ==
    /\ session \in Sessions /\ attached \in 1 .. N /\ attachedMulti \in Int
    /\ transferActive \in Phases /\ multiRecv \in Received
    /\ {loaded, multi, scheduled, transferFinished, awake} \subseteq [Players -> BOOLEAN]
    /\ nextEvent \in [Players -> Int] /\ eventDiff \in [Players -> Nat]
    /\ ready \in BOOLEAN /\ received \in [Players -> Received]
    /\ cyclesPosted \in [Players -> Int] /\ waitMask \subseteq Slaves
    /\ thread \in [Players -> ThreadStates] /\ savedState \in [Players -> ThreadStates]
    /\ pc \in [Players -> {"core", "wait", "signal", "post", "act", "use", "count"}]
    /\ seen \in [Players -> Phases] /\ count \in [Players -> Int]
    /\ aborted \in BOOLEAN

\* A slave never runs further than the cycles posted to it: what it has
\* scheduled, and what it was woken with, fits in cyclesPosted.
NeverAhead ==
    "stop" \notin allow =>
      \A p \in Slaves : /\ eventDiff[p] <= cyclesPosted[p]
                        /\ eventDiff[p] + nextEvent[p] <= cyclesPosted[p]

\* A thread told to wait is asleep in the books of its Player, so that the next
\* post or signal wakes it.
ToldToContinue == \A p \in Players : thread[p] = "waiting" => ~awake[p]
\* It is as long as no function runs on the thread of a player.
WaitersAreKnown == "stop" \notin allow => ToldToContinue

\* The master never calls wait while it is asleep already, which aborts.
NoAbort == "reset" \notin allow => ~aborted

\* While the master sleeps, each player it waits for is in multiplayer mode and
\* runs, or is about to be woken by the master's post.
WaitIsAnswered ==
    allow \subseteq {"race", "slow"} /\ ~awake[0] =>
      /\ waitMask # {}
      /\ \A p \in waitMask : loaded[p] /\ (pc[0] = "post" \/ thread[p] = "running")

\* When the master ends a transfer everyone it did it with has finished it too,
\* and all have received the same, from everyone.
TransfersAgree ==
    [][allow \subseteq {"slow"} /\ transferActive = "FINISHED" /\ transferActive' = "IDLE" =>
         \A p \in Mask : /\ transferFinished[p] /\ received[p] = received'[0]
                         /\ None \notin {received[p][q] : q \in Attached}]_vars

\* A transfer that has been started ends.
TransferEnds ==
    allow \subseteq {"race", "slow"} => [](transferActive = "STARTING" => <>(transferActive = "IDLE"))

\* A slave that waits for cycles runs again.
SlaveGoesOn ==
    allow \subseteq {"race", "slow"} => \A p \in Slaves : [](~awake[p] => <>awake[p])
=============================================================================
