--------------------------- MODULE LockstepProofs ---------------------------
(***************************************************************************)
(* Theorems about Lockstep: for any number of players, any cycles and      *)
(* lateness that CyclesAssumption allows, and any sessions.                *)
(***************************************************************************)
EXTENDS Lockstep, TLAPS, FiniteSetTheorems

-----------------------------------------------------------------------------
(* Types                                                                   *)

\* The domains of the variables, in groups that the steps change together.
CableTypeOK ==
    /\ session \in Sessions /\ attached \in 1 .. N /\ attachedMulti \in Int
    /\ transferActive \in Phases /\ multiRecv \in Received
NodeTypeOK ==
    /\ loaded \in [Players -> BOOLEAN] /\ multi \in [Players -> BOOLEAN]
    /\ scheduled \in [Players -> BOOLEAN] /\ transferFinished \in [Players -> BOOLEAN]
    /\ nextEvent \in [Players -> Int] /\ eventDiff \in [Players -> Nat]
    /\ ready \in BOOLEAN /\ received \in [Players -> Received]
PlayerTypeOK ==
    /\ awake \in [Players -> BOOLEAN]
    /\ cyclesPosted \in [Players -> Int] /\ waitMask \subseteq Slaves
CpuTypeOK ==
    /\ thread \in [Players -> ThreadStates] /\ savedState \in [Players -> ThreadStates]
    /\ pc \in [Players -> {"core", "wait", "signal", "post", "act", "use", "count"}]
    /\ seen \in [Players -> Phases] /\ count \in [Players -> Int]
    /\ aborted \in BOOLEAN

LEMMA TypeParts == TypeOK <=> CableTypeOK /\ NodeTypeOK /\ PlayerTypeOK /\ CpuTypeOK
BY DEF TypeOK, CableTypeOK, NodeTypeOK, PlayerTypeOK, CpuTypeOK

\* A session has at least two players, player 0 among them.
LEMMA PlayersFact == /\ 0 \in Players /\ Slaves \subseteq Players /\ 0 \notin Slaves
                     /\ N \in Nat /\ N > 1
                     /\ \A p \in Players : p = 0 \/ p \in Slaves
BY NAssumption DEF Players, Slaves

\* Those who are attached are players, those the master waits for are slaves.
LEMMA AttachedFact == attached \in 1 .. N => Attached \subseteq Players /\ Mask \subseteq Slaves
BY NAssumption DEF Attached, Players, Mask, Slaves

\* The calls between the players keep the domains of what they change.
ThreadTypeOK == thread \in [Players -> ThreadStates]

LEMMA WaitTypes ==
  ASSUME NEW p \in Players, ThreadTypeOK, WaitFromThread(p) PROVE ThreadTypeOK'
BY DEF ThreadTypeOK, WaitFromThread, ThreadStates

LEMMA StopTypes == ASSUME NEW P, ThreadTypeOK, StopWaiting(P) PROVE ThreadTypeOK'
BY DEF ThreadTypeOK, StopWaiting, ThreadStates

LEMMA SignalTypes ==
  ASSUME NEW mask, PlayerTypeOK, ThreadTypeOK, signal(mask)
  PROVE  ThreadTypeOK' /\ awake' \in [Players -> BOOLEAN] /\ waitMask' \subseteq Slaves
<1> USE DEF signal
<1>1. ThreadTypeOK'
  <2>1. UNCHANGED thread \/ StopWaiting({0})
    OBVIOUS
  <2> QED
    BY <2>1, StopTypes DEF ThreadTypeOK
<1>2. awake' \in [Players -> BOOLEAN] /\ waitMask' \subseteq Slaves
  BY DEF PlayerTypeOK
<1> QED
  BY <1>1, <1>2

LEMMA MasterWaitTypes ==
  ASSUME PlayerTypeOK, ThreadTypeOK, attached \in 1 .. N, wait(Mask)
  PROVE  ThreadTypeOK' /\ awake' \in [Players -> BOOLEAN] /\ waitMask' \subseteq Slaves
         /\ aborted' \in BOOLEAN
<1> USE PlayersFact DEF wait, PlayerTypeOK
<1>1. ThreadTypeOK'
  BY WaitTypes DEF ThreadTypeOK
<1>2. awake' \in [Players -> BOOLEAN] /\ waitMask' \subseteq Slaves
  BY AttachedFact
<1>3. aborted' \in BOOLEAN
  OBVIOUS
<1> QED
  BY <1>1, <1>2, <1>3

LEMMA PostTypes ==
  ASSUME NEW P, NEW cycles \in Int, NodeTypeOK, PlayerTypeOK
  PROVE  /\ Posted(P, cycles) \in [Players -> Int]
         /\ NextEvents(P, cycles) \in [Players -> Int]
BY DEF Posted, NextEvents, NodeTypeOK, PlayerTypeOK

LEMMA WakeAllTypes ==
  ASSUME NEW P, ThreadTypeOK, PlayerTypeOK, WakeAll(P)
  PROVE  ThreadTypeOK' /\ awake' \in [Players -> BOOLEAN]
BY StopTypes DEF WakeAll, PlayerTypeOK

LEMMA UseTypes ==
  ASSUME NEW p \in Players, NEW cycles \in Int, ThreadTypeOK, PlayerTypeOK, useCycles(p, cycles)
  PROVE  ThreadTypeOK' /\ awake' \in [Players -> BOOLEAN] /\ cyclesPosted' \in [Players -> Int]
<1> USE DEF useCycles, PlayerTypeOK
<1>1. ThreadTypeOK'
  BY WaitTypes DEF ThreadTypeOK
<1>2. awake' \in [Players -> BOOLEAN]
  OBVIOUS
<1>3. cyclesPosted' \in [Players -> Int]
  <2>1. cyclesPosted[p] - cycles \in Int
    OBVIOUS
  <2> QED
    BY <2>1
<1> QED
  BY <1>1, <1>2, <1>3

LEMMA UnloadTypes ==
  ASSUME NEW p \in Players, NEW times, TypeOK, Unload(p, times)
  PROVE  /\ attachedMulti' \in Int /\ loaded' \in [Players -> BOOLEAN]
         /\ scheduled' \in [Players -> BOOLEAN] /\ cyclesPosted' \in [Players -> Int]
         /\ nextEvent' \in [Players -> Int] /\ awake' \in [Players -> BOOLEAN]
<1> USE TypeParts, PlayersFact
<1>1. eventDiff[0] \in Int
  BY DEF NodeTypeOK
<1>2. attachedMulti' \in Int
  BY DEF Unload, CableTypeOK
<1>3. loaded' \in [Players -> BOOLEAN] /\ scheduled' \in [Players -> BOOLEAN]
  BY DEF Unload, NodeTypeOK
<1>4. cyclesPosted' \in [Players -> Int]
  <2> DEFINE c == (IF p = 0 THEN eventDiff[0] ELSE 0)
                  + (IF p = 0 /\ times = 2 THEN eventDiff[0] ELSE 0)
             freed == IF p = 0 THEN Attached \ {0} ELSE {p}
  <2>1. c \in Int
    BY <1>1
  <2>2. cyclesPosted' = Posted(freed, c)
    BY DEF Unload
  <2> HIDE DEF c, freed
  <2> QED
    BY <2>1, <2>2, PostTypes
<1>5. nextEvent' = nextEvent \/ \E P : nextEvent' = NextEvents(P, eventDiff[0])
  BY DEF Unload
<1>6. awake' \in [Players -> BOOLEAN]
  BY DEF Unload, PlayerTypeOK
<1> QED
  BY <1>1, <1>2, <1>3, <1>4, <1>5, <1>6, PostTypes DEF NodeTypeOK

LEMMA InitTypes == Init => TypeOK
<1> SUFFICES ASSUME Init PROVE TypeOK
  OBVIOUS
<1> USE PlayersFact DEF Init
<1>1. session \in Sessions /\ attached \in 1 .. N
  BY SessionsAssumption
<1>2. Nothing \in Received
  BY DEF Nothing, Received, None
<1>3. CableTypeOK
  BY <1>1, <1>2 DEF CableTypeOK, Phases
<1>4. NodeTypeOK
  <2>1. PICK b \in BOOLEAN : transferFinished = [p \in Players |-> b]
    OBVIOUS
  <2>2. transferFinished \in [Players -> BOOLEAN]
    BY <2>1
  <2>3. /\ loaded \in [Players -> BOOLEAN] /\ multi \in [Players -> BOOLEAN]
        /\ scheduled \in [Players -> BOOLEAN] /\ ready \in BOOLEAN
    OBVIOUS
  <2>4. nextEvent \in [Players -> Int] /\ eventDiff \in [Players -> Nat]
    OBVIOUS
  <2>5. received \in [Players -> Received]
    BY <1>2
  <2> QED
    BY <2>2, <2>3, <2>4, <2>5 DEF NodeTypeOK
<1>5. PlayerTypeOK
  <2>1. awake \in [Players -> BOOLEAN] /\ waitMask \subseteq Slaves
    OBVIOUS
  <2>2. cyclesPosted \in [Players -> Int]
    OBVIOUS
  <2> QED
    BY <2>1, <2>2 DEF PlayerTypeOK
<1>6. CpuTypeOK
  <2>1. thread \in [Players -> ThreadStates] /\ savedState \in [Players -> ThreadStates]
    BY DEF ThreadStates
  <2>2. /\ pc \in [Players -> {"core", "wait", "signal", "post", "act", "use", "count"}]
        /\ seen \in [Players -> Phases] /\ aborted \in BOOLEAN
    BY DEF Phases
  <2>3. count \in [Players -> Int]
    OBVIOUS
  <2> QED
    BY <2>1, <2>2, <2>3 DEF CpuTypeOK
<1> QED
  BY <1>3, <1>4, <1>5, <1>6, TypeParts

\* The cable event of the master.
LEMMA MasterTypes ==
  TypeOK /\ (FiresAlone \/ MasterFires \/ MasterWaits \/ MasterSignals \/ MasterPosts) => TypeOK'
<1> SUFFICES ASSUME TypeOK, FiresAlone \/ MasterFires \/ MasterWaits \/ MasterSignals \/ MasterPosts
             PROVE  CableTypeOK' /\ NodeTypeOK' /\ PlayerTypeOK' /\ CpuTypeOK'
  BY DEF TypeOK, CableTypeOK, NodeTypeOK, PlayerTypeOK, CpuTypeOK
<1> USE TypeParts, PlayersFact DEF cable, node, playerVars, cpu
<1>1. CASE FiresAlone
  BY <1>1 DEF FiresAlone, CableTypeOK, NodeTypeOK, PlayerTypeOK, CpuTypeOK
<1>2. CASE MasterFires
  <2>1. PICK late \in Lateness :
          LET left == nextEvent[0] - late
          IN  \/ NotYet(0, left)
              \/ /\ MasterPhase(left)
                 /\ UNCHANGED <<session, attached, attachedMulti, loaded, multi, scheduled,
                                eventDiff, playerVars, thread, savedState, seen, count, aborted>>
    BY <1>2 DEF MasterFires
  <2> DEFINE left == nextEvent[0] - late
  <2>2. left \in Int
    BY CyclesAssumption DEF Lateness, NodeTypeOK
  <2> HIDE DEF left
  <2>3. CASE NotYet(0, left)
    BY <2>2, <2>3 DEF NotYet, CableTypeOK, NodeTypeOK, PlayerTypeOK, CpuTypeOK
  <2>4. CASE /\ MasterPhase(left)
             /\ UNCHANGED <<session, attached, attachedMulti, loaded, multi, scheduled,
                            eventDiff, playerVars, thread, savedState, seen, count, aborted>>
    <3> USE <2>4 DEF MasterPhase
    <3>1. PICK cycles \in Int : nextEvent' = [nextEvent EXCEPT ![0] = left + cycles]
      BY CyclesAssumption
    <3>2. Nothing \in Received /\ \A d \in Data : [multiRecv EXCEPT ![0] = d] \in Received
      BY DEF Nothing, Received, None, CableTypeOK
    <3>3. CableTypeOK'
      <4>1. multiRecv' \in Received
        BY <3>2 DEF CableTypeOK
      <4> QED
        BY <4>1 DEF CableTypeOK, Phases
    <3>4. nextEvent' \in [Players -> Int]
      BY <2>2, <3>1 DEF NodeTypeOK
    <3>5. transferFinished' \in [Players -> BOOLEAN] /\ received' \in [Players -> Received]
      BY DEF NodeTypeOK, CableTypeOK, _finishTransfer
    <3>6. ready' \in BOOLEAN
      BY DEF NodeTypeOK
    <3>7. NodeTypeOK'
      BY <3>4, <3>5, <3>6 DEF NodeTypeOK
    <3>8. PlayerTypeOK' /\ CpuTypeOK'
      BY DEF PlayerTypeOK, CpuTypeOK
    <3> QED
      BY <3>3, <3>7, <3>8
  <2> QED
    BY <2>1, <2>3, <2>4 DEF left
<1>3. CASE MasterWaits
  <2>1. CableTypeOK' /\ NodeTypeOK'
    BY <1>3 DEF MasterWaits, CableTypeOK, NodeTypeOK
  <2>2. /\ ThreadTypeOK' /\ aborted' \in BOOLEAN
        /\ awake' \in [Players -> BOOLEAN] /\ waitMask' \subseteq Slaves
    BY <1>3, MasterWaitTypes DEF MasterWaits, CableTypeOK, PlayerTypeOK, CpuTypeOK, ThreadTypeOK
  <2> QED
    BY <1>3, <2>1, <2>2 DEF MasterWaits, PlayerTypeOK, CpuTypeOK, ThreadTypeOK
<1>4. CASE MasterSignals
  <2>1. CableTypeOK' /\ NodeTypeOK'
    BY <1>4 DEF MasterSignals, CableTypeOK, NodeTypeOK
  <2>2. ThreadTypeOK' /\ awake' \in [Players -> BOOLEAN] /\ waitMask' \subseteq Slaves
    BY <1>4, SignalTypes DEF MasterSignals, PlayerTypeOK, CpuTypeOK, ThreadTypeOK
  <2> QED
    BY <1>4, <2>1, <2>2 DEF MasterSignals, PlayerTypeOK, CpuTypeOK, ThreadTypeOK
<1>5. CASE MasterPosts
  <2> DEFINE driven == {p \in Attached \ {0} : loaded[p] = loaded[0]}
             woken == NextEvents(driven, eventDiff[0])
             due == transferActive \notin {"STARTED", "FINISHED"} /\ nextEvent[0] > 0
  <2>1. eventDiff[0] \in Int /\ nextEvent[0] \in Int
    BY DEF NodeTypeOK
  <2>2. woken \in [Players -> Int] /\ cyclesPosted' \in [Players -> Int]
    BY <1>5, <2>1, PostTypes DEF MasterPosts
  <2>3. ThreadTypeOK' /\ awake' \in [Players -> BOOLEAN]
    BY <1>5, WakeAllTypes DEF MasterPosts, CpuTypeOK, ThreadTypeOK
  <2>4. /\ nextEvent' = IF due THEN [woken EXCEPT ![0] = 0] ELSE woken
        /\ eventDiff' = [eventDiff EXCEPT ![0] = IF due THEN nextEvent[0] ELSE 0]
    BY <1>5 DEF MasterPosts
  <2> HIDE DEF woken, driven
  <2>5. nextEvent' \in [Players -> Int] /\ eventDiff' \in [Players -> Nat]
    BY <2>1, <2>2, <2>4 DEF NodeTypeOK
  <2>6. CableTypeOK' /\ NodeTypeOK'
    BY <1>5, <2>5 DEF MasterPosts, CableTypeOK, NodeTypeOK
  <2>7. PlayerTypeOK' /\ CpuTypeOK'
    BY <1>5, <2>2, <2>3 DEF MasterPosts, PlayerTypeOK, CpuTypeOK, ThreadTypeOK
  <2> QED
    BY <2>6, <2>7
<1> QED
  BY <1>1, <1>2, <1>3, <1>4, <1>5

\* The cable event of a slave, and the counting of a player.
LEMMA SlaveTypes ==
  ASSUME NEW p \in Players
  PROVE  TypeOK /\ (SlaveFires(p) \/ SlaveActs(p) \/ SlaveUses(p) \/ LoadCounted(p)) => TypeOK'
<1> SUFFICES ASSUME TypeOK, SlaveFires(p) \/ SlaveActs(p) \/ SlaveUses(p) \/ LoadCounted(p)
             PROVE  CableTypeOK' /\ NodeTypeOK' /\ PlayerTypeOK' /\ CpuTypeOK'
  BY DEF TypeOK, CableTypeOK, NodeTypeOK, PlayerTypeOK, CpuTypeOK
<1> USE TypeParts, PlayersFact DEF cable, node, playerVars, cpu
<1>1. CASE SlaveFires(p)
  <2>1. PICK late \in Lateness :
          LET left == nextEvent[p] - late
          IN  \/ NotYet(p, left)
              \/ /\ nextEvent' = [nextEvent EXCEPT ![p] = left]
                 /\ seen' = [seen EXCEPT ![p] = transferActive]
                 /\ \E place \in {"use", "act"} : pc' = [pc EXCEPT ![p] = place]
                 /\ UNCHANGED <<session, cable, loaded, multi, scheduled, eventDiff, ready,
                                transferFinished, received, playerVars, thread, savedState,
                                count, aborted>>
    BY <1>1 DEF SlaveFires
  <2> DEFINE left == nextEvent[p] - late
  <2>2. left \in Int
    BY CyclesAssumption DEF Lateness, NodeTypeOK
  <2> HIDE DEF left
  <2>3. CASE NotYet(p, left)
    BY <2>2, <2>3 DEF NotYet, CableTypeOK, NodeTypeOK, PlayerTypeOK, CpuTypeOK
  <2>4. CASE /\ nextEvent' = [nextEvent EXCEPT ![p] = left]
             /\ seen' = [seen EXCEPT ![p] = transferActive]
             /\ \E place \in {"use", "act"} : pc' = [pc EXCEPT ![p] = place]
             /\ UNCHANGED <<session, cable, loaded, multi, scheduled, eventDiff, ready,
                            transferFinished, received, playerVars, thread, savedState,
                            count, aborted>>
    <3>1. CableTypeOK' /\ NodeTypeOK' /\ PlayerTypeOK'
      BY <2>2, <2>4 DEF CableTypeOK, NodeTypeOK, PlayerTypeOK
    <3>2. pc' \in [Players -> {"core", "wait", "signal", "post", "act", "use", "count"}]
      BY <2>4 DEF CpuTypeOK
    <3>3. seen' \in [Players -> Phases]
      BY <2>4 DEF CpuTypeOK, CableTypeOK
    <3> QED
      BY <2>4, <3>1, <3>2, <3>3 DEF CpuTypeOK
  <2> QED
    BY <2>1, <2>3, <2>4 DEF left
<1>2. CASE SlaveActs(p)
  <2> USE <1>2 DEF SlaveActs
  <2>1. cyclesPosted' \in [Players -> Int]
    <3>1. cyclesPosted[p] + Increment \in Int
      BY CyclesAssumption DEF PlayerTypeOK
    <3> QED
      BY <3>1 DEF PlayerTypeOK
  <2>2. UNCHANGED <<waitMask, awake, thread>> \/ signal({p})
    OBVIOUS
  <2>3. ThreadTypeOK' /\ awake' \in [Players -> BOOLEAN] /\ waitMask' \subseteq Slaves
    BY <2>2, SignalTypes DEF PlayerTypeOK, CpuTypeOK, ThreadTypeOK
  <2>4. Nothing \in Received /\ multiRecv \in Received /\ \A d \in Data : [multiRecv EXCEPT ![p] = d] \in Received
    BY DEF Nothing, Received, None, CableTypeOK
  <2>5. multiRecv' \in Received
    BY <2>4
  <2>6. received' \in [Players -> Received] /\ transferFinished' \in [Players -> BOOLEAN]
    BY <2>4 DEF _finishTransfer, NodeTypeOK
  <2>7. CableTypeOK' /\ NodeTypeOK'
    BY <2>5, <2>6 DEF CableTypeOK, NodeTypeOK
  <2>8. PlayerTypeOK' /\ CpuTypeOK'
    BY <2>1, <2>3 DEF PlayerTypeOK, CpuTypeOK, ThreadTypeOK, Phases
  <2> QED
    BY <2>7, <2>8
<1>3. CASE SlaveUses(p)
  <2>1. eventDiff[p] \in Int /\ cyclesPosted[p] - eventDiff[p] \in Int
    BY DEF NodeTypeOK, PlayerTypeOK
  <2>2. ThreadTypeOK' /\ awake' \in [Players -> BOOLEAN] /\ cyclesPosted' \in [Players -> Int]
    BY <1>3, <2>1, UseTypes DEF SlaveUses, CpuTypeOK, ThreadTypeOK
  <2>3. eventDiff' \in [Players -> Nat] /\ nextEvent' \in [Players -> Int]
    BY <1>3, <2>1 DEF SlaveUses, NodeTypeOK
  <2>4. CableTypeOK' /\ NodeTypeOK'
    BY <1>3, <2>3 DEF SlaveUses, CableTypeOK, NodeTypeOK
  <2>5. PlayerTypeOK' /\ CpuTypeOK'
    BY <1>3, <2>2 DEF SlaveUses, PlayerTypeOK, CpuTypeOK, ThreadTypeOK
  <2> QED
    BY <2>4, <2>5
<1>4. CASE LoadCounted(p)
  <2>1. count[p] + 1 \in Int
    BY DEF CpuTypeOK
  <2>2. CableTypeOK' /\ NodeTypeOK'
    BY <1>4, <2>1 DEF LoadCounted, CableTypeOK, NodeTypeOK
  <2>3. PlayerTypeOK' /\ CpuTypeOK'
    BY <1>4 DEF LoadCounted, PlayerTypeOK, CpuTypeOK
  <2> QED
    BY <2>2, <2>3
<1> QED
  BY <1>1, <1>2, <1>3, <1>4

\* What the games do.
LEMMA GameTypes == ASSUME NEW p \in Players PROVE TypeOK /\ Game(p) => TypeOK'
<1> SUFFICES ASSUME TypeOK, Game(p)
             PROVE  CableTypeOK' /\ NodeTypeOK' /\ PlayerTypeOK' /\ CpuTypeOK'
  BY DEF TypeOK, CableTypeOK, NodeTypeOK, PlayerTypeOK, CpuTypeOK
<1> USE TypeParts, PlayersFact DEF cable, node, playerVars, cpu
<1>1. CASE GBASIOLockstepNodeMultiWriteRegister
  BY <1>1 DEF GBASIOLockstepNodeMultiWriteRegister, CableTypeOK, NodeTypeOK, PlayerTypeOK,
              CpuTypeOK, Phases
<1>2. CASE GBASIOLockstepNodeLoad(p)
  <2> USE <1>2 DEF GBASIOLockstepNodeLoad
  <2>1. CableTypeOK' /\ PlayerTypeOK'
    BY DEF CableTypeOK, PlayerTypeOK
  <2>2. NodeTypeOK'
    BY DEF NodeTypeOK
  <2>3. CpuTypeOK'
    BY DEF CpuTypeOK, CableTypeOK
  <2> QED
    BY <2>1, <2>2, <2>3
<1>3. CASE GBASIOLockstepNodeUnload(p)
  <2> USE <1>3 DEF GBASIOLockstepNodeUnload
  <2>1. ThreadTypeOK'
    BY StopTypes DEF CpuTypeOK, ThreadTypeOK
  <2>2. CableTypeOK' /\ NodeTypeOK' /\ PlayerTypeOK'
    BY UnloadTypes DEF CableTypeOK, NodeTypeOK, PlayerTypeOK
  <2>3. CpuTypeOK'
    BY <2>1 DEF CpuTypeOK, ThreadTypeOK
  <2> QED
    BY <2>2, <2>3
<1> QED
  BY <1>1, <1>2, <1>3 DEF Game

\* What the user does to a CPU thread.
LEMMA UserTypes == ASSUME NEW p \in Players PROVE TypeOK /\ User(p) => TypeOK'
<1> SUFFICES ASSUME TypeOK, User(p)
             PROVE  CableTypeOK' /\ NodeTypeOK' /\ PlayerTypeOK' /\ CpuTypeOK'
  BY DEF TypeOK, CableTypeOK, NodeTypeOK, PlayerTypeOK, CpuTypeOK
<1> USE TypeParts, PlayersFact DEF cable, node, playerVars
<1>1. CASE GBASIOReset(p)
  <2>1. multi' \in [Players -> BOOLEAN] /\ scheduled' \in [Players -> BOOLEAN]
        /\ attachedMulti' \in Int /\ loaded' \in [Players -> BOOLEAN]
        /\ cyclesPosted' \in [Players -> Int] /\ nextEvent' \in [Players -> Int]
        /\ awake' \in [Players -> BOOLEAN]
    BY <1>1, UnloadTypes DEF GBASIOReset, CableTypeOK, NodeTypeOK, PlayerTypeOK
  <2>2. thread' \in [Players -> ThreadStates]
    BY <1>1 DEF GBASIOReset, CpuTypeOK, ThreadStates
  <2> QED
    BY <1>1, <2>1, <2>2 DEF GBASIOReset, CableTypeOK, NodeTypeOK, PlayerTypeOK, CpuTypeOK
<1>2. CASE ~GBASIOReset(p)
  <2>1. /\ UNCHANGED <<session, cable, node, playerVars, pc, seen, count, aborted>>
        /\ savedState' \in [Players -> ThreadStates]
        /\ \E state \in ThreadStates : thread' = [thread EXCEPT ![p] = state]
    BY <1>2 DEF User, mCoreThreadRunFunction, FunctionRun, mCoreThreadPause, Paused,
       mCoreThreadUnpause, mCoreThreadReset, Request, Noticed, ThreadStates, CpuTypeOK
  <2> QED
    BY <2>1 DEF CableTypeOK, NodeTypeOK, PlayerTypeOK, CpuTypeOK
<1> QED
  BY <1>1, <1>2

LEMMA StepTypes == TypeOK /\ [Next]_vars => TypeOK'
<1> SUFFICES ASSUME TypeOK, [Next]_vars PROVE TypeOK'
  OBVIOUS
<1>1. CASE UNCHANGED vars
  BY <1>1, TypeParts
     DEF vars, cable, node, playerVars, cpu, TypeOK, CableTypeOK, NodeTypeOK, PlayerTypeOK, CpuTypeOK
<1>2. CASE GBASIOLockstepAttachNode
  <2>1. attached' \in 1 .. N
    BY <1>2, NAssumption, SessionsAssumption DEF GBASIOLockstepAttachNode, TypeOK
  <2> QED
    BY <1>2, <2>1 DEF GBASIOLockstepAttachNode, node, playerVars, cpu, TypeOK
<1>3. ASSUME NEW p \in Players, CableEvent(p) PROVE TypeOK'
  BY <1>3, MasterTypes, SlaveTypes DEF CableEvent
<1>4. ASSUME NEW p \in Players, Game(p) \/ User(p) PROVE TypeOK'
  BY <1>4, GameTypes, UserTypes
<1> QED
  BY <1>1, <1>2, <1>3, <1>4 DEF Next

\* The variables keep their domains, with any number of players.
THEOREM TypesOK == Spec => []TypeOK
BY InitTypes, StepTypes, PTL DEF Spec

-----------------------------------------------------------------------------
(* A thread told to wait is marked asleep                                  *)

\* No function runs, nobody pauses, and who waits is marked asleep.
WaitersOK ==
    /\ thread \in [Players -> {"running", "waiting", "reseting"}]
    /\ ToldToContinue
WaitersIInv == "stop" \notin allow => WaitersOK

LEMMA SignalKeepsWaiters ==
  ASSUME NEW mask, PlayerTypeOK, WaitersOK, signal(mask) PROVE WaitersOK'
BY DEF signal, StopWaiting, WaitersOK, ToldToContinue, PlayerTypeOK

LEMMA WaitKeepsWaiters == ASSUME NEW mask, PlayerTypeOK, WaitersOK, wait(mask) PROVE WaitersOK'
BY PlayersFact DEF wait, WaitFromThread, WaitersOK, ToldToContinue, PlayerTypeOK

LEMMA WakeAllKeepsWaiters == ASSUME NEW P, PlayerTypeOK, WaitersOK, WakeAll(P) PROVE WaitersOK'
BY DEF WakeAll, StopWaiting, WaitersOK, ToldToContinue, PlayerTypeOK

LEMMA UseKeepsWaiters ==
  ASSUME NEW p \in Players, NEW cycles, PlayerTypeOK, WaitersOK, useCycles(p, cycles)
  PROVE  WaitersOK'
BY DEF useCycles, WaitFromThread, WaitersOK, ToldToContinue, PlayerTypeOK

\* Only the user's calls start anything but a reset, and the session stays.
LEMMA SessionStays == [Next]_vars => UNCHANGED session
<1> SUFFICES ASSUME Next PROVE UNCHANGED session
  BY DEF vars
<1>1. CASE GBASIOLockstepAttachNode
  BY <1>1 DEF GBASIOLockstepAttachNode
<1>2. ASSUME NEW p \in Players, CableEvent(p) PROVE UNCHANGED session
  BY <1>2 DEF CableEvent, FiresAlone, MasterFires, NotYet, MasterWaits, MasterSignals, MasterPosts,
              SlaveFires, SlaveActs, SlaveUses, LoadCounted
<1>3. ASSUME NEW p \in Players, Game(p) PROVE UNCHANGED session
  BY <1>3 DEF Game, GBASIOLockstepNodeMultiWriteRegister, GBASIOLockstepNodeLoad, GBASIOLockstepNodeUnload
<1>4. ASSUME NEW p \in Players, User(p) PROVE UNCHANGED session
  BY <1>4 DEF User, mCoreThreadRunFunction, FunctionRun, mCoreThreadPause, Paused,
              mCoreThreadUnpause, mCoreThreadReset, GBASIOReset, Request, Noticed
<1> QED
  BY <1>1, <1>2, <1>3, <1>4 DEF Next

\* The calls between the players keep a waiting player marked asleep.
LEMMA CableEventWaiters ==
  ASSUME NEW p \in Players PROVE TypeOK /\ WaitersOK /\ CableEvent(p) => WaitersOK'
<1> SUFFICES ASSUME TypeOK, WaitersOK, CableEvent(p) PROVE WaitersOK'
  OBVIOUS
<1>0. PlayerTypeOK
  BY TypeParts
<1>1. CASE UNCHANGED <<thread, awake>>
  BY <1>1 DEF WaitersOK, ToldToContinue
<1>2. CASE FiresAlone \/ MasterFires \/ SlaveFires(p) \/ LoadCounted(p)
  <2>1. UNCHANGED <<thread, awake>>
    BY <1>2 DEF FiresAlone, MasterFires, NotYet, SlaveFires, LoadCounted, playerVars, cpu
  <2> QED
    BY <1>1, <2>1
<1>3. CASE MasterWaits \/ MasterSignals
  <2>1. UNCHANGED <<thread, awake>> \/ wait(Mask) \/ signal(Mask)
    BY <1>3 DEF MasterWaits, MasterSignals
  <2> QED
    BY <1>0, <1>1, <2>1, WaitKeepsWaiters, SignalKeepsWaiters
<1>4. CASE MasterPosts
  BY <1>0, <1>4, WakeAllKeepsWaiters DEF MasterPosts
<1>5. CASE SlaveActs(p)
  <2>1. UNCHANGED <<thread, awake>> \/ signal({p})
    BY <1>5 DEF SlaveActs
  <2> QED
    BY <1>0, <1>1, <2>1, SignalKeepsWaiters
<1>6. CASE SlaveUses(p)
  BY <1>0, <1>6, UseKeepsWaiters DEF SlaveUses
<1> QED
  BY <1>2, <1>3, <1>4, <1>5, <1>6 DEF CableEvent

LEMMA StepWaitersIInv == TypeOK /\ WaitersIInv /\ [Next]_vars => WaitersIInv'
<1> SUFFICES ASSUME TypeOK, WaitersIInv, [Next]_vars, "stop" \notin allow PROVE WaitersOK'
  BY SessionStays DEF WaitersIInv, allow
<1>0. WaitersOK /\ awake \in [Players -> BOOLEAN]
  BY DEF WaitersIInv, TypeOK
<1>1. CASE UNCHANGED vars \/ GBASIOLockstepAttachNode
  BY <1>0, <1>1 DEF vars, cpu, playerVars, GBASIOLockstepAttachNode, WaitersOK, ToldToContinue
<1>2. ASSUME NEW p \in Players, CableEvent(p) PROVE WaitersOK'
  BY <1>0, <1>2, CableEventWaiters
<1>3. ASSUME NEW p \in Players, Game(p) PROVE WaitersOK'
  <2>1. CASE GBASIOLockstepNodeMultiWriteRegister \/ GBASIOLockstepNodeLoad(p)
    BY <1>0, <2>1 DEF GBASIOLockstepNodeMultiWriteRegister, GBASIOLockstepNodeLoad, cpu, playerVars,
                      WaitersOK, ToldToContinue
  <2>2. CASE GBASIOLockstepNodeUnload(p)
    BY <1>0, <2>2 DEF GBASIOLockstepNodeUnload, Unload, StopWaiting, WaitersOK, ToldToContinue
  <2> QED
    BY <1>3, <2>1, <2>2 DEF Game
<1>4. ASSUME NEW p \in Players, User(p) PROVE WaitersOK'
  <2>1. CASE GBASIOReset(p)
    BY <1>0, <2>1 DEF GBASIOReset, Unload, WaitersOK, ToldToContinue
  <2>2. CASE ~GBASIOReset(p)
    <3>1. mCoreThreadReset(p)
      BY <1>0, <1>4, <2>2 DEF User, mCoreThreadRunFunction, FunctionRun, mCoreThreadPause, Paused,
                              mCoreThreadUnpause, Noticed, Request, WaitersOK
    <3> QED
      BY <1>0, <3>1 DEF mCoreThreadReset, Request, playerVars, WaitersOK, ToldToContinue
  <2> QED
    BY <2>1, <2>2
<1> QED
  BY <1>1, <1>2, <1>3, <1>4 DEF Next

\* As long as no function runs on a player's thread, a thread that has been told to
\* wait is asleep in the books of MultiplayerController, whose next post or signal
\* for it wakes it.
THEOREM WaitersStayKnown == Spec => []WaitersAreKnown
<1>1. Init => WaitersIInv
  BY PlayersFact DEF Init, WaitersIInv, WaitersOK, ToldToContinue
<1>2. WaitersIInv => WaitersAreKnown
  BY DEF WaitersIInv, WaitersOK, WaitersAreKnown
<1> QED
  BY <1>1, <1>2, StepWaitersIInv, TypesOK, PTL DEF Spec

-----------------------------------------------------------------------------
(* A slave never runs ahead                                                *)

\* What a slave has scheduled fits in its cycles; a sleeping one has nothing
\* scheduled, is out of its event and does not run the core; and while it is in its
\* event it is in multiplayer mode and the event was due.
Bounded(p) ==
    /\ pc[p] \in {"core", "act", "use", "count"}
    /\ eventDiff[p] <= cyclesPosted[p]
    /\ eventDiff[p] + nextEvent[p] <= cyclesPosted[p]
    /\ scheduled[p] => loaded[p]
    /\ pc[p] \in {"act", "use"} => nextEvent[p] <= 0 /\ loaded[p]
    /\ ~awake[p] => /\ pc[p] = "core" /\ thread[p] \in {"waiting", "reseting"}
                    /\ loaded[p] /\ nextEvent[p] <= 0 /\ eventDiff[p] = 0

AheadIInv == "stop" \notin allow => \A p \in Slaves : Bounded(p)

\* What Bounded looks at.
SlaveState(p) == <<pc[p], thread[p], awake[p], loaded[p], scheduled[p], nextEvent[p], eventDiff[p],
                   cyclesPosted[p]>>

LEMMA SameBounded ==
  ASSUME NEW p \in Slaves, Bounded(p), SlaveState(p)' = SlaveState(p) PROVE Bounded(p)'
BY DEF Bounded, SlaveState

\* A slave leaves the other slaves alone.
LEMMA OtherSlave ==
  ASSUME NEW p \in Slaves, NEW q \in Slaves, p # q, TypeOK,
         CableEvent(q) \/ Game(q) \/ User(q)
  PROVE  SlaveState(p)' = SlaveState(p)
<1> USE PlayersFact DEF SlaveState
<1>0. NodeTypeOK /\ PlayerTypeOK /\ CpuTypeOK
  BY TypeParts
<1>1. CASE CableEvent(q)
  <2>1. CASE SlaveFires(q)
    BY <1>0, <2>1 DEF SlaveFires, NotYet, cpu, playerVars, NodeTypeOK, CpuTypeOK
  <2>2. CASE SlaveActs(q)
    <3>1. /\ UNCHANGED <<loaded, scheduled, nextEvent, eventDiff>> /\ pc'[p] = pc[p]
          /\ cyclesPosted'[p] = cyclesPosted[p]
      BY <1>0, <2>2 DEF SlaveActs, PlayerTypeOK, CpuTypeOK
    <3>2. UNCHANGED <<thread, awake>> \/ signal({q})
      BY <2>2 DEF SlaveActs
    <3>3. thread'[p] = thread[p] /\ awake'[p] = awake[p]
      BY <1>0, <3>2 DEF signal, StopWaiting, PlayerTypeOK, CpuTypeOK
    <3> QED
      BY <3>1, <3>3
  <2>3. CASE SlaveUses(q)
    BY <1>0, <2>3 DEF SlaveUses, useCycles, WaitFromThread, NodeTypeOK, PlayerTypeOK, CpuTypeOK
  <2>4. CASE LoadCounted(q)
    BY <1>0, <2>4 DEF LoadCounted, playerVars, CpuTypeOK
  <2> QED
    BY <1>1, <2>1, <2>2, <2>3, <2>4 DEF CableEvent
<1>2. CASE Game(q)
  <2>1. CASE GBASIOLockstepNodeLoad(q)
    BY <1>0, <2>1 DEF GBASIOLockstepNodeLoad, playerVars, NodeTypeOK, CpuTypeOK
  <2>2. CASE GBASIOLockstepNodeUnload(q)
    BY <1>0, <2>2 DEF GBASIOLockstepNodeUnload, Unload, StopWaiting, Posted, NodeTypeOK,
                      PlayerTypeOK, CpuTypeOK
  <2> QED
    BY <1>2, <2>1, <2>2 DEF Game
<1>3. CASE User(q)
  <2>1. CASE GBASIOReset(q)
    BY <1>0, <2>1 DEF GBASIOReset, Unload, Posted, NodeTypeOK, PlayerTypeOK, CpuTypeOK
  <2>2. CASE ~GBASIOReset(q)
    BY <1>0, <1>3, <2>2 DEF User, mCoreThreadRunFunction, FunctionRun, mCoreThreadPause, Paused,
       mCoreThreadUnpause, mCoreThreadReset, Request, Noticed, node, playerVars, CpuTypeOK
  <2> QED
    BY <2>1, <2>2
<1> QED
  BY <1>1, <1>2, <1>3

\* Posting cycles to a set of players and waking those of them that sleep.
LEMMA PostBounded ==
  ASSUME NEW p \in Slaves, NEW P, NEW cycles \in Nat, NEW more \in Nat, TypeOK, Bounded(p),
         cyclesPosted'[p] = IF p \in P THEN cyclesPosted[p] + cycles + more ELSE cyclesPosted[p],
         nextEvent'[p] = NextEvents(P, cycles)[p],
         awake'[p] <=> awake[p] \/ p \in P,
         pc'[p] = pc[p], loaded'[p] = loaded[p], scheduled'[p] = scheduled[p],
         eventDiff'[p] = eventDiff[p],
         p \notin P => thread'[p] = thread[p]
  PROVE  Bounded(p)'
<1>1. /\ cyclesPosted[p] \in Int /\ nextEvent[p] \in Int /\ eventDiff[p] \in Nat
      /\ awake[p] \in BOOLEAN /\ p \in Players
  BY PlayersFact DEF TypeOK
<1>2. nextEvent'[p] = IF p \in P /\ ~awake[p] THEN nextEvent[p] + cyclesPosted[p] + cycles
                                              ELSE nextEvent[p]
  BY <1>1 DEF NextEvents
<1>3. CASE p \in P /\ ~awake[p]
  <2>1. /\ nextEvent'[p] = nextEvent[p] + cyclesPosted[p] + cycles
        /\ cyclesPosted'[p] = cyclesPosted[p] + cycles + more
    BY <1>2, <1>3
  <2>2. /\ pc[p] = "core" /\ nextEvent[p] <= 0 /\ eventDiff[p] = 0 /\ 0 <= cyclesPosted[p]
        /\ scheduled[p] => loaded[p]
    BY <1>1, <1>3 DEF Bounded
  <2>3. 0 <= cyclesPosted'[p] /\ 0 + nextEvent'[p] <= cyclesPosted'[p]
    BY <1>1, <2>1, <2>2
  <2> QED
    BY <1>1, <1>3, <2>2, <2>3 DEF Bounded
<1>4. CASE p \in P /\ awake[p]
  <2>1. nextEvent'[p] = nextEvent[p] /\ cyclesPosted'[p] = cyclesPosted[p] + cycles + more
    BY <1>2, <1>4
  <2>2. /\ eventDiff[p] <= cyclesPosted'[p]
        /\ eventDiff[p] + nextEvent[p] <= cyclesPosted'[p]
    BY <1>1, <2>1 DEF Bounded
  <2> QED
    BY <1>1, <1>4, <2>1, <2>2 DEF Bounded
<1>5. CASE p \notin P
  BY <1>1, <1>2, <1>5 DEF Bounded
<1> QED
  BY <1>1, <1>3, <1>4, <1>5

\* The master wakes slaves and posts cycles to them, and changes nothing else of theirs.
LEMMA MasterBounded ==
  ASSUME NEW p \in Slaves, TypeOK, Bounded(p), CableEvent(0) \/ Game(0) \/ User(0)
  PROVE  Bounded(p)'
<1> USE PlayersFact DEF SlaveState
<1>0. NodeTypeOK /\ PlayerTypeOK /\ CpuTypeOK
  BY TypeParts
<1>1. CASE FiresAlone \/ MasterFires \/ LoadCounted(0)
  <2>1. SlaveState(p)' = SlaveState(p)
    BY <1>0, <1>1 DEF FiresAlone, MasterFires, MasterPhase, NotYet, LoadCounted, cpu, playerVars,
                      NodeTypeOK, CpuTypeOK
  <2> QED
    BY <2>1, SameBounded
<1>2. CASE MasterWaits \/ MasterSignals
  <2>1. /\ UNCHANGED <<node, cyclesPosted>> /\ pc'[p] = pc[p]
        /\ UNCHANGED <<thread, awake>> \/ wait(Mask) \/ signal(Mask)
    BY <1>0, <1>2 DEF MasterWaits, MasterSignals, CpuTypeOK
  <2>2. thread'[p] = thread[p] /\ awake'[p] = awake[p]
    BY <1>0, <2>1 DEF wait, WaitFromThread, signal, StopWaiting, PlayerTypeOK, CpuTypeOK
  <2>3. SlaveState(p)' = SlaveState(p)
    BY <2>1, <2>2 DEF node
  <2> QED
    BY <2>3, SameBounded
<1>3. CASE MasterPosts
  <2> DEFINE driven == {q \in Attached \ {0} : loaded[q] = loaded[0]}
             woken == NextEvents(driven, eventDiff[0])
  <2>1. eventDiff[0] \in Nat /\ cyclesPosted[p] \in Int
    BY <1>0 DEF NodeTypeOK, PlayerTypeOK
  <2>2. woken \in [Players -> Int]
    BY <1>0, <2>1, PostTypes
  <2>3. /\ cyclesPosted' = Posted(driven, eventDiff[0]) /\ WakeAll(driven)
        /\ nextEvent' = woken \/ nextEvent' = [woken EXCEPT ![0] = 0]
        /\ eventDiff'[p] = eventDiff[p] /\ pc'[p] = pc[p] /\ UNCHANGED <<loaded, scheduled>>
    BY <1>0, <1>3 DEF MasterPosts, NodeTypeOK, CpuTypeOK
  <2> HIDE DEF driven, woken
  <2>4. nextEvent'[p] = woken[p]
    BY <2>2, <2>3
  <2>5. /\ cyclesPosted'[p] = IF p \in driven THEN cyclesPosted[p] + eventDiff[0] + 0
                                              ELSE cyclesPosted[p]
        /\ awake'[p] <=> awake[p] \/ p \in driven
        /\ p \notin driven => thread'[p] = thread[p]
    <3>1. cyclesPosted'[p] = IF p \in driven THEN cyclesPosted[p] + eventDiff[0] ELSE cyclesPosted[p]
      BY <2>3 DEF Posted
    <3>2. awake'[p] <=> awake[p] \/ p \in driven
      BY <2>3 DEF WakeAll
    <3>3. p \notin driven => thread'[p] = thread[p]
      BY <2>3 DEF WakeAll, StopWaiting
    <3> QED
      BY <2>1, <3>1, <3>2, <3>3
  <2> QED
    BY <2>1, <2>3, <2>4, <2>5, PostBounded DEF woken
<1>4. CASE GBASIOLockstepNodeMultiWriteRegister \/ GBASIOLockstepNodeLoad(0)
  <2>1. SlaveState(p)' = SlaveState(p)
    BY <1>0, <1>4 DEF GBASIOLockstepNodeMultiWriteRegister, GBASIOLockstepNodeLoad, cpu, playerVars,
                      NodeTypeOK, CpuTypeOK
  <2> QED
    BY <2>1, SameBounded
<1>5. ASSUME NEW times, Unload(0, times), pc'[p] = pc[p], UNCHANGED eventDiff,
             p \notin Attached => thread'[p] = thread[p]
      PROVE  Bounded(p)'
  <2> DEFINE freed == Attached \ {0}
             again == IF times = 2 THEN eventDiff[0] ELSE 0
  <2>1. eventDiff[0] \in Nat /\ again \in Nat /\ cyclesPosted[p] \in Int
    BY <1>0 DEF NodeTypeOK, PlayerTypeOK
  <2>2. /\ cyclesPosted'[p] = IF p \in freed THEN cyclesPosted[p] + eventDiff[0] + again
                                             ELSE cyclesPosted[p]
        /\ nextEvent' = NextEvents(freed, eventDiff[0])
        /\ awake'[p] <=> awake[p] \/ p \in freed
        /\ loaded'[p] = loaded[p] /\ scheduled'[p] = scheduled[p]
    <3>1. /\ cyclesPosted' = Posted(freed, eventDiff[0] + again)
          /\ nextEvent' = NextEvents(freed, eventDiff[0])
          /\ loaded'[p] = loaded[p] /\ scheduled'[p] = scheduled[p]
      BY <1>0, <1>5 DEF Unload, NodeTypeOK
    <3>2. awake'[p] <=> awake[p] \/ p \in freed
      BY <1>0, <1>5 DEF Unload, PlayerTypeOK
    <3> HIDE DEF freed, again
    <3> QED
      BY <2>1, <3>1, <3>2 DEF Posted
  <2>3. p \notin freed => thread'[p] = thread[p]
    BY <1>5
  <2> HIDE DEF freed, again
  <2> QED
    BY <1>5, <2>1, <2>2, <2>3, PostBounded
<1>6. CASE GBASIOLockstepNodeUnload(0)
  <2>1. p \notin Attached => thread'[p] = thread[p]
    BY <1>0, <1>6 DEF GBASIOLockstepNodeUnload, Unload, StopWaiting, CpuTypeOK
  <2> QED
    BY <1>5, <1>6, <2>1 DEF GBASIOLockstepNodeUnload
<1>7. CASE GBASIOReset(0)
  <2>1. CASE loaded[0]
    <3>1. p \notin Attached => thread'[p] = thread[p]
      BY <1>0, <1>7, <2>1 DEF GBASIOReset, Unload, CpuTypeOK
    <3> QED
      BY <1>5, <1>7, <2>1, <3>1 DEF GBASIOReset
  <2>2. CASE ~loaded[0]
    <3>1. SlaveState(p)' = SlaveState(p)
      BY <1>0, <1>7, <2>2 DEF GBASIOReset, NodeTypeOK, CpuTypeOK
    <3> QED
      BY <3>1, SameBounded
  <2> QED
    BY <2>1, <2>2
<1>8. CASE User(0) /\ ~GBASIOReset(0)
  <2>1. SlaveState(p)' = SlaveState(p)
    BY <1>0, <1>8 DEF User, mCoreThreadRunFunction, FunctionRun, mCoreThreadPause, Paused,
       mCoreThreadUnpause, mCoreThreadReset, Request, Noticed, node, playerVars, CpuTypeOK
  <2> QED
    BY <2>1, SameBounded
<1> QED
  BY <1>1, <1>2, <1>3, <1>4, <1>6, <1>7, <1>8 DEF CableEvent, Game

\* What a slave does itself.
LEMMA SelfBounded ==
  ASSUME NEW p \in Slaves, TypeOK, WaitersOK, "stop" \notin allow, Bounded(p),
         CableEvent(p) \/ Game(p) \/ User(p)
  PROVE  Bounded(p)'
<1> USE PlayersFact
<1>0. /\ NodeTypeOK /\ PlayerTypeOK /\ CpuTypeOK
      /\ thread \in [Players -> {"running", "waiting", "reseting"}]
  BY TypeParts DEF WaitersOK
<1>00. /\ cyclesPosted[p] \in Int /\ nextEvent[p] \in Int /\ eventDiff[p] \in Nat
       /\ 0 <= cyclesPosted[p]
  BY <1>0 DEF NodeTypeOK, PlayerTypeOK, Bounded
<1>1. CASE SlaveFires(p)
  <2>0. thread[p] = "running" /\ awake[p] /\ scheduled[p] /\ loaded[p] /\ pc[p] = "core"
    BY <1>1 DEF SlaveFires, InCore, Bounded
  <2>1. PICK late \in Lateness :
          LET left == nextEvent[p] - late
          IN  \/ NotYet(p, left)
              \/ /\ left <= 0
                 /\ nextEvent' = [nextEvent EXCEPT ![p] = left]
                 /\ \E place \in {"use", "act"} : pc' = [pc EXCEPT ![p] = place]
                 /\ UNCHANGED <<loaded, scheduled, eventDiff, playerVars, thread>>
    BY <1>1 DEF SlaveFires
  <2> DEFINE left == nextEvent[p] - late
  <2>2. left \in Int /\ left <= nextEvent[p]
    BY <1>00, CyclesAssumption DEF Lateness
  <2> HIDE DEF left
  <2>3. CASE NotYet(p, left)
    <3>1. /\ eventDiff'[p] = eventDiff[p] + left /\ nextEvent'[p] = 0
          /\ UNCHANGED <<pc, thread, awake, loaded, scheduled, cyclesPosted>>
      BY <1>0, <2>3 DEF NotYet, cpu, playerVars, NodeTypeOK
    <3>2. eventDiff[p] + left <= cyclesPosted[p]
      BY <1>00, <2>2 DEF Bounded
    <3>3. eventDiff[p] + left \in Int
      BY <1>00, <2>2
    <3> QED
      BY <1>00, <2>0, <3>1, <3>2, <3>3 DEF Bounded
  <2>4. CASE /\ left <= 0
             /\ nextEvent' = [nextEvent EXCEPT ![p] = left]
             /\ \E place \in {"use", "act"} : pc' = [pc EXCEPT ![p] = place]
             /\ UNCHANGED <<loaded, scheduled, eventDiff, playerVars, thread>>
    <3>1. /\ nextEvent'[p] = left /\ pc'[p] \in {"use", "act"}
          /\ UNCHANGED <<thread, awake, loaded, scheduled, eventDiff, cyclesPosted>>
      BY <1>0, <2>4 DEF playerVars, NodeTypeOK, CpuTypeOK
    <3>2. eventDiff[p] + left <= cyclesPosted[p] /\ eventDiff[p] <= cyclesPosted[p]
      BY <1>00, <2>2 DEF Bounded
    <3> QED
      BY <2>0, <2>4, <3>1, <3>2 DEF Bounded
  <2> QED
    BY <2>1, <2>3, <2>4 DEF left
<1>2. CASE SlaveActs(p)
  <2>0. pc[p] = "act" /\ awake[p] /\ loaded[p] /\ nextEvent[p] <= 0
    BY <1>2 DEF SlaveActs, Bounded
  <2>1. /\ UNCHANGED <<loaded, scheduled, nextEvent, eventDiff>> /\ pc'[p] = "use"
        /\ UNCHANGED <<thread, awake>> \/ signal({p})
        /\ cyclesPosted'[p] = cyclesPosted[p] \/ cyclesPosted'[p] = cyclesPosted[p] + Increment
    BY <1>0, <1>2 DEF SlaveActs, PlayerTypeOK, CpuTypeOK
  <2>2. awake'[p] = awake[p]
    BY <1>0, <2>1 DEF signal, PlayerTypeOK
  <2>3. eventDiff[p] <= cyclesPosted'[p] /\ eventDiff[p] + nextEvent[p] <= cyclesPosted'[p]
    BY <1>00, <2>1, CyclesAssumption DEF Bounded
  <2> QED
    BY <2>0, <2>1, <2>2, <2>3 DEF Bounded
<1>3. CASE SlaveUses(p)
  <2> DEFINE left == cyclesPosted[p] - eventDiff[p]
  <2>0. pc[p] = "use" /\ awake[p] /\ loaded[p] /\ nextEvent[p] <= 0 /\ left \in Nat
    BY <1>00, <1>3 DEF SlaveUses, Bounded
  <2>1. /\ cyclesPosted'[p] = left /\ pc'[p] = "core"
        /\ eventDiff'[p] = IF left > 0 THEN left ELSE 0
        /\ nextEvent'[p] = IF left > 0 THEN 0 ELSE nextEvent[p]
        /\ UNCHANGED <<loaded, scheduled>>
    BY <1>0, <1>3 DEF SlaveUses, useCycles, NodeTypeOK, PlayerTypeOK, CpuTypeOK
  <2>2. CASE left > 0
    <3>1. awake'[p]
      BY <2>0, <2>2, <1>3 DEF SlaveUses, useCycles
    <3> QED
      BY <2>0, <2>1, <2>2, <3>1 DEF Bounded
  <2>3. CASE left = 0
    <3>1. thread'[p] \in {"waiting", "reseting"}
      BY <1>0, <2>3, <1>3 DEF SlaveUses, useCycles, WaitFromThread
    <3>2. cyclesPosted'[p] = 0 /\ eventDiff'[p] = 0 /\ nextEvent'[p] = nextEvent[p]
      BY <2>1, <2>3
    <3>3. nextEvent[p] \in Int /\ 0 + nextEvent[p] <= 0
      BY <1>00, <2>0
    <3> HIDE DEF left
    <3> QED
      BY <2>0, <2>1, <3>1, <3>2, <3>3 DEF Bounded
  <2> QED
    BY <2>0, <2>2, <2>3
<1>4. CASE LoadCounted(p)
  BY <1>0, <1>4 DEF LoadCounted, playerVars, Bounded, CpuTypeOK
<1>5. CASE GBASIOLockstepNodeLoad(p)
  <2>1. /\ loaded'[p] /\ nextEvent'[p] = 0 /\ eventDiff'[p] = 0 /\ pc'[p] = "count"
        /\ UNCHANGED <<awake, cyclesPosted, thread>>
    BY <1>0, <1>5 DEF GBASIOLockstepNodeLoad, playerVars, NodeTypeOK, CpuTypeOK
  <2>2. awake[p]
    BY <1>5 DEF GBASIOLockstepNodeLoad, InCore, Bounded
  <2> QED
    BY <1>00, <2>1, <2>2 DEF Bounded
<1>6. ASSUME NEW times, Unload(p, times), UNCHANGED <<pc, eventDiff>>, pc[p] = "core"
      PROVE  Bounded(p)'
  <2>1. cyclesPosted'[p] = cyclesPosted[p] + 0
    BY <1>0, <1>6 DEF Unload, Posted, PlayerTypeOK
  <2>2. ~scheduled'[p] /\ awake'[p] /\ UNCHANGED nextEvent /\ ~loaded'[p]
    BY <1>0, <1>6 DEF Unload, NodeTypeOK
  <2> QED
    BY <1>00, <1>6, <2>1, <2>2 DEF Bounded
<1>7. CASE GBASIOLockstepNodeUnload(p)
  <2>1. pc[p] = "core"
    BY <1>7 DEF GBASIOLockstepNodeUnload, InCore
  <2>2. Unload(p, 1) /\ UNCHANGED <<pc, eventDiff>>
    BY <1>7 DEF GBASIOLockstepNodeUnload
  <2> QED
    BY <1>6, <2>1, <2>2
<1>8. CASE GBASIOReset(p)
  <2>1. CASE loaded[p]
    BY <1>6, <1>8, <2>1 DEF GBASIOReset
  <2>2. CASE ~loaded[p]
    BY <1>0, <1>8, <2>2 DEF GBASIOReset, Bounded, NodeTypeOK
  <2> QED
    BY <2>1, <2>2
<1>9. CASE User(p) /\ ~GBASIOReset(p)
  <2>1. mCoreThreadReset(p)
    BY <1>0, <1>9 DEF User, mCoreThreadRunFunction, FunctionRun, mCoreThreadPause, Paused,
                      mCoreThreadUnpause, Noticed, Request
  <2>2. /\ UNCHANGED <<node, playerVars, pc>> /\ thread'[p] = "reseting"
    BY <1>0, <2>1 DEF mCoreThreadReset, Request
  <2> QED
    BY <2>2 DEF Bounded, node, playerVars
<1> QED
  BY <1>1, <1>2, <1>3, <1>4, <1>5, <1>7, <1>8, <1>9 DEF CableEvent, Game

LEMMA StepAheadIInv == TypeOK /\ WaitersIInv /\ AheadIInv /\ [Next]_vars => AheadIInv'
<1> SUFFICES ASSUME TypeOK, WaitersIInv, AheadIInv, [Next]_vars, "stop" \notin allow,
                    NEW p \in Slaves
             PROVE  Bounded(p)'
  BY SessionStays DEF AheadIInv, allow
<1>0. WaitersOK /\ Bounded(p)
  BY DEF WaitersIInv, AheadIInv
<1>1. CASE UNCHANGED vars \/ GBASIOLockstepAttachNode
  <2>1. SlaveState(p)' = SlaveState(p)
    BY <1>1 DEF vars, cpu, playerVars, node, GBASIOLockstepAttachNode, SlaveState
  <2> QED
    BY <1>0, <2>1, SameBounded
<1>2. ASSUME NEW q \in Players, CableEvent(q) \/ Game(q) \/ User(q) PROVE Bounded(p)'
  <2>1. CASE q = 0
    BY <1>0, <1>2, <2>1, MasterBounded
  <2>2. CASE q = p
    BY <1>0, <1>2, <2>2, SelfBounded
  <2>3. CASE q \in Slaves /\ q # p
    <3>1. SlaveState(p)' = SlaveState(p)
      BY <1>2, <2>3, OtherSlave
    <3> QED
      BY <1>0, <3>1, SameBounded
  <2> QED
    BY <2>1, <2>2, <2>3, PlayersFact
<1> QED
  BY <1>1, <1>2 DEF Next

\* A slave's game never runs further than the master has posted cycles for, with any
\* number of players, any lateness of the events and any order of resets, however the
\* games enter and leave multiplayer mode and whatever the threads' interleaving.
THEOREM SlavesStayBehind == Spec => []NeverAhead
<1>1. Init => AheadIInv
  BY PlayersFact DEF Init, AheadIInv, Bounded
<1>2. TypeOK /\ AheadIInv => NeverAhead
  BY PlayersFact DEF AheadIInv, Bounded, NeverAhead
<1>3. Init => WaitersIInv
  BY PlayersFact DEF Init, WaitersIInv, WaitersOK, ToldToContinue
<1> QED
  BY <1>1, <1>2, <1>3, StepAheadIInv, StepWaitersIInv, TypesOK, PTL DEF Spec

-----------------------------------------------------------------------------
(* The master does not abort                                               *)

\* The master sleeps as long as a player it waits for has not signalled, which is
\* from its call of wait to its next event at the latest: that event's call of
\* signal is for everyone it waits for.
MasterOK ==
    /\ ~aborted
    /\ scheduled[0] \/ loaded[0] \/ pc[0] \in {"wait", "signal", "post"} => multi[0]
    /\ pc[0] = "wait" => awake[0] /\ transferActive \in {"STARTED", "FINISHED"}
    /\ awake[0] <=> waitMask = {}
    /\ ~awake[0] => /\ waitMask \subseteq Mask
                    /\ transferActive \in {"STARTED", "FINISHED"} \/ pc[0] = "signal"
                    /\ multi[0]

NoReset == \A p \in Players : thread[p] # "reseting" /\ savedState[p] # "reseting"
MasterIInv == "reset" \notin allow => MasterOK /\ NoReset

\* What MasterOK looks at.
MasterState == <<aborted, scheduled[0], loaded[0], pc[0], multi, attached, awake[0], waitMask,
                 transferActive>>

LEMMA SameMaster == MasterOK /\ MasterState' = MasterState => MasterOK'
BY DEF MasterOK, MasterState, Mask, Attached

\* A signal for some of those the master waits for, and one for all of them.
LEMMA SignalMaster ==
  ASSUME NEW mask, TypeOK, signal(mask), awake[0] <=> waitMask = {}
  PROVE  /\ awake'[0] <=> waitMask' = {}
         /\ waitMask' \subseteq waitMask
         /\ awake[0] => awake'[0]
BY PlayersFact DEF signal, TypeOK

\* Resets apart, no thread starts to reset, which the user alone asks for.
LEMMA StepNoReset == TypeOK /\ NoReset /\ "reset" \notin allow /\ [Next]_vars => NoReset'
<1> SUFFICES ASSUME TypeOK, NoReset, "reset" \notin allow, [Next]_vars PROVE NoReset'
  OBVIOUS
<1> USE DEF NoReset
<1>0. thread \in [Players -> ThreadStates] /\ savedState \in [Players -> ThreadStates]
  BY DEF TypeOK
<1>1. CASE UNCHANGED vars \/ GBASIOLockstepAttachNode
  BY <1>1 DEF vars, cpu, GBASIOLockstepAttachNode
<1>2. ASSUME NEW p \in Players, CableEvent(p) PROVE NoReset'
  <2>1. UNCHANGED savedState
    BY <1>2 DEF CableEvent, FiresAlone, MasterFires, NotYet, MasterWaits, MasterSignals,
                MasterPosts, SlaveFires, SlaveActs, SlaveUses, LoadCounted, cpu
  <2>2. \/ UNCHANGED thread \/ (\E P : StopWaiting(P))
        \/ \E q \in Players : WaitFromThread(q)
    BY <1>2, PlayersFact
       DEF CableEvent, FiresAlone, MasterFires, NotYet, MasterWaits, wait, MasterSignals, signal,
           MasterPosts, WakeAll, SlaveFires, SlaveActs, SlaveUses, useCycles, LoadCounted, cpu
  <2> QED
    BY <1>0, <2>1, <2>2 DEF StopWaiting, WaitFromThread
<1>3. ASSUME NEW p \in Players, Game(p) PROVE NoReset'
  BY <1>0, <1>3 DEF Game, GBASIOLockstepNodeMultiWriteRegister, GBASIOLockstepNodeLoad,
                    GBASIOLockstepNodeUnload, StopWaiting, cpu
<1>4. ASSUME NEW p \in Players, User(p) PROVE NoReset'
  <2>1. ~GBASIOReset(p) /\ ~mCoreThreadReset(p)
    BY DEF GBASIOReset, mCoreThreadReset
  <2> QED
    BY <1>0, <1>4, <2>1 DEF User, mCoreThreadRunFunction, FunctionRun, mCoreThreadPause, Paused,
                            mCoreThreadUnpause, Noticed, Request
<1> QED
  BY <1>1, <1>2, <1>3, <1>4 DEF Next

LEMMA MasterOwnSteps ==
  ASSUME TypeOK, MasterOK, NoReset, CableEvent(0) \/ Game(0) \/ User(0) PROVE MasterOK'
<1> USE PlayersFact
<1>0. /\ CableTypeOK /\ NodeTypeOK /\ PlayerTypeOK /\ CpuTypeOK
      /\ multi[0] \in BOOLEAN /\ awake[0] \in BOOLEAN
  BY TypeParts DEF NodeTypeOK, PlayerTypeOK
<1>1. CASE FiresAlone
  BY <1>0, <1>1 DEF FiresAlone, MasterOK, Mask, Attached, playerVars, cpu, cable, NodeTypeOK
<1>2. CASE MasterFires
  <2>1. PICK left : NotYet(0, left) \/ MasterPhase(left)
    BY <1>2 DEF MasterFires
  <2>2. /\ pc[0] = "core" /\ scheduled[0]
        /\ UNCHANGED <<aborted, scheduled, loaded, multi, attached, awake, waitMask>>
    BY <1>2 DEF MasterFires, InCore, NotYet, cable, playerVars
  <2>3. Mask' = Mask
    BY <2>2 DEF Mask, Attached
  <2>4. CASE NotYet(0, left)
    <3>1. UNCHANGED <<pc, transferActive>>
      BY <2>4 DEF NotYet, cable, cpu
    <3> QED
      BY <2>2, <2>3, <3>1 DEF MasterOK
  <2>5. CASE MasterPhase(left)
    <3>1. CASE transferActive \in {"STARTING", "FINISHING"}
      <4>1. awake[0]
        BY <2>2, <3>1 DEF MasterOK
      <4>2. transferActive' \in {"STARTED", "FINISHED"}
        BY <2>5, <3>1 DEF MasterPhase
      <4> QED
        BY <1>0, <2>2, <2>3, <4>1, <4>2 DEF MasterOK
    <3>2. CASE transferActive \in {"IDLE", "STARTED", "FINISHED"}
      <4>1. pc'[0] = "signal"
        BY <1>0, <2>5, <3>2 DEF MasterPhase, CpuTypeOK
      <4> QED
        BY <1>0, <2>2, <2>3, <4>1 DEF MasterOK
    <3> QED
      BY <1>0, <3>1, <3>2 DEF CableTypeOK, Phases
  <2> QED
    BY <2>1, <2>4, <2>5
<1>3. CASE MasterWaits
  <2>1. /\ pc[0] = "wait" /\ pc'[0] = "post" /\ awake[0] /\ waitMask = {}
        /\ UNCHANGED <<cable, node>>
        /\ multi[0] /\ transferActive \in {"STARTED", "FINISHED"}
    BY <1>0, <1>3 DEF MasterWaits, MasterOK, CpuTypeOK
  <2>2. Mask' = Mask
    BY <2>1 DEF Mask, Attached, cable, node
  <2>3. CASE Mask = {}
    BY <1>3, <2>1, <2>2, <2>3 DEF MasterWaits, MasterOK, cable, node
  <2>4. CASE Mask # {}
    <3>1. waitMask' = Mask /\ ~awake'[0] /\ ~aborted'
      BY <1>0, <1>3, <2>1, <2>4 DEF MasterWaits, wait, PlayerTypeOK
    <3> QED
      BY <2>1, <2>2, <2>4, <3>1 DEF MasterOK, cable, node
  <2> QED
    BY <2>3, <2>4
<1>4. CASE MasterSignals
  <2>1. /\ pc[0] = "signal" /\ pc'[0] = "post" /\ UNCHANGED <<cable, node, aborted>> /\ multi[0]
    BY <1>0, <1>4 DEF MasterSignals, MasterOK, CpuTypeOK
  <2>2. waitMask \subseteq Mask
    BY <1>0 DEF MasterOK
  <2>3. awake'[0] /\ waitMask' = {}
    <3>1. CASE Mask = {}
      BY <1>0, <1>4, <2>2, <3>1 DEF MasterSignals, MasterOK
    <3>2. CASE Mask # {}
      BY <1>0, <1>4, <2>2, <3>2 DEF MasterSignals, signal, PlayerTypeOK
    <3> QED
      BY <3>1, <3>2
  <2> QED
    BY <2>1, <2>3 DEF MasterOK, cable, node
<1>5. CASE MasterPosts
  <2>1. /\ pc[0] = "post" /\ pc'[0] = "core"
        /\ UNCHANGED <<cable, loaded, multi, scheduled, waitMask, aborted>>
    BY <1>0, <1>5 DEF MasterPosts, CpuTypeOK
  <2>2. awake'[0] = awake[0]
    <3>1. PICK P : 0 \notin P /\ WakeAll(P)
      BY <1>5 DEF MasterPosts
    <3> QED
      BY <1>0, <3>1 DEF WakeAll
  <2>3. Mask' = Mask
    BY <2>1 DEF Mask, Attached, cable
  <2> QED
    BY <2>1, <2>2, <2>3 DEF MasterOK, cable
<1>6. CASE LoadCounted(0)
  <2>1. /\ pc'[0] = "core"
        /\ UNCHANGED <<loaded, multi, scheduled, waitMask, awake, attached, transferActive, aborted>>
        /\ pc[0] = "count"
    BY <1>0, <1>6 DEF LoadCounted, playerVars, CpuTypeOK
  <2>2. Mask' = Mask
    BY <2>1 DEF Mask, Attached
  <2> QED
    BY <2>1, <2>2 DEF MasterOK
<1>7. CASE GBASIOLockstepNodeMultiWriteRegister
  <2>1. /\ pc[0] = "core" /\ loaded[0] /\ transferActive = "IDLE"
        /\ UNCHANGED <<loaded, multi, waitMask, awake, attached, pc, aborted>>
    BY <1>7 DEF GBASIOLockstepNodeMultiWriteRegister, InCore, playerVars, cpu
  <2>2. Mask' = Mask
    BY <2>1 DEF Mask, Attached
  <2> QED
    BY <2>1, <2>2 DEF MasterOK
<1>8. CASE GBASIOLockstepNodeLoad(0)
  <2>1. /\ pc[0] = "core" /\ pc'[0] = "count" /\ multi'[0]
        /\ UNCHANGED <<cable, waitMask, awake, aborted>>
        /\ multi' = [multi EXCEPT ![0] = TRUE]
    BY <1>0, <1>8 DEF GBASIOLockstepNodeLoad, InCore, playerVars, NodeTypeOK, CpuTypeOK
  <2>2. ~awake[0] => Mask' = Mask
    <3>1. ~awake[0] => UNCHANGED multi
      BY <1>0, <2>1 DEF MasterOK, NodeTypeOK
    <3> QED
      BY <2>1, <3>1 DEF Mask, Attached, cable
  <2> QED
    BY <2>1, <2>2 DEF MasterOK, cable
<1>9. CASE GBASIOLockstepNodeUnload(0)
  <2>1. /\ UNCHANGED <<waitMask, attached, transferActive, multi, pc, aborted>>
        /\ ~scheduled'[0] /\ ~loaded'[0] /\ pc[0] = "core"
    BY <1>0, <1>9 DEF GBASIOLockstepNodeUnload, Unload, InCore, NodeTypeOK
  <2>2. awake'[0] <=> awake[0]
    BY <1>0, <1>9 DEF GBASIOLockstepNodeUnload, Unload, PlayerTypeOK
  <2>3. Mask' = Mask
    BY <2>1 DEF Mask, Attached
  <2> QED
    BY <2>1, <2>2, <2>3 DEF MasterOK
<1>10. CASE User(0)
  <2>1. MasterState' = MasterState
    BY <1>0, <1>10 DEF User, mCoreThreadRunFunction, FunctionRun, mCoreThreadPause, Paused,
       mCoreThreadUnpause, mCoreThreadReset, GBASIOReset, NoReset, Request, Noticed, MasterState,
       node, playerVars, cable
  <2> QED
    BY <2>1, SameMaster
<1> QED
  BY <1>1, <1>2, <1>3, <1>4, <1>5, <1>6, <1>7, <1>8, <1>9, <1>10 DEF CableEvent, Game

LEMMA MasterOthersSteps ==
  ASSUME NEW p \in Slaves, TypeOK, MasterOK, NoReset, CableEvent(p) \/ Game(p) \/ User(p)
  PROVE  MasterOK'
<1> USE PlayersFact
<1>0. /\ CableTypeOK /\ NodeTypeOK /\ PlayerTypeOK /\ CpuTypeOK
      /\ multi[0] \in BOOLEAN /\ awake[0] \in BOOLEAN
  BY TypeParts DEF NodeTypeOK, PlayerTypeOK
<1>1. CASE SlaveFires(p) \/ SlaveUses(p) \/ LoadCounted(p)
  <2>1. MasterState' = MasterState
    BY <1>0, <1>1 DEF SlaveFires, NotYet, SlaveUses, useCycles, LoadCounted, MasterState, cable,
       node, playerVars, cpu, PlayerTypeOK, CpuTypeOK
  <2> QED
    BY <2>1, SameMaster
<1>2. CASE SlaveActs(p)
  <2>1. /\ UNCHANGED <<aborted, scheduled, loaded, multi, attached, transferActive>>
        /\ pc'[0] = pc[0]
        /\ UNCHANGED <<waitMask, awake>> \/ signal({p})
    BY <1>0, <1>2 DEF SlaveActs, CpuTypeOK
  <2>2. Mask' = Mask
    BY <2>1 DEF Mask, Attached
  <2>3. CASE UNCHANGED <<waitMask, awake>>
    BY <2>1, <2>2, <2>3 DEF MasterOK
  <2>4. CASE signal({p})
    <3>1. /\ awake'[0] <=> waitMask' = {}
          /\ waitMask' \subseteq waitMask /\ (awake[0] => awake'[0])
      BY <2>4, SignalMaster DEF MasterOK
    <3> QED
      BY <2>1, <2>2, <3>1 DEF MasterOK
  <2> QED
    BY <2>1, <2>3, <2>4
<1>3. CASE GBASIOLockstepNodeLoad(p)
  <2>1. /\ UNCHANGED <<aborted, attached, transferActive, waitMask, awake>>
        /\ pc'[0] = pc[0] /\ multi'[0] = multi[0] /\ loaded'[0] = loaded[0]
        /\ scheduled'[0] = scheduled[0]
        /\ multi' = [multi EXCEPT ![p] = TRUE]
    BY <1>0, <1>3 DEF GBASIOLockstepNodeLoad, cable, playerVars, NodeTypeOK, CpuTypeOK
  <2>2. multi[0] => Mask \subseteq Mask'
    <3>1. \A q \in Players : multi[q] => multi'[q]
      BY <1>0, <2>1 DEF NodeTypeOK
    <3>2. Attached' = Attached /\ Attached \subseteq Players
      BY <1>0, <2>1, AttachedFact DEF Attached, CableTypeOK
    <3>3. multi[0] /\ multi'[0] => \A q \in Attached \ {0} : multi[q] = multi[0] => multi'[q] = multi'[0]
      BY <1>0, <2>1, <3>1, <3>2 DEF NodeTypeOK
    <3> QED
      BY <2>1, <3>2, <3>3 DEF Mask
  <2> QED
    BY <2>1, <2>2 DEF MasterOK
<1>4. CASE GBASIOLockstepNodeUnload(p)
  <2>1. MasterState' = MasterState
    BY <1>0, <1>4 DEF GBASIOLockstepNodeUnload, Unload, MasterState, NodeTypeOK, PlayerTypeOK
  <2> QED
    BY <2>1, SameMaster
<1>5. CASE User(p)
  <2>1. MasterState' = MasterState
    BY <1>0, <1>5 DEF User, mCoreThreadRunFunction, FunctionRun, mCoreThreadPause, Paused,
       mCoreThreadUnpause, mCoreThreadReset, GBASIOReset, NoReset, Request, Noticed, MasterState,
       node, playerVars, cable
  <2> QED
    BY <2>1, SameMaster
<1> QED
  BY <1>1, <1>2, <1>3, <1>4, <1>5 DEF CableEvent, Game

LEMMA StepMasterIInv == TypeOK /\ MasterIInv /\ [Next]_vars => MasterIInv'
<1> SUFFICES ASSUME TypeOK, MasterIInv, [Next]_vars, "reset" \notin allow PROVE MasterOK' /\ NoReset'
  BY SessionStays DEF MasterIInv, allow
<1>0. MasterOK /\ NoReset
  BY DEF MasterIInv
<1>1. NoReset'
  BY <1>0, StepNoReset
<1>2. CASE UNCHANGED vars
  <2>1. MasterState' = MasterState
    BY <1>2 DEF vars, cpu, playerVars, node, cable, MasterState
  <2> QED
    BY <1>0, <1>1, <2>1, SameMaster
<1>3. CASE GBASIOLockstepAttachNode
  <2>1. /\ UNCHANGED <<aborted, node, playerVars, pc, transferActive>>
        /\ attached' \in attached .. N
    BY <1>3, NAssumption, SessionsAssumption DEF GBASIOLockstepAttachNode, cpu, TypeOK
  <2>2. Mask \subseteq Mask'
    BY <2>1 DEF Mask, Attached, node, TypeOK
  <2> QED
    BY <1>0, <1>1, <2>1, <2>2 DEF MasterOK, node, playerVars
<1>4. ASSUME NEW p \in Players, CableEvent(p) \/ Game(p) \/ User(p) PROVE MasterOK'
  BY <1>0, <1>4, MasterOwnSteps, MasterOthersSteps, PlayersFact
<1> QED
  BY <1>1, <1>2, <1>3, <1>4 DEF Next

\* As long as nobody resets a player, the master is never asleep when it calls wait,
\* so that the abort of _masterUpdate is not reached: with any number of players,
\* however games enter and leave, and threads pause and run functions.
THEOREM MasterDoesNotAbort == Spec => []NoAbort
<1>1. Init => MasterIInv
  BY PlayersFact DEF Init, MasterIInv, MasterOK, NoReset
<1>2. MasterIInv => NoAbort
  BY DEF MasterIInv, MasterOK, NoAbort
<1> QED
  BY <1>1, <1>2, StepMasterIInv, TypesOK, PTL DEF Spec

-----------------------------------------------------------------------------
(* The master's wait is answered                                           *)

\* Games play, however late their events and whatever the threads' interleaving;
\* nobody leaves, resets, pauses or comes late.
Plain == allow \subseteq {"race", "slow"}

\* Where the master is in its event, and what it has to post.  An event is always
\* scheduled some cycles after the one before, which the slaves have not been given
\* yet when the next phase begins.
MasterCycles ==
    /\ pc[0] \in {"core", "count", "wait", "signal", "post"}
    /\ \A p \in Players : multi[p] = loaded[p]
    /\ scheduled[0] \/ transferActive # "IDLE" => loaded[0]
    /\ ~awake[0] => /\ thread[0] = "waiting" /\ pc[0] \in {"post", "core"}
                    /\ transferActive \in {"STARTED", "FINISHED"}
    /\ pc[0] = "count" => transferActive = "IDLE"
    /\ pc[0] \in {"wait", "signal", "post"} => transferActive # "STARTING" /\ loaded[0]
    /\ pc[0] = "wait" => transferActive \in {"STARTED", "FINISHED"}
    /\ pc[0] = "signal" => transferActive \in {"IDLE", "FINISHING"}
    /\ pc[0] \in {"core", "count"} /\ eventDiff[0] > 0 => nextEvent[0] = 0
    /\ pc[0] = "core" /\ transferActive \in {"STARTING", "FINISHING"} => eventDiff[0] > 0
    /\ pc[0] = "core" /\ transferActive = "STARTED" => nextEvent[0] >= 0
    /\ pc[0] = "wait" \/ (pc[0] = "post" /\ ~awake[0]) => eventDiff[0] > 0
    /\ pc[0] \in {"wait", "signal", "post"} /\ transferActive \in {"STARTED", "FINISHING"}
         => nextEvent[0] > 0

\* A slave the master waits for runs, and does not use up its cycles before it signals.
Answers(p) == thread[p] = "running" /\ awake[p] /\ (pc[p] = "use" => eventDiff[p] < cyclesPosted[p])
AnswersCome == ~awake[0] /\ pc[0] # "post" => \A p \in waitMask : Answers(p)

AnswerIInv == Plain => MasterCycles /\ AnswersCome

\* All that Plain leaves to happen.
LEMMA PlainSteps ==
  ASSUME TypeOK, WaitersIInv, MasterIInv, Plain, [Next]_vars
  PROVE  /\ thread \in [Players -> {"running", "waiting"}]
         /\ "reset" \notin allow /\ "stop" \notin allow /\ MasterOK /\ WaitersOK
         /\ \/ UNCHANGED vars
            \/ \E p \in Players :
                 /\ Undisturbed(p)
                 /\ \/ CableEvent(p) \/ GBASIOLockstepNodeLoad(p)
                    \/ p = 0 /\ GBASIOLockstepNodeMultiWriteRegister
<1>1. /\ "reset" \notin allow /\ "stop" \notin allow /\ "leave" \notin allow /\ "late" \notin allow
  BY DEF Plain
<1>2. MasterOK /\ NoReset /\ WaitersOK
  BY <1>1 DEF MasterIInv, WaitersIInv
<1>3. \A p \in Players : thread[p] \in {"running", "waiting"}
  BY <1>2 DEF WaitersOK, NoReset
<1>4. thread \in [Players -> {"running", "waiting"}]
  BY <1>2, <1>3 DEF WaitersOK
<1>5. \A p \in Players : ~User(p)
  BY <1>1, <1>3 DEF User, mCoreThreadRunFunction, FunctionRun, mCoreThreadPause, Paused,
     mCoreThreadUnpause, mCoreThreadReset, GBASIOReset, Request, Noticed
<1>6. ~GBASIOLockstepAttachNode /\ \A p \in Players : ~GBASIOLockstepNodeUnload(p)
  BY <1>1 DEF GBASIOLockstepAttachNode, GBASIOLockstepNodeUnload
<1> QED
  BY <1>1, <1>2, <1>4, <1>5, <1>6 DEF Next, Game

\* What the invariants of the master look at in a slave's step: nothing but who is
\* in multiplayer mode changes, and a signal may end the master's sleep.
LEMMA SlaveLeavesMaster ==
  ASSUME NEW p \in Slaves, TypeOK, CableEvent(p) \/ GBASIOLockstepNodeLoad(p)
  PROVE  /\ pc'[0] = pc[0] /\ loaded'[0] = loaded[0] /\ scheduled'[0] = scheduled[0]
         /\ nextEvent'[0] = nextEvent[0] /\ eventDiff'[0] = eventDiff[0]
         /\ transferFinished'[0] = transferFinished[0]
         /\ UNCHANGED <<transferActive, attached, session>>
         /\ \/ waitMask' = waitMask /\ awake'[0] = awake[0] /\ thread'[0] = thread[0]
            \/ SlaveActs(p) /\ signal({p})
<1> USE PlayersFact
<1>0. /\ CableTypeOK /\ NodeTypeOK /\ PlayerTypeOK /\ CpuTypeOK
  BY TypeParts
<1>1. CASE SlaveFires(p)
  BY <1>0, <1>1 DEF SlaveFires, NotYet, cable, cpu, playerVars, NodeTypeOK, CpuTypeOK
<1>2. CASE SlaveActs(p)
  <2>1. /\ UNCHANGED <<loaded, scheduled, nextEvent, eventDiff, transferActive, attached, session>>
        /\ pc'[0] = pc[0]
    BY <1>0, <1>2 DEF SlaveActs, CpuTypeOK
  <2>2. transferFinished'[0] = transferFinished[0]
    BY <1>0, <1>2 DEF SlaveActs, _finishTransfer, NodeTypeOK
  <2>3. signal({p}) \/ UNCHANGED <<waitMask, awake, thread>>
    BY <1>2 DEF SlaveActs
  <2> QED
    BY <1>2, <2>1, <2>2, <2>3
<1>3. CASE SlaveUses(p)
  BY <1>0, <1>3 DEF SlaveUses, useCycles, WaitFromThread, cable, NodeTypeOK, PlayerTypeOK, CpuTypeOK
<1>4. CASE LoadCounted(p)
  BY <1>0, <1>4 DEF LoadCounted, playerVars, CpuTypeOK
<1>5. CASE GBASIOLockstepNodeLoad(p)
  BY <1>0, <1>5 DEF GBASIOLockstepNodeLoad, cable, playerVars, NodeTypeOK, CpuTypeOK
<1> QED
  BY <1>1, <1>2, <1>3, <1>4, <1>5 DEF CableEvent

LEMMA SlaveMasterCycles ==
  ASSUME NEW p \in Slaves, TypeOK, MasterOK, MasterCycles, CableEvent(p) \/ GBASIOLockstepNodeLoad(p)
  PROVE  MasterCycles'
<1> USE PlayersFact
<1>0. NodeTypeOK /\ PlayerTypeOK /\ CpuTypeOK
  BY TypeParts
<1>1. /\ pc'[0] = pc[0] /\ loaded'[0] = loaded[0] /\ scheduled'[0] = scheduled[0]
      /\ nextEvent'[0] = nextEvent[0] /\ eventDiff'[0] = eventDiff[0]
      /\ UNCHANGED transferActive
      /\ \/ awake'[0] = awake[0] /\ thread'[0] = thread[0]
         \/ signal({p})
  BY SlaveLeavesMaster
<1>2. ~awake'[0] => ~awake[0] /\ thread'[0] = thread[0]
  <2>1. CASE signal({p})
    BY <1>0, <2>1 DEF signal, PlayerTypeOK
  <2> QED
    BY <1>0, <1>1, <2>1 DEF PlayerTypeOK
<1>3. \A q \in Players : multi'[q] = loaded'[q]
  <2>1. CASE GBASIOLockstepNodeLoad(p)
    BY <1>0, <2>1 DEF GBASIOLockstepNodeLoad, MasterCycles, NodeTypeOK
  <2>2. CASE CableEvent(p)
    <3>1. UNCHANGED <<multi, loaded>>
      BY <2>2 DEF CableEvent, SlaveFires, NotYet, SlaveActs, SlaveUses, LoadCounted
    <3> QED
      BY <3>1 DEF MasterCycles
  <2> QED
    BY <2>1, <2>2
<1> QED
  BY <1>1, <1>2, <1>3 DEF MasterCycles

LEMMA MasterFiresCycles ==
  ASSUME TypeOK, MasterOK, MasterCycles, MasterFires PROVE MasterCycles'
<1> USE PlayersFact
<1>0. /\ CableTypeOK /\ NodeTypeOK /\ PlayerTypeOK /\ CpuTypeOK
      /\ nextEvent[0] \in Int /\ eventDiff[0] \in Nat
  BY TypeParts DEF NodeTypeOK
<1>1. PICK late \in 0 .. MaxLate :
        \/ NotYet(0, nextEvent[0] - late)
        \/ nextEvent[0] - late <= 0 /\ MasterPhase(nextEvent[0] - late) /\ UNCHANGED eventDiff
  BY CyclesAssumption DEF MasterFires, Lateness
<1> DEFINE left == nextEvent[0] - late
<1>2. left \in Int /\ left <= nextEvent[0] /\ (nextEvent[0] >= 0 => left + Step > 0)
  BY <1>0, CyclesAssumption
<1>3. /\ pc[0] = "core" /\ scheduled[0] /\ thread[0] = "running" /\ awake[0] /\ loaded[0]
      /\ UNCHANGED <<loaded, multi, scheduled, awake, thread>>
  BY DEF MasterFires, InCore, NotYet, playerVars, cpu, MasterCycles
<1> HIDE DEF left
<1>4. CASE NotYet(0, left)
  <2>1. /\ nextEvent'[0] = 0 /\ eventDiff'[0] = eventDiff[0] + left /\ left > 0
        /\ UNCHANGED <<pc, transferActive>>
    BY <1>0, <1>4 DEF NotYet, cable, cpu, NodeTypeOK
  <2> QED
    BY <1>0, <1>2, <1>3, <2>1 DEF MasterCycles
<1>5. CASE left <= 0 /\ MasterPhase(left) /\ UNCHANGED eventDiff
  <2>1. CASE transferActive \in {"IDLE", "FINISHED"}
    <3>1. pc'[0] = "signal" /\ transferActive' = "IDLE"
      BY <1>0, <1>5, <2>1 DEF MasterPhase, CpuTypeOK
    <3> QED
      BY <1>3, <3>1 DEF MasterCycles
  <2>2. CASE transferActive = "STARTING"
    <3>1. pc'[0] = "wait" /\ transferActive' = "STARTED" /\ nextEvent'[0] = left + Step
      BY <1>0, <1>5, <2>2 DEF MasterPhase, CpuTypeOK, NodeTypeOK
    <3>2. eventDiff[0] > 0 /\ nextEvent[0] = 0
      BY <1>3, <2>2 DEF MasterCycles
    <3> QED
      BY <1>2, <1>3, <1>5, <3>1, <3>2 DEF MasterCycles
  <2>3. CASE transferActive = "STARTED"
    <3>1. pc'[0] = "signal" /\ transferActive' = "FINISHING" /\ nextEvent'[0] = left + Step
      BY <1>0, <1>5, <2>3 DEF MasterPhase, CpuTypeOK, NodeTypeOK
    <3>2. nextEvent[0] >= 0
      BY <1>3, <2>3 DEF MasterCycles
    <3> QED
      BY <1>2, <1>3, <1>5, <3>1, <3>2 DEF MasterCycles
  <2>4. CASE transferActive = "FINISHING"
    <3>1. pc'[0] = "wait" /\ transferActive' = "FINISHED"
      BY <1>0, <1>5, <2>4 DEF MasterPhase, CpuTypeOK
    <3>2. eventDiff[0] > 0
      BY <1>3, <2>4 DEF MasterCycles
    <3> QED
      BY <1>3, <1>5, <3>1, <3>2 DEF MasterCycles
  <2> QED
    BY <1>0, <2>1, <2>2, <2>3, <2>4 DEF CableTypeOK, Phases
<1> QED
  BY <1>1, <1>4, <1>5 DEF left

LEMMA MasterOwnCycles ==
  ASSUME TypeOK, WaitersOK, MasterOK, MasterCycles, Plain,
         thread \in [Players -> {"running", "waiting"}],
         CableEvent(0) \/ GBASIOLockstepNodeLoad(0) \/ GBASIOLockstepNodeMultiWriteRegister
  PROVE  MasterCycles'
<1> USE PlayersFact
<1>0. /\ CableTypeOK /\ NodeTypeOK /\ PlayerTypeOK /\ CpuTypeOK
      /\ nextEvent[0] \in Int /\ eventDiff[0] \in Nat
  BY TypeParts DEF NodeTypeOK
<1>1. CASE FiresAlone
  <2>1. /\ ~scheduled'[0]
        /\ UNCHANGED <<pc, loaded, multi, awake, thread, transferActive, nextEvent, eventDiff>>
    BY <1>0, <1>1 DEF FiresAlone, playerVars, cpu, cable, NodeTypeOK
  <2> QED
    BY <2>1 DEF MasterCycles
<1>2. CASE MasterFires
  BY <1>2, MasterFiresCycles
<1>3. CASE MasterWaits
  <2>1. /\ pc[0] = "wait" /\ pc'[0] = "post" /\ awake[0]
        /\ UNCHANGED <<transferActive, loaded, multi, scheduled, nextEvent, eventDiff>>
    BY <1>0, <1>3 DEF MasterWaits, MasterOK, cable, node, CpuTypeOK
  <2>2. thread[0] = "running"
    BY <2>1 DEF WaitersOK, ToldToContinue
  <2>3. ~awake'[0] => thread'[0] = "waiting"
    BY <1>0, <1>3, <2>1, <2>2 DEF MasterWaits, wait, WaitFromThread, PlayerTypeOK, CpuTypeOK
  <2> QED
    BY <1>0, <2>1, <2>3 DEF MasterCycles
<1>4. CASE MasterSignals
  <2>1. /\ pc[0] = "signal" /\ pc'[0] = "post" /\ awake[0]
        /\ UNCHANGED <<transferActive, loaded, multi, scheduled, nextEvent, eventDiff>>
    BY <1>0, <1>4 DEF MasterSignals, MasterCycles, cable, node, CpuTypeOK
  <2>2. awake'[0]
    BY <1>0, <1>4, <2>1 DEF MasterSignals, signal, PlayerTypeOK
  <2> QED
    BY <1>0, <2>1, <2>2 DEF MasterCycles
<1>5. CASE MasterPosts
  <2>1. /\ pc[0] = "post" /\ pc'[0] = "core"
        /\ UNCHANGED <<transferActive, loaded, multi, scheduled>>
    BY <1>0, <1>5 DEF MasterPosts, cable, CpuTypeOK
  <2>2. PICK P : /\ 0 \notin P /\ WakeAll(P)
                 /\ LET due == transferActive \notin {"STARTED", "FINISHED"} /\ nextEvent[0] > 0
                        woken == NextEvents(P, eventDiff[0])
                    IN  /\ nextEvent' = IF due THEN [woken EXCEPT ![0] = 0] ELSE woken
                        /\ eventDiff' = [eventDiff EXCEPT ![0] = IF due THEN nextEvent[0] ELSE 0]
    BY <1>5 DEF MasterPosts
  <2>3. awake'[0] = awake[0] /\ thread'[0] = thread[0]
    BY <1>0, <2>2 DEF WakeAll, StopWaiting, PlayerTypeOK, CpuTypeOK
  <2>4. CASE transferActive \notin {"STARTED", "FINISHED"} /\ nextEvent[0] > 0
    <3>1. nextEvent'[0] = 0 /\ eventDiff'[0] = nextEvent[0]
      BY <1>0, <2>2, <2>4 DEF NextEvents, NodeTypeOK
    <3> QED
      BY <1>0, <2>1, <2>3, <2>4, <3>1 DEF MasterCycles
  <2>5. CASE ~(transferActive \notin {"STARTED", "FINISHED"} /\ nextEvent[0] > 0)
    <3>1. nextEvent'[0] = nextEvent[0] /\ eventDiff'[0] = 0
      BY <1>0, <2>2, <2>5 DEF NextEvents, NodeTypeOK
    <3> QED
      BY <1>0, <2>1, <2>3, <2>5, <3>1 DEF MasterCycles
  <2> QED
    BY <2>4, <2>5
<1>6. CASE LoadCounted(0)
  <2>1. /\ pc[0] = "count" /\ pc'[0] = "core"
        /\ UNCHANGED <<transferActive, loaded, multi, scheduled, awake, thread, nextEvent, eventDiff>>
    BY <1>0, <1>6 DEF LoadCounted, playerVars, CpuTypeOK
  <2> QED
    BY <1>0, <2>1 DEF MasterCycles
<1>7. CASE GBASIOLockstepNodeLoad(0)
  <2>1. /\ ~loaded[0] /\ pc'[0] = "count" /\ thread[0] = "running"
        /\ loaded' = [loaded EXCEPT ![0] = TRUE] /\ multi' = [multi EXCEPT ![0] = TRUE]
        /\ nextEvent'[0] = 0 /\ eventDiff'[0] = 0
        /\ UNCHANGED <<transferActive, awake, thread>>
    BY <1>0, <1>7 DEF GBASIOLockstepNodeLoad, InCore, cable, playerVars, NodeTypeOK, CpuTypeOK
  <2>2. loaded'[0] /\ \A q \in Players : multi'[q] = loaded'[q]
    BY <1>0, <2>1 DEF MasterCycles, NodeTypeOK
  <2> QED
    BY <2>1, <2>2 DEF MasterCycles
<1>8. CASE GBASIOLockstepNodeMultiWriteRegister
  <2>1. /\ pc[0] = "core" /\ loaded[0] /\ eventDiff[0] > 0 /\ transferActive' = "STARTING"
        /\ thread[0] = "running"
        /\ UNCHANGED <<pc, loaded, multi, awake, thread, nextEvent, eventDiff>>
    BY <1>0, <1>8 DEF GBASIOLockstepNodeMultiWriteRegister, InCore, playerVars, cpu, Plain
  <2> QED
    BY <2>1 DEF MasterCycles
<1> QED
  BY <1>1, <1>2, <1>3, <1>4, <1>5, <1>6, <1>7, <1>8 DEF CableEvent

\* The master's post brings cycles to those it waits for.
LEMMA MasterAnswers ==
  ASSUME TypeOK, WaitersOK, MasterOK, MasterCycles, AnswersCome, "stop" \notin allow, AheadIInv,
         thread \in [Players -> {"running", "waiting"}],
         CableEvent(0) \/ GBASIOLockstepNodeLoad(0) \/ GBASIOLockstepNodeMultiWriteRegister
  PROVE  AnswersCome'
<1> USE PlayersFact
<1>0. /\ CableTypeOK /\ NodeTypeOK /\ PlayerTypeOK /\ CpuTypeOK
      /\ eventDiff[0] \in Nat
  BY TypeParts DEF NodeTypeOK
<1>1. CASE MasterPosts
  <2>1. /\ pc[0] = "post" /\ ~aborted /\ UNCHANGED <<waitMask, loaded>>
        /\ \A q \in Slaves : pc'[q] = pc[q] /\ eventDiff'[q] = eventDiff[q]
    BY <1>0, <1>1 DEF MasterPosts, NodeTypeOK, CpuTypeOK
  <2> DEFINE driven == {p \in Attached \ {0} : loaded[p] = loaded[0]}
  <2>2. WakeAll(driven) /\ cyclesPosted' = Posted(driven, eventDiff[0])
    BY <1>1 DEF MasterPosts
  <2>3. awake'[0] = awake[0]
    BY <1>0, <2>2 DEF WakeAll, PlayerTypeOK
  <2>4. ASSUME ~awake[0], NEW p \in waitMask PROVE Answers(p)'
    <3>1. p \in Slaves /\ p \in driven
      BY <1>0, <2>4 DEF MasterOK, MasterCycles, Mask, PlayerTypeOK
    <3> HIDE DEF driven
    <3>2. awake'[p] /\ thread'[p] = "running"
      <4>1. CASE awake[p]
        BY <1>0, <2>2, <3>1, <4>1 DEF WakeAll, StopWaiting, WaitersOK, ToldToContinue
      <4>2. CASE ~awake[p]
        BY <1>0, <2>2, <3>1, <4>2 DEF WakeAll, StopWaiting
      <4> QED
        BY <4>1, <4>2
    <3>3. /\ cyclesPosted'[p] = cyclesPosted[p] + eventDiff[0] /\ eventDiff[0] > 0
      BY <1>0, <2>1, <2>2, <2>4, <3>1 DEF Posted, MasterCycles
    <3>4. eventDiff'[p] = eventDiff[p] /\ eventDiff[p] <= cyclesPosted[p]
      BY <2>1, <3>1 DEF AheadIInv, Bounded
    <3>5. eventDiff[p] \in Int /\ cyclesPosted[p] \in Int
      BY <1>0, <3>1 DEF NodeTypeOK, PlayerTypeOK
    <3>6. eventDiff'[p] < cyclesPosted'[p]
      BY <1>0, <3>3, <3>4, <3>5
    <3> QED
      BY <3>2, <3>6 DEF Answers
  <2> QED
    BY <2>1, <2>3, <2>4 DEF AnswersCome
<1>2. CASE MasterWaits
  <2>1. pc'[0] = "post"
    BY <1>0, <1>2 DEF MasterWaits, CpuTypeOK
  <2> QED
    BY <2>1 DEF AnswersCome
<1>3. CASE MasterSignals
  <2>1. awake[0]
    BY <1>3 DEF MasterSignals, MasterCycles
  <2>2. awake'[0]
    BY <1>0, <1>3, <2>1 DEF MasterSignals, signal, PlayerTypeOK
  <2> QED
    BY <2>2 DEF AnswersCome
<1>4. CASE LoadCounted(0)
  BY <1>0, <1>4 DEF LoadCounted, playerVars, MasterCycles, AnswersCome
<1>5. CASE FiresAlone \/ MasterFires \/ GBASIOLockstepNodeLoad(0) \/ GBASIOLockstepNodeMultiWriteRegister
  <2>1. thread[0] = "running" /\ UNCHANGED awake
    BY <1>5 DEF FiresAlone, MasterFires, NotYet, GBASIOLockstepNodeLoad,
       GBASIOLockstepNodeMultiWriteRegister, InCore, playerVars
  <2> QED
    BY <2>1 DEF AnswersCome, MasterCycles
<1> QED
  BY <1>1, <1>2, <1>3, <1>4, <1>5 DEF CableEvent

\* A slave the master waits for signals, or goes on.
LEMMA SlaveAnswers ==
  ASSUME NEW q \in Slaves, TypeOK, WaitersOK, MasterOK, MasterCycles, AnswersCome,
         "stop" \notin allow, AheadIInv, CableEvent(q) \/ GBASIOLockstepNodeLoad(q)
  PROVE  AnswersCome'
<1> USE PlayersFact
<1>0. /\ CableTypeOK /\ NodeTypeOK /\ PlayerTypeOK /\ CpuTypeOK
  BY TypeParts
<1>1. /\ pc'[0] = pc[0] /\ (awake[0] => awake'[0]) /\ waitMask' \subseteq waitMask
      /\ UNCHANGED transferActive
  <2>1. signal({q}) => awake'[0] \in BOOLEAN /\ waitMask' \subseteq waitMask /\ (awake[0] => awake'[0])
    BY <1>0 DEF signal, PlayerTypeOK
  <2> QED
    BY <1>0, <2>1, SlaveLeavesMaster DEF PlayerTypeOK
<1>2. SUFFICES ASSUME ~awake[0], ~awake'[0], pc[0] # "post", NEW p \in waitMask, p \in waitMask', Answers(p)
               PROVE  Answers(p)'
  BY <1>1 DEF AnswersCome
<1>3. p \in Slaves /\ transferActive \in {"STARTED", "FINISHED"} /\ loaded[p]
  BY <1>0, <1>2 DEF MasterOK, MasterCycles, Mask, PlayerTypeOK
<1>4. CASE p # q
  <2>1. SlaveState(p)' = SlaveState(p)
    BY <1>3, <1>4, OtherSlave DEF Game
  <2> QED
    BY <1>2, <2>1 DEF Answers, SlaveState
<1>5. CASE p = q
  <2>0. /\ cyclesPosted[p] \in Int /\ eventDiff[p] \in Nat /\ eventDiff[p] <= cyclesPosted[p]
        /\ thread[p] = "running" /\ awake[p]
    BY <1>0, <1>2, <1>3 DEF NodeTypeOK, PlayerTypeOK, AheadIInv, Bounded, Answers
  <2>1. CASE SlaveFires(p)
    <3>1. pc'[p] # "use" /\ UNCHANGED <<thread, awake>>
      BY <1>0, <1>3, <2>1 DEF SlaveFires, InCore, NotYet, cpu, playerVars, CpuTypeOK
    <3> QED
      BY <2>0, <3>1 DEF Answers
  <2>2. CASE SlaveActs(p)
    <3>1. ~signal({p})
      BY <1>2 DEF signal
    <3>2. /\ cyclesPosted'[p] = cyclesPosted[p] + Increment
          /\ UNCHANGED <<eventDiff, thread, awake>>
      BY <1>0, <1>3, <2>2, <3>1 DEF SlaveActs, PlayerTypeOK
    <3>3. eventDiff'[p] < cyclesPosted'[p]
      BY <2>0, <3>2, CyclesAssumption
    <3> QED
      BY <2>0, <3>2, <3>3 DEF Answers
  <2>3. CASE SlaveUses(p)
    <3>1. pc'[p] = "core" /\ cyclesPosted[p] - eventDiff[p] > 0
      BY <1>0, <1>2, <1>3, <2>0, <2>3 DEF SlaveUses, Answers, CpuTypeOK
    <3>2. UNCHANGED <<thread, awake>>
      BY <2>0, <2>3, <3>1 DEF SlaveUses, useCycles
    <3> QED
      BY <2>0, <3>1, <3>2 DEF Answers
  <2>4. CASE LoadCounted(p)
    <3>1. pc'[p] = "core" /\ UNCHANGED <<thread, awake>>
      BY <1>0, <1>3, <2>4 DEF LoadCounted, playerVars, CpuTypeOK
    <3> QED
      BY <2>0, <3>1 DEF Answers
  <2>5. ~GBASIOLockstepNodeLoad(p)
    BY <1>3 DEF GBASIOLockstepNodeLoad
  <2> QED
    BY <1>3, <1>5, <2>1, <2>2, <2>3, <2>4, <2>5 DEF CableEvent
<1> QED
  BY <1>4, <1>5

LEMMA StepAnswerIInv ==
  TypeOK /\ WaitersIInv /\ AheadIInv /\ MasterIInv /\ AnswerIInv /\ [Next]_vars => AnswerIInv'
<1> SUFFICES ASSUME TypeOK, WaitersIInv, AheadIInv, MasterIInv, AnswerIInv, [Next]_vars, Plain
             PROVE  MasterCycles' /\ AnswersCome'
  BY SessionStays DEF AnswerIInv, Plain, allow
<1>1. /\ thread \in [Players -> {"running", "waiting"}]
      /\ "reset" \notin allow /\ "stop" \notin allow /\ MasterOK /\ WaitersOK
      /\ \/ UNCHANGED vars
         \/ \E p \in Players :
              /\ Undisturbed(p)
              /\ \/ CableEvent(p) \/ GBASIOLockstepNodeLoad(p)
                 \/ p = 0 /\ GBASIOLockstepNodeMultiWriteRegister
  BY PlainSteps
<1>2. MasterCycles /\ AnswersCome
  BY DEF AnswerIInv
<1>3. CASE UNCHANGED vars
  BY <1>2, <1>3 DEF vars, cable, node, playerVars, cpu, MasterCycles, AnswersCome, Answers
<1>4. CASE CableEvent(0) \/ GBASIOLockstepNodeLoad(0) \/ GBASIOLockstepNodeMultiWriteRegister
  BY <1>1, <1>2, <1>4, MasterOwnCycles, MasterAnswers
<1>5. ASSUME NEW p \in Slaves, CableEvent(p) \/ GBASIOLockstepNodeLoad(p)
      PROVE  MasterCycles' /\ AnswersCome'
  BY <1>1, <1>2, <1>5, SlaveMasterCycles, SlaveAnswers
<1> QED
  BY <1>1, <1>3, <1>4, <1>5, PlayersFact

LEMMA AnswerIInvHolds == Spec => [](TypeOK /\ WaitersIInv /\ MasterIInv /\ AnswerIInv)
<1>1. Init => AnswerIInv
  BY PlayersFact DEF Init, AnswerIInv, MasterCycles, AnswersCome
<1>2. Init => WaitersIInv /\ AheadIInv /\ MasterIInv
  BY PlayersFact DEF Init, WaitersIInv, WaitersOK, ToldToContinue, AheadIInv, Bounded, MasterIInv,
                     MasterOK, NoReset
<1> QED
  BY <1>1, <1>2, StepAnswerIInv, StepWaitersIInv, StepAheadIInv, StepMasterIInv, TypesOK, PTL DEF Spec

\* While the master sleeps, each player it waits for is in multiplayer mode and runs, or
\* is about to be woken by the master's post: with any number of players, any cycles and
\* lateness, and whatever the threads' interleaving, one that changes the phase between a
\* slave's look at it and its signal included.
THEOREM MasterIsAnswered == Spec => []WaitIsAnswered
<1>1. TypeOK /\ WaitersIInv /\ MasterIInv /\ AnswerIInv => WaitIsAnswered
  <2> SUFFICES ASSUME TypeOK, WaitersIInv, MasterIInv, AnswerIInv, Plain, ~awake[0]
               PROVE  /\ waitMask # {}
                      /\ \A p \in waitMask : loaded[p] /\ (pc[0] = "post" \/ thread[p] = "running")
    BY DEF WaitIsAnswered, Plain
  <2>1. MasterOK /\ MasterCycles /\ AnswersCome
    BY DEF MasterIInv, AnswerIInv, Plain
  <2>2. \A p \in waitMask : loaded[p]
    BY <2>1, TypeParts, PlayersFact DEF MasterOK, MasterCycles, Mask, PlayerTypeOK
  <2> QED
    BY <2>1, <2>2 DEF MasterOK, AnswersCome, Answers
<1> QED
  BY <1>1, AnswerIInvHolds, PTL

-----------------------------------------------------------------------------
(* A transfer brings everyone the same                                     *)

\* The sessions in which events may be late, and the accesses of a slave's event are
\* not taken apart.
Timely == allow \subseteq {"slow"}

\* One player at a time is between two accesses, with what it has read still true.
OneAtATime ==
    /\ \A p, q \in Players : {pc[p], pc[q]} \subseteq {"act", "count"} => p = q
    /\ \A p \in Players : pc[p] = "act" => seen[p] = transferActive
    /\ \A p \in Players : pc[p] = "count" => count[p] = attachedMulti /\ loaded[p]

\* attachedMulti counts those in multiplayer mode, and a transfer is for everyone.
Counted == {p \in Players : loaded[p] /\ pc[p] # "count"}
EveryoneIn ==
    /\ attachedMulti = Cardinality(Counted)
    /\ \A p \in Players : loaded[p] => p \in Attached
    /\ ready \/ transferActive # "IDLE" => \A p \in Attached : loaded[p]

\* Who has signalled in a phase has done what the phase asks for.
PhaseIsDone ==
    /\ transferActive \in {"STARTED", "FINISHING", "FINISHED"} => ~transferFinished[0]
    /\ transferActive = "STARTED" /\ pc[0] # "wait" =>
         \A p \in Attached \ {0} : p \in waitMask \/ (multiRecv[p] # None /\ ~transferFinished[p])
    /\ transferActive \in {"FINISHING", "FINISHED"} => \A p \in Attached : multiRecv[p] # None
    /\ transferActive = "FINISHING" => \A p \in Attached \ {0} : ~transferFinished[p]
    /\ transferActive = "FINISHED" =>
         \A p \in Attached \ {0} : /\ transferFinished[p] => received[p] = multiRecv
                                   /\ pc[0] = "wait" \/ p \in waitMask \/ transferFinished[p]

TransferIInv == Timely => OneAtATime /\ EveryoneIn /\ PhaseIsDone

\* As many players as are attached, all of them attached, are everyone who is.
LEMMA AllCounted ==
  ASSUME NEW n \in Nat, NEW S, S \subseteq 0 .. n - 1, Cardinality(S) = n PROVE S = 0 .. n - 1
<1>1. IsFiniteSet(0 .. n - 1) /\ Cardinality(0 .. n - 1) = n
  <2>1. 0 \in Int /\ n - 1 \in Int /\ (IF 0 > n - 1 THEN 0 ELSE n - 1 - 0 + 1) = n
    OBVIOUS
  <2> QED
    BY <2>1, FS_Interval, Zenon
<1>2. S \in SUBSET (0 .. n - 1)
  OBVIOUS
<1> QED
  BY <1>1, <1>2, FS_Subset, Zenon

\* A player's steps leave the places of the others alone.
LEMMA OtherPlaces ==
  ASSUME NEW p \in Players, NEW q \in Players, q # p, TypeOK,
         CableEvent(p) \/ GBASIOLockstepNodeLoad(p) \/ (p = 0 /\ GBASIOLockstepNodeMultiWriteRegister)
  PROVE  /\ pc'[q] = pc[q] /\ seen'[q] = seen[q] /\ count'[q] = count[q]
         /\ loaded'[q] = loaded[q] /\ UNCHANGED <<attached, session>>
<1> USE PlayersFact
<1>0. NodeTypeOK /\ CpuTypeOK
  BY TypeParts
<1>1. CASE p = 0 /\ (FiresAlone \/ MasterWaits \/ MasterSignals \/ MasterPosts)
  BY <1>0, <1>1 DEF FiresAlone, MasterWaits, MasterSignals, MasterPosts, cable, node, cpu, CpuTypeOK
<1>2. CASE p = 0 /\ MasterFires
  <2>1. PICK left : NotYet(0, left) \/ MasterPhase(left)
    BY <1>2 DEF MasterFires
  <2>2. pc'[q] = pc[q]
    BY <1>0, <1>2, <2>1 DEF NotYet, cpu, MasterPhase, CpuTypeOK
  <2> QED
    BY <1>2, <2>2 DEF MasterFires, NotYet, cable, cpu
<1>3. CASE SlaveFires(p) \/ SlaveActs(p) \/ SlaveUses(p)
  BY <1>0, <1>3 DEF SlaveFires, NotYet, SlaveActs, SlaveUses, cable, cpu, CpuTypeOK
<1>4. CASE LoadCounted(p) \/ GBASIOLockstepNodeLoad(p) \/ GBASIOLockstepNodeMultiWriteRegister
  BY <1>0, <1>4 DEF LoadCounted, GBASIOLockstepNodeLoad, GBASIOLockstepNodeMultiWriteRegister,
     cable, cpu, NodeTypeOK, CpuTypeOK
<1> QED
  BY <1>1, <1>2, <1>3, <1>4 DEF CableEvent

\* The steps by which nobody comes into multiplayer mode, nor is counted.
LEMMA NobodyCounted ==
  ASSUME NEW p \in Players, TypeOK, MasterOK, MasterCycles,
         \/ CableEvent(p) /\ ~LoadCounted(p)
         \/ p = 0 /\ GBASIOLockstepNodeMultiWriteRegister
  PROVE  /\ pc[p] # "count" /\ pc'[p] # "count" /\ UNCHANGED <<loaded, attachedMulti>>
         /\ pc'[p] = "act" => seen'[p] = transferActive'
         /\ transferActive # "IDLE" => ready' = ready \/ ready' = FALSE
         /\ UNCHANGED ready \/ (p = 0 /\ ready' = (attachedMulti = attached))
         /\ transferActive' = transferActive \/ transferActive # "IDLE" \/ ready
<1> USE PlayersFact
<1>0. NodeTypeOK /\ CpuTypeOK
  BY TypeParts
<1>1. CASE p = 0 /\ (FiresAlone \/ MasterWaits \/ MasterSignals \/ MasterPosts)
  <2>1. /\ pc[0] \in {"core", "wait", "signal", "post"} /\ pc'[0] \in {"core", "post"}
        /\ UNCHANGED <<loaded, attachedMulti, ready, transferActive>>
    BY <1>0, <1>1 DEF FiresAlone, MasterWaits, MasterSignals, MasterPosts, InCore, cable, node, cpu,
       CpuTypeOK
  <2> QED
    BY <1>1, <2>1
<1>2. CASE p = 0 /\ MasterFires
  <2>1. PICK left : \/ NotYet(0, left)
                    \/ MasterPhase(left) /\ UNCHANGED <<loaded, attachedMulti>>
    BY <1>2 DEF MasterFires
  <2>2. pc[0] = "core"
    BY <1>2 DEF MasterFires, InCore
  <2>3. CASE NotYet(0, left)
    BY <1>2, <2>2, <2>3 DEF NotYet, cable, cpu
  <2>4. CASE MasterPhase(left) /\ UNCHANGED <<loaded, attachedMulti>>
    <3>1. pc'[0] \in {"wait", "signal"}
      BY <1>0, <2>4 DEF MasterPhase, CpuTypeOK
    <3>2. \/ UNCHANGED ready /\ transferActive # "IDLE"
          \/ ready' = (attachedMulti = attached) /\ UNCHANGED transferActive /\ transferActive = "IDLE"
      BY <2>4 DEF MasterPhase
    <3> QED
      BY <1>2, <2>2, <2>4, <3>1, <3>2
  <2> QED
    BY <2>1, <2>3, <2>4
<1>3. CASE SlaveFires(p)
  BY <1>0, <1>3 DEF SlaveFires, InCore, NotYet, cable, cpu, CpuTypeOK
<1>4. CASE SlaveActs(p) \/ SlaveUses(p)
  BY <1>0, <1>4 DEF SlaveActs, SlaveUses, cable, CpuTypeOK
<1>5. CASE p = 0 /\ GBASIOLockstepNodeMultiWriteRegister
  BY <1>0, <1>5 DEF GBASIOLockstepNodeMultiWriteRegister, InCore, cpu
<1> QED
  BY <1>1, <1>2, <1>3, <1>4, <1>5 DEF CableEvent

LEMMA StepOneAtATime ==
  ASSUME NEW p \in Players, TypeOK, MasterOK, MasterCycles, OneAtATime, Timely, Undisturbed(p),
         CableEvent(p) \/ GBASIOLockstepNodeLoad(p) \/ (p = 0 /\ GBASIOLockstepNodeMultiWriteRegister)
  PROVE  OneAtATime'
<1> USE PlayersFact
<1>0. CpuTypeOK /\ NodeTypeOK
  BY TypeParts
<1>1. \A q \in Players \ {p} : /\ pc[q] \notin {"act", "count"}
                               /\ pc'[q] = pc[q] /\ seen'[q] = seen[q] /\ count'[q] = count[q]
  BY OtherPlaces DEF Timely, Undisturbed
<1>2. /\ pc'[p] = "act" => seen'[p] = transferActive'
      /\ pc'[p] = "count" => count'[p] = attachedMulti' /\ loaded'[p]
  <2>1. CASE LoadCounted(p)
    BY <1>0, <2>1 DEF LoadCounted, CpuTypeOK
  <2>2. CASE GBASIOLockstepNodeLoad(p)
    BY <1>0, <2>2 DEF GBASIOLockstepNodeLoad, cable, CpuTypeOK, NodeTypeOK
  <2> QED
    BY <2>1, <2>2, NobodyCounted
<1> QED
  BY <1>1, <1>2 DEF OneAtATime

LEMMA StepEveryoneIn ==
  ASSUME NEW p \in Players, TypeOK, MasterOK, MasterCycles, OneAtATime, EveryoneIn,
         CableEvent(p) \/ GBASIOLockstepNodeLoad(p) \/ (p = 0 /\ GBASIOLockstepNodeMultiWriteRegister)
  PROVE  EveryoneIn'
<1> USE PlayersFact
<1>0. CableTypeOK /\ NodeTypeOK /\ CpuTypeOK
  BY TypeParts
<1>1. /\ \A q \in Players \ {p} : pc'[q] = pc[q] /\ loaded'[q] = loaded[q]
      /\ attached' = attached
  <2>1. \E q \in Players : q # p
    BY NAssumption DEF Players
  <2> QED
    BY <2>1, OtherPlaces
<1>2. IsFiniteSet(Counted) /\ Attached' = Attached /\ attached \in Nat
  <2>1. IsFiniteSet(Players) /\ Counted \in SUBSET Players
    BY FS_Interval DEF Players, Counted
  <2> QED
    BY <1>0, <1>1, <2>1, FS_Subset DEF Attached, CableTypeOK
<1>3. ASSUME attachedMulti' = Cardinality(Counted'), \A q \in Players : loaded'[q] => q \in Attached,
             attachedMulti' = attached
      PROVE  \A q \in Attached : loaded'[q]
  <2>1. Counted' \subseteq Attached
    BY <1>3 DEF Counted
  <2>2. Counted' = Attached
    BY <1>2, <1>3, <2>1, AllCounted DEF Attached
  <2> QED
    BY <2>2 DEF Counted
<1>4. CASE LoadCounted(p)
  <2>1. /\ pc[p] = "count" /\ pc'[p] = "core" /\ loaded[p] /\ attachedMulti' = attachedMulti + 1
        /\ UNCHANGED <<loaded, transferActive>>
        /\ ready' => ready \/ attachedMulti' = attached
    BY <1>0, <1>4 DEF LoadCounted, OneAtATime, CpuTypeOK
  <2>2. Counted' = Counted \cup {p} /\ p \notin Counted
    BY <1>1, <2>1 DEF Counted
  <2>3. attachedMulti' = Cardinality(Counted')
    BY <1>2, <2>1, <2>2, FS_AddElement DEF EveryoneIn
  <2>4. \A q \in Players : loaded'[q] => q \in Attached
    BY <2>1 DEF EveryoneIn
  <2>5. ready' \/ transferActive' # "IDLE" => \A q \in Attached : loaded'[q]
    <3>1. attachedMulti' = attached => \A q \in Attached : loaded'[q]
      BY <1>3, <2>3, <2>4
    <3> QED
      BY <2>1, <3>1 DEF EveryoneIn
  <2> QED
    BY <1>2, <2>3, <2>4, <2>5 DEF EveryoneIn
<1>5. CASE GBASIOLockstepNodeLoad(p)
  <2>1. /\ ~loaded[p] /\ p \in Attached /\ pc'[p] = "count" /\ loaded'[p]
        /\ UNCHANGED <<attachedMulti, transferActive, ready>>
    BY <1>0, <1>5 DEF GBASIOLockstepNodeLoad, InCore, cable, CpuTypeOK, NodeTypeOK
  <2>2. Counted' = Counted
    BY <1>1, <2>1 DEF Counted
  <2> QED
    BY <1>1, <1>2, <2>1, <2>2 DEF EveryoneIn
<1>6. CASE ~LoadCounted(p) /\ ~GBASIOLockstepNodeLoad(p)
  <2>1. /\ pc[p] # "count" /\ pc'[p] # "count" /\ UNCHANGED <<loaded, attachedMulti>>
        /\ ready' => ready \/ attachedMulti = attached
        /\ transferActive' # "IDLE" => transferActive # "IDLE" \/ ready
    BY <1>6, NobodyCounted
  <2>2. Counted' = Counted
    BY <1>1, <2>1 DEF Counted
  <2>3. /\ attachedMulti' = Cardinality(Counted')
        /\ \A q \in Players : loaded'[q] => q \in Attached
    BY <2>1, <2>2 DEF EveryoneIn
  <2>4. ready' \/ transferActive' # "IDLE" => \A q \in Attached : loaded'[q]
    <3>1. attachedMulti = attached => \A q \in Attached : loaded'[q]
      BY <1>3, <2>1, <2>3
    <3> QED
      BY <2>1, <3>1 DEF EveryoneIn
  <2> QED
    BY <1>2, <2>3, <2>4 DEF EveryoneIn
<1> QED
  BY <1>4, <1>5, <1>6

\* What a transfer has brought so far.
Transferred == <<transferActive, multiRecv, received, transferFinished, attached>>

LEMMA SameTransferred ==
  ASSUME PhaseIsDone, Transferred' = Transferred, waitMask' = waitMask,
         (pc'[0] = "wait") = (pc[0] = "wait")
  PROVE  PhaseIsDone'
BY DEF PhaseIsDone, Transferred, Attached

LEMMA MasterPhaseIsDone ==
  ASSUME TypeOK, MasterOK, MasterCycles, EveryoneIn, PhaseIsDone, None \notin Data,
         CableEvent(0) \/ GBASIOLockstepNodeLoad(0) \/ GBASIOLockstepNodeMultiWriteRegister
  PROVE  PhaseIsDone'
<1> USE PlayersFact
<1>0. CableTypeOK /\ NodeTypeOK /\ PlayerTypeOK /\ CpuTypeOK /\ Attached \subseteq Players
  BY TypeParts, AttachedFact DEF CableTypeOK
<1>1. CASE FiresAlone
  BY <1>1, SameTransferred DEF FiresAlone, cable, playerVars, cpu, Transferred
<1>2. CASE MasterFires
  <2>1. PICK left : NotYet(0, left) \/ MasterPhase(left)
    BY <1>2 DEF MasterFires
  <2>2. /\ pc[0] = "core" /\ thread[0] = "running" /\ UNCHANGED <<attached, waitMask>>
    BY <1>2 DEF MasterFires, InCore, NotYet, cable, playerVars
  <2>3. waitMask = {}
    BY <2>2 DEF MasterOK, MasterCycles
  <2>4. CASE NotYet(0, left)
    BY <2>4, SameTransferred DEF NotYet, cable, playerVars, cpu, Transferred
  <2>5. CASE MasterPhase(left) /\ transferActive \in {"IDLE", "FINISHED"}
    <3>1. transferActive' = "IDLE"
      BY <2>5 DEF MasterPhase
    <3> QED
      BY <3>1 DEF PhaseIsDone
  <2>6. CASE MasterPhase(left) /\ transferActive = "STARTING"
    <3>1. transferActive' = "STARTED" /\ pc'[0] = "wait" /\ ~transferFinished'[0]
      BY <1>0, <2>6 DEF MasterPhase, NodeTypeOK, CpuTypeOK
    <3> QED
      BY <3>1 DEF PhaseIsDone
  <2>7. CASE MasterPhase(left) /\ transferActive = "STARTED"
    <3>1. PICK d \in Data : multiRecv' = [multiRecv EXCEPT ![0] = d]
      BY <2>7 DEF MasterPhase
    <3>2. transferActive' = "FINISHING" /\ UNCHANGED transferFinished /\ Attached' = Attached
      BY <2>2, <2>7 DEF MasterPhase, Attached
    <3>3. \A p \in Attached : multiRecv'[p] # None
      BY <1>0, <2>2, <2>3, <2>7, <3>1 DEF PhaseIsDone, CableTypeOK, Received
    <3>4. ~transferFinished[0] /\ \A p \in Attached \ {0} : ~transferFinished[p]
      BY <2>2, <2>3, <2>7 DEF PhaseIsDone
    <3> QED
      BY <3>2, <3>3, <3>4 DEF PhaseIsDone
  <2>8. CASE MasterPhase(left) /\ transferActive = "FINISHING"
    <3>1. /\ transferActive' = "FINISHED" /\ pc'[0] = "wait" /\ Attached' = Attached
          /\ UNCHANGED <<multiRecv, transferFinished>>
      BY <1>0, <2>2, <2>8 DEF MasterPhase, CpuTypeOK, Attached
    <3> QED
      BY <2>8, <3>1 DEF PhaseIsDone
  <2> QED
    BY <1>0, <2>1, <2>4, <2>5, <2>6, <2>7, <2>8 DEF CableTypeOK, Phases
<1>3. CASE MasterWaits
  <2>1. /\ pc[0] = "wait" /\ transferActive \in {"STARTED", "FINISHED"} /\ waitMask = {}
        /\ Transferred' = Transferred /\ Attached' = Attached
    BY <1>3 DEF MasterWaits, MasterOK, cable, node, Transferred, Attached
  <2>2. Mask = Attached \ {0}
    <3>1. \A p \in Attached : loaded[p]
      BY <2>1 DEF EveryoneIn
    <3>2. loaded[0] /\ multi[0] = loaded[0]
      BY <2>1 DEF MasterCycles
    <3>3. \A p \in Attached : multi[p] = loaded[p]
      BY <1>0 DEF MasterCycles
    <3>4. \A p \in Attached : (multi[p] \in BOOLEAN /\ multi[0] \in BOOLEAN) => multi[p] = multi[0]
      BY <3>1, <3>2, <3>3
    <3>5. \A p \in Attached : multi[p] \in BOOLEAN /\ multi[0] \in BOOLEAN
      BY <1>0 DEF NodeTypeOK
    <3> QED
      BY <3>4, <3>5 DEF Mask
  <2>3. waitMask' = Attached \ {0}
    BY <1>3, <2>1, <2>2 DEF MasterWaits, wait
  <2> QED
    BY <2>1, <2>3 DEF PhaseIsDone, Transferred
<1>4. CASE MasterSignals
  <2>1. transferActive \in {"IDLE", "FINISHING"} /\ Transferred' = Transferred /\ Attached' = Attached
    BY <1>4 DEF MasterSignals, MasterCycles, cable, node, Transferred, Attached
  <2> QED
    BY <2>1 DEF PhaseIsDone, Transferred
<1>5. CASE MasterPosts
  <2>1. pc[0] = "post" /\ pc'[0] = "core" /\ Transferred' = Transferred /\ UNCHANGED waitMask
    BY <1>0, <1>5 DEF MasterPosts, cable, Transferred, CpuTypeOK
  <2> QED
    BY <2>1, SameTransferred
<1>6. CASE LoadCounted(0) \/ GBASIOLockstepNodeLoad(0)
  <2>1. /\ pc[0] \in {"core", "count"} /\ pc'[0] \in {"core", "count"}
        /\ Transferred' = Transferred /\ UNCHANGED waitMask
    BY <1>0, <1>6 DEF LoadCounted, GBASIOLockstepNodeLoad, InCore, cable, playerVars, Transferred, CpuTypeOK
  <2> QED
    BY <2>1, SameTransferred
<1>7. CASE GBASIOLockstepNodeMultiWriteRegister
  <2>1. transferActive' = "STARTING"
    BY <1>7 DEF GBASIOLockstepNodeMultiWriteRegister
  <2> QED
    BY <2>1 DEF PhaseIsDone
<1> QED
  BY <1>1, <1>2, <1>3, <1>4, <1>5, <1>6, <1>7 DEF CableEvent

LEMMA SlavePhaseIsDone ==
  ASSUME NEW q \in Slaves, TypeOK, OneAtATime, PhaseIsDone, None \notin Data,
         CableEvent(q) \/ GBASIOLockstepNodeLoad(q)
  PROVE  PhaseIsDone'
<1> USE PlayersFact
<1>0. CableTypeOK /\ NodeTypeOK /\ PlayerTypeOK /\ CpuTypeOK /\ Attached \subseteq Players
  BY TypeParts, AttachedFact DEF CableTypeOK
<1>1. CASE ~SlaveActs(q)
  <2>1. pc'[0] = pc[0] /\ waitMask' = waitMask
    BY <1>1, SlaveLeavesMaster
  <2>2. Transferred' = Transferred
    BY <1>1 DEF CableEvent, SlaveFires, NotYet, SlaveUses, LoadCounted, GBASIOLockstepNodeLoad, cable,
       Transferred
  <2> QED
    BY <2>1, <2>2, SameTransferred
<1>2. CASE SlaveActs(q)
  <2>1. /\ seen[q] = transferActive /\ pc'[0] = pc[0] /\ Attached' = Attached
        /\ UNCHANGED transferActive
    BY <1>0, <1>2 DEF SlaveActs, OneAtATime, CpuTypeOK, Attached
  <2>2. CASE seen[q] = "IDLE"
    BY <2>1, <2>2 DEF PhaseIsDone
  <2>3. CASE seen[q] = "STARTED"
    <3>1. PICK d \in Data : multiRecv' = [multiRecv EXCEPT ![q] = d]
      BY <1>2, <2>3 DEF SlaveActs
    <3>2. /\ transferFinished' = [transferFinished EXCEPT ![q] = FALSE]
          /\ waitMask' = waitMask \ {q}
      BY <1>2, <2>3 DEF SlaveActs, signal
    <3>3. ~transferFinished'[0]
      BY <1>0, <2>1, <2>3, <3>2 DEF PhaseIsDone, NodeTypeOK
    <3>4. ASSUME NEW p \in Attached \ {0}, pc[0] # "wait"
          PROVE  p \in waitMask' \/ (multiRecv'[p] # None /\ ~transferFinished'[p])
      <4>1. CASE p = q
        BY <1>0, <3>1, <3>2, <4>1 DEF CableTypeOK, NodeTypeOK, Received
      <4>2. CASE p # q
        <5>1. multiRecv'[p] = multiRecv[p] /\ transferFinished'[p] = transferFinished[p]
          BY <1>0, <3>1, <3>2, <4>2 DEF CableTypeOK, NodeTypeOK, Received
        <5> QED
          BY <2>1, <2>3, <3>2, <3>4, <4>2, <5>1 DEF PhaseIsDone
      <4> QED
        BY <4>1, <4>2
    <3> QED
      BY <2>1, <2>3, <3>3, <3>4 DEF PhaseIsDone
  <2>4. CASE seen[q] = "FINISHED"
    <3>1. /\ transferFinished' = [transferFinished EXCEPT ![q] = TRUE]
          /\ received' = IF transferFinished[q] THEN received ELSE [received EXCEPT ![q] = multiRecv]
          /\ waitMask' = waitMask \ {q} /\ UNCHANGED multiRecv
      BY <1>2, <2>4 DEF SlaveActs, _finishTransfer, signal
    <3>2. ~transferFinished'[0]
      BY <1>0, <2>1, <2>4, <3>1 DEF PhaseIsDone, NodeTypeOK
    <3>3. ASSUME NEW p \in Attached \ {0}
          PROVE  /\ transferFinished'[p] => received'[p] = multiRecv
                 /\ pc[0] = "wait" \/ p \in waitMask' \/ transferFinished'[p]
      <4>1. CASE p = q
        BY <1>0, <2>1, <2>4, <3>1, <4>1 DEF PhaseIsDone, NodeTypeOK
      <4>2. CASE p # q
        <5>1. received'[p] = received[p] /\ transferFinished'[p] = transferFinished[p]
          BY <1>0, <3>1, <4>2 DEF NodeTypeOK
        <5> QED
          BY <2>1, <2>4, <3>1, <4>2, <5>1 DEF PhaseIsDone
      <4> QED
        BY <4>1, <4>2
    <3> QED
      BY <2>1, <2>4, <3>1, <3>2, <3>3 DEF PhaseIsDone
  <2> QED
    BY <1>2, <2>2, <2>3, <2>4 DEF SlaveActs
<1> QED
  BY <1>1, <1>2

LEMMA StepTransferIInv ==
  ASSUME None \notin Data
  PROVE  /\ TypeOK /\ WaitersIInv /\ MasterIInv /\ AnswerIInv /\ TransferIInv /\ [Next]_vars
              => TransferIInv'
<1> SUFFICES ASSUME TypeOK, WaitersIInv, MasterIInv, AnswerIInv, TransferIInv, [Next]_vars, Timely
             PROVE  OneAtATime' /\ EveryoneIn' /\ PhaseIsDone'
  BY SessionStays DEF TransferIInv, Timely, allow
<1>1. Plain /\ MasterCycles /\ OneAtATime /\ EveryoneIn /\ PhaseIsDone
  BY DEF Timely, Plain, AnswerIInv, TransferIInv
<1>2. /\ MasterOK
      /\ \/ UNCHANGED vars
         \/ \E p \in Players :
              /\ Undisturbed(p)
              /\ \/ CableEvent(p) \/ GBASIOLockstepNodeLoad(p)
                 \/ p = 0 /\ GBASIOLockstepNodeMultiWriteRegister
  BY <1>1, PlainSteps
<1>3. CASE UNCHANGED vars
  BY <1>1, <1>3 DEF vars, cable, node, playerVars, cpu, OneAtATime, EveryoneIn, Counted, Attached,
     PhaseIsDone
<1>4. ASSUME NEW p \in Players, Undisturbed(p),
             CableEvent(p) \/ GBASIOLockstepNodeLoad(p)
               \/ (p = 0 /\ GBASIOLockstepNodeMultiWriteRegister)
      PROVE  OneAtATime' /\ EveryoneIn' /\ PhaseIsDone'
  <2>1. OneAtATime' /\ EveryoneIn'
    BY <1>1, <1>2, <1>4, StepOneAtATime, StepEveryoneIn
  <2>2. PhaseIsDone'
    BY <1>1, <1>2, <1>4, MasterPhaseIsDone, SlavePhaseIsDone, PlayersFact
  <2> QED
    BY <2>1, <2>2
<1> QED
  BY <1>2, <1>3, <1>4

\* What TransfersAgree says of a step.
Agreement ==
  Timely /\ transferActive = "FINISHED" /\ transferActive' = "IDLE" =>
    \A p \in Mask : /\ transferFinished[p] /\ received[p] = received'[0]
                    /\ None \notin {received[p][q] : q \in Attached}

LEMMA StepAgreement ==
  TypeOK /\ WaitersIInv /\ MasterIInv /\ AnswerIInv /\ TransferIInv /\ [Next]_vars => Agreement
<1> SUFFICES ASSUME TypeOK, WaitersIInv, MasterIInv, AnswerIInv, TransferIInv, [Next]_vars, Timely,
                    transferActive = "FINISHED", transferActive' = "IDLE", NEW p \in Mask
             PROVE  /\ transferFinished[p] /\ received[p] = received'[0]
                    /\ None \notin {received[p][q] : q \in Attached}
  BY DEF Agreement
<1>0. /\ CableTypeOK /\ NodeTypeOK /\ CpuTypeOK
  BY TypeParts
<1>1. Plain /\ MasterCycles /\ PhaseIsDone
  BY DEF Timely, Plain, AnswerIInv, TransferIInv
<1>2. /\ MasterOK
      /\ \/ UNCHANGED vars
         \/ \E q \in Players : \/ CableEvent(q) \/ GBASIOLockstepNodeLoad(q)
                               \/ q = 0 /\ GBASIOLockstepNodeMultiWriteRegister
  BY <1>1, PlainSteps
<1>3. MasterFires
  BY <1>2, PlayersFact
     DEF vars, cable, CableEvent, FiresAlone, MasterWaits, MasterSignals, MasterPosts, SlaveFires, NotYet,
         SlaveActs, SlaveUses, LoadCounted, GBASIOLockstepNodeLoad, GBASIOLockstepNodeMultiWriteRegister
<1>4. PICK left : MasterPhase(left)
  BY <1>3 DEF MasterFires, NotYet, cable
<1>5. received' = [received EXCEPT ![0] = multiRecv]
  BY <1>1, <1>4 DEF MasterPhase, _finishTransfer, PhaseIsDone
<1>6. pc[0] = "core" /\ waitMask = {} /\ p \in Attached \ {0}
  BY <1>1, <1>2, <1>3 DEF MasterFires, InCore, MasterOK, MasterCycles, Mask
<1>7. received'[0] = multiRecv
  BY <1>0, <1>5, PlayersFact DEF NodeTypeOK
<1>8. /\ transferFinished[p] /\ received[p] = multiRecv
      /\ \A q \in Attached : multiRecv[q] # None
  BY <1>1, <1>6 DEF PhaseIsDone
<1> QED
  BY <1>7, <1>8

\* When the master ends a transfer everyone it did it with has ended it too, and all have
\* received the same, from everyone: with any number of players, any cycles and any
\* lateness, if no game sends the word that stands for nothing.
THEOREM TransfersEndAlike == ASSUME None \notin Data PROVE Spec => TransfersAgree
<1>1. Init => TransferIInv
  <2> SUFFICES ASSUME Init, Timely PROVE OneAtATime /\ EveryoneIn /\ PhaseIsDone
    BY DEF TransferIInv
  <2>1. Counted = {} /\ Cardinality({}) = 0
    BY FS_EmptySet DEF Init, Counted
  <2>2. attached \in Nat /\ "late" \notin allow /\ attached = session.players
    BY SessionsAssumption, NAssumption DEF Init, Timely
  <2> QED
    BY <2>1, <2>2, PlayersFact DEF Init, OneAtATime, EveryoneIn, PhaseIsDone
<1>2. TypeOK /\ WaitersIInv /\ MasterIInv /\ AnswerIInv /\ TransferIInv /\ [Next]_vars
        => [Agreement]_vars
  BY StepAgreement
<1>3. [Agreement]_vars =>
        [allow \subseteq {"slow"} /\ transferActive = "FINISHED" /\ transferActive' = "IDLE" =>
           \A p \in Mask : /\ transferFinished[p] /\ received[p] = received'[0]
                           /\ None \notin {received[p][q] : q \in Attached}]_vars
  BY DEF Agreement, Timely
<1> QED
  BY <1>1, <1>2, <1>3, StepTransferIInv, AnswerIInvHolds, PTL DEF Spec, TransfersAgree
=============================================================================
