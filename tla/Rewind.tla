--------------------------------- MODULE Rewind ---------------------------------
(***************************************************************************)
(* core/rewind.c: the states a machine can be rewound to, kept as two      *)
(* whole states and a ring of the differences between consecutive ones     *)
(* (util/patch-fast.c).  The CPU thread saves and restores at the start of *)
(* a frame; a second thread makes the differences.  Every function holds   *)
(* the mutex from its first line to its last, and is one step.             *)
(***************************************************************************)
EXTENDS Integers, FiniteSets, Sequences

CONSTANTS Frames,      \* the states a machine can be in at the start of a frame
          Capacities,  \* the values of rewindBufferCapacity
          Timely       \* is the second thread always done before the next frame?

ASSUME RewindAssumption ==
  /\ Capacities \subseteq Nat \ {0}
  /\ Timely \in BOOLEAN

(***************************************************************************)
(* The content of a state file is a set of frames: {f} is the state of the *)
(* frame f, {} a file of zeros, and the exclusive or of two contents their *)
(* symmetric difference.                                                   *)
(***************************************************************************)
Contents == SUBSET Frames
Wholes == {{f} : f \in Frames}
Zeros == {}
Xor(a, b) == (a \ b) \cup (b \ a)

VARIABLES
  core,           \* the state of the machine
  opened,         \* context->currentState is not NULL
  entries,        \* the size of patchMemory
  patchMemory,    \* the ring of differences
  current,        \* its slot with the difference of the two states below
  size,           \* how many of the differences can be undone
  previousState, currentState,
  onThread,       \* the difference thread is to go on
  ready,          \* a difference is to be made
  cpu,            \* where the CPU thread is
  differ          \* where the difference thread is

\* The slots of the ring, which are there while the context is open.
Slots == IF opened THEN 0..(entries - 1) ELSE {}

ring == <<patchMemory, current, size>>
states == <<previousState, currentState>>
vars == <<core, opened, entries, ring, states, onThread, ready, cpu, differ>>

--------------------------------------------------------------------------------
(* The context *)

\* Mutant: the context starts with the size the one before has left.
InitKeepsSize(n, threaded) ==
  /\ cpu = "frame" /\ ~opened
  /\ opened' = TRUE
  /\ entries' = n /\ patchMemory' = [e \in 0..(n - 1) |-> Zeros]
  /\ previousState' = Zeros /\ currentState' = Zeros
  /\ onThread' = threaded /\ ready' = FALSE
  /\ differ' = IF threaded THEN "starting" ELSE "none"
  /\ UNCHANGED <<core, current, size, cpu>>

\* current is not reset.
mCoreRewindContextInit(n, threaded) ==
  /\ cpu = "frame" /\ ~opened
  /\ opened' = TRUE
  /\ entries' = n /\ patchMemory' = [e \in 0..(n - 1) |-> Zeros]
  /\ previousState' = Zeros /\ currentState' = Zeros
  /\ size' = 0
  /\ onThread' = threaded /\ ready' = FALSE
  /\ differ' = IF threaded THEN "starting" ELSE "none"
  /\ UNCHANGED <<core, current, cpu>>

\* The two states are closed and the ring is freed.
Close ==
  /\ opened' = FALSE
  /\ previousState' = Zeros /\ currentState' = Zeros
  /\ patchMemory' = [e \in {} |-> Zeros]
  /\ cpu' = "frame" /\ differ' = "none"
  /\ UNCHANGED <<core, entries, current, size, onThread, ready>>

mCoreRewindContextDeinit ==
  /\ cpu = "frame" /\ opened
  /\ \/ ~onThread /\ Close
     \/ /\ onThread /\ onThread' = FALSE
        /\ cpu' = "wake"
        /\ UNCHANGED <<core, opened, entries, ring, states, ready, differ>>

\* Mutant: the difference thread is not woken.
ConditionWakeSkipped ==
  /\ cpu = "wake" /\ cpu' = "join"
  /\ UNCHANGED <<core, opened, entries, ring, states, onThread, ready, differ>>

Woken(place) == IF place = "asleep" THEN "awake" ELSE place

\* The wakeup comes after the mutex has been given back.
DeinitWakes ==
  /\ cpu = "wake" /\ cpu' = "join"
  /\ differ' = Woken(differ)
  /\ UNCHANGED <<core, opened, entries, ring, states, onThread, ready>>

ThreadJoined == cpu = "join" /\ differ = "ended" /\ Close

--------------------------------------------------------------------------------
(* Saving and restoring *)

\* Mutant: a full ring is taken to hold one difference more.
DiffOneTooMany(previous, next) ==
  LET slot == IF current + 1 >= entries THEN 0 ELSE current + 1
  IN /\ current' = slot
     /\ size' = IF size <= entries THEN size + 1 ELSE size
     /\ patchMemory' = [patchMemory EXCEPT ![slot] = Xor(previous, next)]

_rewindDiff(previous, next) ==
  LET slot == IF current + 1 >= entries THEN 0 ELSE current + 1
  IN /\ current' = slot
     /\ size' = IF size < entries THEN size + 1 ELSE size
     /\ patchMemory' = [patchMemory EXCEPT ![slot] = Xor(previous, next)]

\* The state goes into the older of the two files.
mCoreRewindAppend ==
  /\ cpu \in {"frame", "append"} /\ opened
  /\ Timely => ~ready
  /\ previousState' = currentState
  /\ currentState' = core
  /\ cpu' = "frame"
  /\ \/ onThread /\ ready' = TRUE /\ differ' = Woken(differ) /\ UNCHANGED ring
     \/ ~onThread /\ _rewindDiff(currentState, core) /\ UNCHANGED <<ready, differ>>
  /\ UNCHANGED <<core, opened, entries, onThread>>

\* A content that is refused leaves the core alone.  Of an even number of states
\* the exclusive or has no magic number in its header.  Of an odd number it has
\* one, with the right checksums, and may pass the other tests or not.
mCoreLoadStateNamed(content) ==
  core' \in IF Cardinality(content) % 2 = 0 THEN {core}
           ELSE IF content \in Wholes THEN {content}
           ELSE {content, core}

\* Mutant: the newest difference is undone instead of the one before.
RestoreNewest ==
  LET slot == IF current = 0 THEN entries - 1 ELSE current - 1
  IN /\ cpu = "frame" /\ opened /\ size > 0
     /\ Timely => ~ready
     /\ size' = size - 1 /\ current' = slot
     /\ mCoreLoadStateNamed(previousState)
     /\ previousState' = Xor(previousState, patchMemory[current])
     /\ currentState' = previousState
     /\ UNCHANGED <<opened, entries, patchMemory, onThread, ready, cpu, differ>>

\* Loads the older state and undoes one more difference, into the file of the
\* newer one.  (The code does not ask whether the context is open: after Deinit
\* size may be positive, and what a call does then is left out.)
mCoreRewindRestore ==
  LET slot == IF current = 0 THEN entries - 1 ELSE current - 1
  IN /\ cpu = "frame" /\ opened /\ size > 0
     /\ Timely => ~ready
     /\ size' = size - 1 /\ current' = slot
     /\ mCoreLoadStateNamed(previousState)
     /\ previousState' = Xor(previousState, patchMemory[slot])
     /\ currentState' = previousState
     /\ UNCHANGED <<opened, entries, patchMemory, onThread, ready, cpu, differ>>

\* Nothing to restore: _frameStarted appends instead.
NothingToRestore ==
  /\ cpu = "frame" /\ opened /\ size = 0
  /\ cpu' = "append"
  /\ UNCHANGED <<core, opened, entries, ring, states, onThread, ready, differ>>

\* The core runs up to the start of another frame.
RunFrame ==
  /\ cpu = "frame"
  /\ core' \in Wholes
  /\ UNCHANGED <<opened, entries, ring, states, onThread, ready, cpu, differ>>

\* One round of _rewindThread, from one wait to the next.
_rewindThread ==
  /\ differ \in {"starting", "awake"}
  /\ \/ /\ ready /\ (onThread \/ differ = "awake")
        /\ _rewindDiff(previousState, currentState)
        /\ ready' = FALSE
     \/ /\ ~(ready /\ (onThread \/ differ = "awake"))
        /\ UNCHANGED <<ring, ready>>
  /\ differ' = IF onThread THEN "asleep" ELSE "ended"
  /\ UNCHANGED <<core, opened, entries, states, onThread, cpu>>

\* A wait may end without a wakeup.
SpuriousWakeup ==
  /\ differ = "asleep" /\ differ' = "awake"
  /\ UNCHANGED <<core, opened, entries, ring, states, onThread, ready, cpu>>

Init ==
  /\ core \in Wholes
  /\ opened = FALSE /\ entries = 0
  /\ patchMemory = [e \in {} |-> Zeros] /\ current = 0 /\ size = 0
  /\ previousState = Zeros /\ currentState = Zeros
  /\ onThread = FALSE /\ ready = FALSE
  /\ cpu = "frame" /\ differ = "none"

Next ==
  \/ \E n \in Capacities, threaded \in BOOLEAN : mCoreRewindContextInit(n, threaded)
  \/ mCoreRewindContextDeinit \/ DeinitWakes \/ ThreadJoined
  \/ mCoreRewindAppend \/ mCoreRewindRestore \/ NothingToRestore
  \/ RunFrame \/ _rewindThread \/ SpuriousWakeup

\* The difference thread is scheduled, and the CPU thread finishes what it is in.
Fairness ==
  /\ WF_vars(_rewindThread)
  /\ WF_vars(DeinitWakes) /\ WF_vars(ThreadJoined)

Spec == Init /\ [][Next]_vars /\ Fairness

--------------------------------------------------------------------------------
(* Properties *)

\* The types of the variables; the ring has its slots while the context is open
\* and none afterwards (mCoreRewindContextDeinit).
TypeOK ==
  /\ core \in Contents /\ previousState \in Contents /\ currentState \in Contents
  /\ opened \in BOOLEAN /\ onThread \in BOOLEAN /\ ready \in BOOLEAN
  /\ entries \in Nat /\ current \in Nat /\ size \in Nat
  /\ patchMemory \in [Slots -> Contents]
  /\ cpu \in {"frame", "append", "wake", "join"}
  /\ differ \in {"none", "starting", "asleep", "awake", "ended"}

\* While there is something to restore, the slot of the newest difference is in
\* the ring, and no more is to be restored than the ring holds: although
\* mCoreRewindContextInit leaves current as the context before has left it, and
\* the new ring may be smaller.
SlotsInRange == size \in 0..entries /\ (size > 0 => current < entries)

\* The machine is always in the state of one frame: what mCoreRewindRestore loads
\* is never a mixture of several.
CoreIsWhole == core \in Wholes

\* mCoreRewindContextDeinit returns: the difference thread hears of it, asleep or
\* not, and ends.
DeinitReturns == cpu \in {"wake", "join"} ~> cpu = "frame"

(***************************************************************************)
(* The states of the stack, read off the ring.  A difference that is still *)
(* to be made counts as made.                                              *)
(***************************************************************************)
pending == IF ready /\ size < entries THEN size + 1 ELSE size

\* The slot of the difference j before the newest one, and those of the j from 1 to i.
SlotBefore(j) ==
  LET newest == IF ready THEN current + 1 ELSE current
  IN IF j <= newest THEN newest - j ELSE newest - j + entries
Undone(i) == {SlotBefore(j) : j \in 1..i}

\* A content combined with the differences in some slots: a frame is in it if an
\* odd number of them have it.
Combined(content, slots) ==
  {f \in Frames : Cardinality({slot \in slots : f \in patchMemory[slot]})
                    % 2 = (IF f \in content THEN 0 ELSE 1)}

\* The state i before previousState.
Back(i) == Combined(previousState, Undone(i))

Past == IF opened THEN [i \in 1..pending |-> Back(pending - i)] ELSE <<>>

Stack == INSTANCE RewindStack WITH latest <- currentState, past <- Past, depth <- entries

\* mCoreRewindRestore gives back the states mCoreRewindAppend has saved, latest
\* first, as many as the ring has slots.
ImplementsStack == Stack!StackSpec
================================================================================
