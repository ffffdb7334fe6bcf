------------------------------ MODULE RewindProofs ------------------------------
(***************************************************************************)
(* Theorems about Rewind: the ring of differences keeps its types and its  *)
(* bounds for any states, any capacities, and however late the differences *)
(* are made.  If they are made before the next frame, the ring is a stack  *)
(* of the last states.                                                     *)
(***************************************************************************)
EXTENDS Rewind, TLAPS, FiniteSetTheorems, SequenceTheorems

RingInv == TypeOK /\ SlotsInRange

\* A difference goes into a slot of the ring and leaves the bounds as they were.
LEMMA DiffInRange ==
  ASSUME RingInv, NEW previous \in Contents, NEW next \in Contents,
         _rewindDiff(previous, next)
  PROVE  /\ current' \in Nat /\ size' \in Nat
         /\ size' \in 0..entries /\ (size' > 0 => current' < entries)
         /\ patchMemory' \in [Slots -> Contents]
<1>1. Xor(previous, next) \in Contents
  BY DEF Xor, Contents
<1>2. patchMemory' \in [Slots -> Contents]
  <2>1. patchMemory \in [Slots -> Contents]
    BY DEF RingInv, TypeOK
  <2>2. PICK slot : patchMemory' = [patchMemory EXCEPT ![slot] = Xor(previous, next)]
    BY DEF _rewindDiff
  <2> QED
    BY <1>1, <2>1, <2>2
<1>3. entries \in Nat /\ current \in Nat /\ size \in 0..entries
  BY DEF RingInv, TypeOK, SlotsInRange
<1>4. /\ current' = IF current + 1 >= entries THEN 0 ELSE current + 1
      /\ size' = IF size < entries THEN size + 1 ELSE size
  BY DEF _rewindDiff
<1> QED
  BY <1>2, <1>3, <1>4

LEMMA RingInvInit == Init => RingInv
<1> SUFFICES ASSUME Init PROVE RingInv
  OBVIOUS
<1>1. patchMemory \in [{} -> Contents]
  BY DEF Init, Contents, Zeros
<1>2. core \in Contents /\ previousState \in Contents /\ currentState \in Contents
  BY DEF Init, Wholes, Contents, Zeros
<1>3. /\ opened = FALSE /\ entries = 0 /\ current = 0 /\ size = 0
      /\ onThread = FALSE /\ ready = FALSE /\ cpu = "frame" /\ differ = "none"
  BY DEF Init
<1>4. Slots = {}
  BY <1>3 DEF Slots
<1>5. patchMemory \in [Slots -> Contents]
  BY <1>1, <1>4, Zenon
<1>6. opened \in BOOLEAN /\ onThread \in BOOLEAN /\ ready \in BOOLEAN
  BY <1>3
<1>7. entries \in Nat /\ current \in Nat /\ size \in Nat /\ SlotsInRange
  BY <1>3 DEF SlotsInRange
<1> QED
  BY <1>2, <1>3, <1>5, <1>6, <1>7 DEF RingInv, TypeOK

LEMMA RingInvStep == RingInv /\ [Next]_vars => RingInv'
<1> SUFFICES ASSUME RingInv, [Next]_vars PROVE RingInv'
  OBVIOUS
<1> USE DEF RingInv, ring, states
<1>0. UNCHANGED <<opened, entries>> => Slots' = Slots
  BY DEF Slots
<1>1. ASSUME NEW n \in Capacities, NEW threaded \in BOOLEAN,
              mCoreRewindContextInit(n, threaded)
       PROVE  RingInv'
  <2>1. n \in Nat \ {0}
    BY RewindAssumption
  <2>2. patchMemory' \in [0..(n - 1) -> Contents]
    BY <1>1 DEF mCoreRewindContextInit, Zeros, Contents
  <2>3. opened' = TRUE /\ entries' = n /\ size' = 0 /\ onThread' = threaded /\ ready' = FALSE
    BY <1>1 DEF mCoreRewindContextInit
  <2>4. differ' \in {"starting", "none"}
    BY <1>1 DEF mCoreRewindContextInit
  <2>5. previousState' \in Contents /\ currentState' \in Contents
    BY <1>1 DEF mCoreRewindContextInit, Zeros, Contents
  <2>6. UNCHANGED <<core, current, cpu>>
    BY <1>1 DEF mCoreRewindContextInit
  <2>7. Slots' = 0..(n - 1)
    BY <2>3 DEF Slots
  <2>8. (patchMemory \in [Slots -> Contents])'
    BY <2>2, <2>7, Zenon DEF Contents
  <2>9. (opened \in BOOLEAN /\ onThread \in BOOLEAN /\ ready \in BOOLEAN)'
    BY <2>3
  <2>10. (entries \in Nat /\ current \in Nat /\ size \in Nat /\ SlotsInRange)'
    BY <2>1, <2>3, <2>6 DEF TypeOK, SlotsInRange
  <2> QED
    BY <2>4, <2>5, <2>6, <2>8, <2>9, <2>10 DEF TypeOK
<1>2. ASSUME Close PROVE RingInv'
  <2>1. Slots' = {}
    BY <1>2 DEF Close, Slots
  <2>2. patchMemory' \in [{} -> Contents]
    BY <1>2 DEF Close, Zeros, Contents
  <2>3. (patchMemory \in [Slots -> Contents])'
    BY <2>1, <2>2, Zenon DEF Contents
  <2>4. (opened \in BOOLEAN /\ previousState \in Contents /\ currentState \in Contents)'
    BY <1>2 DEF Close, Zeros, Contents
  <2> QED
    BY <1>2, <2>3, <2>4 DEF Close, TypeOK, SlotsInRange, Contents
<1>3. CASE mCoreRewindContextDeinit
  BY <1>0, <1>2, <1>3 DEF mCoreRewindContextDeinit, TypeOK, SlotsInRange
<1>4. CASE DeinitWakes
  BY <1>0, <1>4 DEF DeinitWakes, Woken, TypeOK, SlotsInRange
<1>5. CASE ThreadJoined
  BY <1>2, <1>5 DEF ThreadJoined
<1>6. CASE mCoreRewindAppend
  <2>1. currentState \in Contents /\ core \in Contents
    BY DEF TypeOK
  <2>2. CASE onThread
    BY <1>0, <1>6, <2>1, <2>2 DEF mCoreRewindAppend, Woken, TypeOK, SlotsInRange
  <2>3. CASE ~onThread
    <3>1. _rewindDiff(currentState, core) /\ UNCHANGED <<ready, differ, opened, entries>>
      BY <1>6, <2>3 DEF mCoreRewindAppend
    <3>2. /\ current' \in Nat /\ size' \in Nat
          /\ size' \in 0..entries /\ (size' > 0 => current' < entries)
          /\ patchMemory' \in [Slots -> Contents]
      BY <2>1, <3>1, DiffInRange
    <3> QED
      BY <1>0, <1>6, <2>1, <3>1, <3>2 DEF mCoreRewindAppend, TypeOK, SlotsInRange
  <2> QED
    BY <2>2, <2>3
<1>7. CASE mCoreRewindRestore
  <2>1. core' \in Contents
    BY <1>7 DEF mCoreRewindRestore, mCoreLoadStateNamed, TypeOK
  <2>2. previousState' \in Contents
    <3>1. PICK slot \in 0..(entries - 1) :
            previousState' = Xor(previousState, patchMemory[slot])
      BY <1>7 DEF mCoreRewindRestore, TypeOK, SlotsInRange
    <3>2. patchMemory[slot] \in Contents
      BY <1>7, <3>1 DEF mCoreRewindRestore, TypeOK, Slots
    <3> QED
      BY <3>1, <3>2 DEF TypeOK, Xor, Contents
  <2>3. size' \in 0..entries /\ current' \in Nat /\ current' < entries
    BY <1>7 DEF mCoreRewindRestore, TypeOK, SlotsInRange
  <2> QED
    BY <1>0, <1>7, <2>1, <2>2, <2>3 DEF mCoreRewindRestore, TypeOK, SlotsInRange
<1>8. CASE NothingToRestore
  BY <1>0, <1>8 DEF NothingToRestore, TypeOK, SlotsInRange
<1>9. CASE RunFrame
  BY <1>0, <1>9 DEF RunFrame, Wholes, Contents, TypeOK, SlotsInRange
<1>10. CASE _rewindThread
  <2>1. UNCHANGED <<core, opened, entries, states, onThread, cpu>>
    BY <1>10 DEF _rewindThread
  <2>2. ready' \in BOOLEAN /\ differ' \in {"asleep", "ended"}
    BY <1>10 DEF _rewindThread, TypeOK
  <2>3. CASE UNCHANGED ring
    BY <1>0, <2>1, <2>2, <2>3 DEF TypeOK, SlotsInRange
  <2>4. CASE _rewindDiff(previousState, currentState)
    <3>1. /\ current' \in Nat /\ size' \in Nat
          /\ size' \in 0..entries /\ (size' > 0 => current' < entries)
          /\ patchMemory' \in [Slots -> Contents]
      BY <2>4, DiffInRange DEF TypeOK
    <3> QED
      BY <1>0, <2>1, <2>2, <3>1 DEF TypeOK, SlotsInRange
  <2> QED
    BY <1>10, <2>3, <2>4 DEF _rewindThread
<1>11. CASE SpuriousWakeup
  BY <1>0, <1>11 DEF SpuriousWakeup, TypeOK, SlotsInRange
<1>12. CASE UNCHANGED vars
  BY <1>0, <1>12 DEF vars, TypeOK, SlotsInRange
<1> QED
  BY <1>1, <1>3, <1>4, <1>5, <1>6, <1>7, <1>8, <1>9, <1>10, <1>11, <1>12 DEF Next

LEMMA RingInvHolds == Spec => []RingInv
BY RingInvInit, RingInvStep, PTL DEF Spec

\* The variables of struct mCoreRewindContext keep their types.
THEOREM RewindTypesOK == Spec => []TypeOK
<1>1. RingInv => TypeOK
  BY DEF RingInv
<1> QED
  BY <1>1, RingInvHolds, PTL

\* Whenever mCoreRewindRestore or _rewindDiff takes a slot, the ring has it: for
\* every capacity, however contexts of different capacities follow one another,
\* and however late the difference thread runs.
THEOREM RingStaysInRange == Spec => []SlotsInRange
<1>1. RingInv => SlotsInRange
  BY DEF RingInv
<1> QED
  BY <1>1, RingInvHolds, PTL

-----------------------------------------------------------------------------
(* Contents and differences                                                *)

LEMMA XorTwice ==
  ASSUME NEW a \in Contents, NEW b \in Contents
  PROVE  /\ Xor(a, b) \in Contents
         /\ Xor(a, Xor(b, a)) = b
         /\ Xor(Xor(a, b), a) = b
BY DEF Xor, Contents

\* Combined, of the differences in any ring.
CombinedIn(memory, content, slots) ==
  {f \in Frames : Cardinality({slot \in slots : f \in memory[slot]})
                    % 2 = (IF f \in content THEN 0 ELSE 1)}

\* One difference more, with a slot that is not among the others, is one that is
\* taken into the content first.
LEMMA CombinedWithOneMore ==
  ASSUME NEW memory, NEW content \in Contents, NEW slots, IsFiniteSet(slots),
         NEW slot, slot \notin slots, memory[slot] \in Contents
  PROVE  CombinedIn(memory, content, slots \cup {slot})
           = CombinedIn(memory, Xor(content, memory[slot]), slots)
<1> DEFINE Having(f) == {e \in slots : f \in memory[e]}
           More(f) == {e \in slots \cup {slot} : f \in memory[e]}
           Parity(f) == Cardinality(Having(f)) % 2
<1>1. ASSUME NEW f
      PROVE  /\ IsFiniteSet(Having(f)) /\ Cardinality(Having(f)) \in Nat
             /\ slot \notin Having(f)
             /\ More(f) = IF f \in memory[slot] THEN Having(f) \cup {slot} ELSE Having(f)
  <2>1. Having(f) \in SUBSET slots
    OBVIOUS
  <2>2. IsFiniteSet(Having(f))
    BY <2>1, FS_Subset
  <2>3. Cardinality(Having(f)) \in Nat
    BY <2>2, FS_CardinalityType
  <2> HIDE DEF Parity
  <2> QED
    BY <2>2, <2>3
<1>2. ASSUME NEW f
      PROVE  Cardinality(More(f)) % 2
               = IF f \in memory[slot] THEN 1 - Parity(f) ELSE Parity(f)
  <2> DEFINE c == Cardinality(Having(f))
  <2>1. c \in Nat
    BY <1>1
  <2>2. (c + 1) % 2 = 1 - (c % 2)
    <3> HIDE DEF c
    <3> QED  BY <2>1
  <2>3. f \in memory[slot] => Cardinality(More(f)) = c + 1
    <3>1. Cardinality(Having(f) \cup {slot}) = c + 1
      BY <1>1, FS_AddElement
    <3> QED
      BY <1>1, <3>1
  <2>4. f \notin memory[slot] => Cardinality(More(f)) = c
    BY <1>1
  <2> QED
    BY <2>2, <2>3, <2>4
<1>3. ASSUME NEW f PROVE Parity(f) \in {0, 1}
  <2>1. Cardinality(Having(f)) \in Nat
    BY <1>1
  <2> HIDE DEF Having
  <2> QED
    BY <2>1
<1>4. ASSUME NEW f \in Frames
      PROVE  f \in Xor(content, memory[slot])
               <=> ~(f \in content <=> f \in memory[slot])
  BY DEF Xor
<1>5. ASSUME NEW f \in Frames
      PROVE  (Cardinality(More(f)) % 2 = IF f \in content THEN 0 ELSE 1)
               <=> (Parity(f) = IF f \in Xor(content, memory[slot]) THEN 0 ELSE 1)
  <2> HIDE DEF Parity, More
  <2> QED
    BY <1>2, <1>3, <1>4
<1>6. CombinedIn(memory, content, slots \cup {slot})
        = {f \in Frames : Cardinality(More(f)) % 2 = IF f \in content THEN 0 ELSE 1}
  BY DEF CombinedIn
<1>7. CombinedIn(memory, Xor(content, memory[slot]), slots)
        = {f \in Frames :
             Parity(f) = IF f \in Xor(content, memory[slot]) THEN 0 ELSE 1}
  BY DEF CombinedIn
<1> HIDE DEF Parity, More
<1> QED
  BY <1>5, <1>6, <1>7

\* Nothing undone: the content itself.
LEMMA CombinedWithNone ==
  ASSUME NEW memory, NEW content \in Contents
  PROVE  CombinedIn(memory, content, {}) = content
<1>1. ASSUME NEW f PROVE Cardinality({slot \in {} : f \in memory[slot]}) % 2 = 0
  <2>1. {slot \in {} : f \in memory[slot]} = {}
    OBVIOUS
  <2>2. Cardinality({}) = 0
    BY FS_EmptySet
  <2> QED
    BY <2>1, <2>2
<1>2. CombinedIn(memory, content, {}) = {f \in Frames : 0 = IF f \in content THEN 0 ELSE 1}
  BY <1>1 DEF CombinedIn
<1> QED
  BY <1>2 DEF Contents


\* Only the differences in the slots themselves matter.
LEMMA CombinedElsewhere ==
  ASSUME NEW memory, NEW other, NEW content, NEW slots,
         \A slot \in slots : other[slot] = memory[slot]
  PROVE  CombinedIn(other, content, slots) = CombinedIn(memory, content, slots)
<1>1. ASSUME NEW f
      PROVE  {slot \in slots : f \in other[slot]} = {slot \in slots : f \in memory[slot]}
  OBVIOUS
<1> QED
  BY <1>1 DEF CombinedIn

-----------------------------------------------------------------------------
(* The slots of the ring                                                   *)

\* The slot that is j before the slot n of a ring of e, and those of the j from
\* 1 to i.  The slot behind the last counts as the first.
At(n, e, j) == IF j <= n THEN n - j ELSE n - j + e
Before(n, e, i) == {At(n, e, j) : j \in 1..i}

\* One slot further, the slot that was the newest comes before the others; all are
\* slots of the ring, and it is not one of them until the ring comes round.
LEMMA OneSlotFurther ==
  ASSUME NEW e \in Nat, NEW n \in 0..(e - 1), NEW i \in 0..(e - 1),
         NEW m \in {n + 1, IF n + 1 >= e THEN 0 ELSE n + 1}
  PROVE  Before(m, e, i + 1) = Before(n, e, i) \cup {n}
<1>1. At(m, e, 1) = n
  BY DEF At
<1>2. ASSUME NEW j \in 1..i PROVE At(m, e, j + 1) = At(n, e, j)
  BY DEF At
<1>3. ASSUME NEW x \in Before(m, e, i + 1) PROVE x \in Before(n, e, i) \cup {n}
  <2>1. PICK j \in 1..(i + 1) : x = At(m, e, j)
    BY DEF Before
  <2>2. CASE j = 1
    BY <1>1, <2>1, <2>2
  <2>3. CASE j # 1
    <3>1. j - 1 \in 1..i /\ j = (j - 1) + 1
      BY <2>3
    <3>2. x = At(n, e, j - 1)
      BY <1>2, <2>1, <3>1
    <3> QED
      BY <3>1, <3>2 DEF Before
  <2> QED
    BY <2>2, <2>3
<1>4. ASSUME NEW x \in Before(n, e, i) \cup {n} PROVE x \in Before(m, e, i + 1)
  <2>1. 1 \in 1..(i + 1)
    OBVIOUS
  <2>2. CASE x = n
    BY <1>1, <2>1, <2>2 DEF Before
  <2>3. CASE x # n
    <3>1. PICK j \in 1..i : x = At(n, e, j)
      BY <2>3 DEF Before
    <3>2. j + 1 \in 1..(i + 1) /\ x = At(m, e, j + 1)
      BY <1>2, <3>1
    <3> QED
      BY <3>2 DEF Before
  <2> QED
    BY <2>2, <2>3
<1> QED
  BY <1>3, <1>4

LEMMA SlotsBefore ==
  ASSUME NEW e \in Nat, NEW n \in 0..(e - 1), NEW i \in 0..(e - 1)
  PROVE  /\ Before(n, e, i) \subseteq 0..(e - 1)
         /\ IsFiniteSet(Before(n, e, i))
         /\ n \notin Before(n, e, i)
<1>1. ASSUME NEW j \in 1..i PROVE At(n, e, j) \in 0..(e - 1) /\ At(n, e, j) # n
  BY DEF At
<1>2. Before(n, e, i) \subseteq 0..(e - 1) /\ n \notin Before(n, e, i)
  BY <1>1 DEF Before
<1>3. IsFiniteSet(0..(e - 1))
  <2>1. 0 \in Int /\ e - 1 \in Int
    OBVIOUS
  <2> QED
    BY <2>1, FS_Interval
<1>4. Before(n, e, i) \in SUBSET (0..(e - 1))
  BY <1>2
<1> QED
  BY <1>2, <1>3, <1>4, FS_Subset

\* The slot behind the last is the first.
LEMMA FirstIsBehindLast ==
  ASSUME NEW e \in Nat, NEW n \in 0..(e - 1), NEW i \in 0..(e - 1)
  PROVE  Before(n + 1, e, i) = Before(IF n + 1 >= e THEN 0 ELSE n + 1, e, i)
<1>1. ASSUME NEW j \in 1..i
      PROVE  At(n + 1, e, j) = At(IF n + 1 >= e THEN 0 ELSE n + 1, e, j)
  BY DEF At
<1> QED
  BY <1>1 DEF Before

LEMMA NoneBefore == ASSUME NEW n, NEW e PROVE Before(n, e, 0) = {}
BY DEF Before

-----------------------------------------------------------------------------
(* The states below the two that are whole                                 *)

Newest == IF ready THEN current + 1 ELSE current

\* The state i before previousState, and what it is made of.
LEMMA BackIs ==
  ASSUME NEW i
  PROVE  /\ Back(i) = CombinedIn(patchMemory, previousState, Before(Newest, entries, i))
         /\ Back(i)' = CombinedIn(patchMemory', previousState', Before(Newest', entries', i))
BY DEF Back, Combined, CombinedIn, Undone, SlotBefore, Before, At, Newest

Savable == Wholes \cup {Zeros}

\* The states of the two files and all that can be restored are states that were
\* saved, and the newest difference is the one between the two files.
StackInv ==
  /\ core \in Wholes
  /\ opened => /\ entries > 0
               /\ currentState \in Savable
               /\ \A i \in 0..(pending - 1) : Back(i) \in Savable
               /\ ~ready /\ size > 0 =>
                    patchMemory[current] = Xor(previousState, currentState)

\* The bounds the steps below need.
LEMMA RingBounds ==
  ASSUME RingInv, StackInv, opened
  PROVE  /\ entries \in Nat \ {0} /\ size \in 0..entries /\ current \in Nat
         /\ size > 0 => current \in 0..(entries - 1)
         /\ pending \in 0..entries
         /\ previousState \in Contents /\ currentState \in Contents /\ core \in Contents
         /\ \A slot \in 0..(entries - 1) : patchMemory[slot] \in Contents
BY DEF RingInv, StackInv, TypeOK, SlotsInRange, Slots, pending

\* previousState is the state 0.
LEMMA FirstBack ==
  /\ previousState \in Contents => Back(0) = previousState
  /\ previousState' \in Contents => Back(0)' = previousState'
BY BackIs, NoneBefore, CombinedWithNone

-----------------------------------------------------------------------------
(* What the steps do to the states below                                   *)

\* A state that is saved goes on top: what was previousState is one deeper, and so
\* on, but for the oldest if the ring is full.
LEMMA SavedOnTop ==
  ASSUME RingInv, StackInv, ~ready, mCoreRewindAppend
  PROVE  /\ pending' = IF size < entries THEN size + 1 ELSE size
         /\ Back(0)' = currentState
         /\ \A i \in 0..(pending' - 2) : Back(i + 1)' = Back(i)
         /\ ~ready' => patchMemory'[current'] = Xor(previousState', currentState')
<1> DEFINE next == IF current + 1 >= entries THEN 0 ELSE current + 1
<1>1. /\ opened /\ entries' = entries
      /\ previousState' = currentState /\ currentState' = core
  BY DEF mCoreRewindAppend
<1>2. /\ entries \in Nat \ {0} /\ size \in 0..entries /\ current \in Nat
      /\ size > 0 => current \in 0..(entries - 1)
      /\ previousState \in Contents /\ currentState \in Contents /\ core \in Contents
      /\ \A slot \in 0..(entries - 1) : patchMemory[slot] \in Contents
  BY <1>1, RingBounds
<1>3. \/ onThread /\ ready' = TRUE /\ UNCHANGED ring
      \/ _rewindDiff(currentState, core) /\ ready' = ready
  BY DEF mCoreRewindAppend
<1>4. \/ ready' /\ size' = size /\ Newest' = current + 1 /\ patchMemory' = patchMemory
      \/ /\ ~ready' /\ size' = (IF size < entries THEN size + 1 ELSE size)
         /\ current' = next /\ Newest' = next
         /\ patchMemory' = [patchMemory EXCEPT ![next] = Xor(currentState, core)]
  BY <1>3 DEF _rewindDiff, ring, Newest
<1>5. pending' = IF size < entries THEN size + 1 ELSE size
  BY <1>1, <1>2, <1>4 DEF pending
<1>6. Back(0)' = currentState
  BY <1>1, <1>2, FirstBack
<1>7. next \in 0..(entries - 1)
  BY <1>2
<1>8. ASSUME ~ready' PROVE patchMemory'[current'] = Xor(previousState', currentState')
  <2>1. next \in DOMAIN patchMemory
    BY <1>1, <1>7 DEF RingInv, TypeOK, Slots
  <2> QED
    BY <1>1, <1>4, <1>8, <2>1
<1>9. ASSUME NEW i \in 0..(pending' - 2) PROVE Back(i + 1)' = Back(i)
  <2> DEFINE below == Before(current, entries, i)
  <2>1. size > 0 /\ current \in 0..(entries - 1) /\ i \in 0..(entries - 1) /\ i + 1 \in 0..(entries - 1)
    BY <1>2, <1>5
  <2>2. Newest' \in {current + 1, next}
    BY <1>4
  <2>3. Before(Newest', entries, i + 1) = below \cup {current}
    <3>1. entries \in Nat
      BY <1>2
    <3>2. \A m \in {current + 1, next} :
            Before(m, entries, i + 1) = below \cup {current}
      BY <2>1, <3>1, OneSlotFurther
    <3> HIDE DEF next, below
    <3> QED  BY <2>2, <3>2
  <2>4. below \subseteq 0..(entries - 1) /\ IsFiniteSet(below) /\ current \notin below
    BY <1>2, <2>1, SlotsBefore
  <2>5. next \notin below \cup {current} \/ patchMemory' = patchMemory
    <3>1. next \notin Before(next, entries, i + 1)
      BY <1>2, <1>7, <2>1, SlotsBefore
    <3> QED
      BY <1>4, <2>3, <3>1
  <2>6. \A slot \in below \cup {current} : patchMemory'[slot] = patchMemory[slot]
    <3> HIDE DEF below, next
    <3>1. below \cup {current} \subseteq DOMAIN patchMemory
      BY <1>1, <2>1, <2>4 DEF RingInv, TypeOK, Slots
    <3> QED
      BY <1>4, <2>5, <3>1
  <2>7. Back(i + 1)' = CombinedIn(patchMemory', currentState, below \cup {current})
    BY <1>1, <2>3, BackIs
  <2>8. @ = CombinedIn(patchMemory, currentState, below \cup {current})
    <3> HIDE DEF below
    <3> QED  BY <2>6, CombinedElsewhere
  <2>9. @ = CombinedIn(patchMemory, Xor(currentState, patchMemory[current]), below)
    <3>1. patchMemory[current] \in Contents
      BY <1>2, <2>1
    <3> HIDE DEF below
    <3> QED  BY <1>2, <2>4, <3>1, CombinedWithOneMore
  <2>10. Xor(currentState, patchMemory[current]) = previousState
    <3>1. patchMemory[current] = Xor(previousState, currentState)
      BY <1>1, <2>1 DEF StackInv
    <3> QED
      BY <1>2, <3>1, XorTwice
  <2>11. Back(i) = CombinedIn(patchMemory, previousState, below)
    BY BackIs DEF Newest
  <2> QED
    BY <2>7, <2>8, <2>9, <2>10, <2>11
<1> QED
  BY <1>5, <1>6, <1>8, <1>9

\* The difference that was to be made goes into a slot that none of the states
\* below needs.
LEMMA DifferenceMade ==
  ASSUME RingInv, StackInv, opened, ready,
         _rewindDiff(previousState, currentState), ~ready',
         UNCHANGED <<opened, entries, states>>
  PROVE  /\ pending' = pending
         /\ \A i \in 0..(pending - 1) : Back(i)' = Back(i)
         /\ patchMemory'[current'] = Xor(previousState', currentState')
<1> DEFINE next == IF current + 1 >= entries THEN 0 ELSE current + 1
<1>1. /\ entries' = entries /\ previousState' = previousState /\ currentState' = currentState
      /\ current' = next /\ size' = (IF size < entries THEN size + 1 ELSE size)
      /\ patchMemory' = [patchMemory EXCEPT ![next] = Xor(previousState, currentState)]
  BY DEF _rewindDiff, states
<1>2. /\ entries \in Nat \ {0} /\ size \in 0..entries /\ current \in Nat
      /\ size > 0 => current \in 0..(entries - 1)
      /\ previousState \in Contents
  BY RingBounds
<1>3. next \in 0..(entries - 1)
  BY <1>2
<1>4. patchMemory'[current'] = Xor(previousState', currentState')
  <2>1. next \in DOMAIN patchMemory
    BY <1>3 DEF RingInv, TypeOK, Slots
  <2> QED
    BY <1>1, <2>1
<1>5. pending' = pending
  BY <1>1, <1>2 DEF pending
<1>6. ASSUME NEW i \in 0..(pending - 1) PROVE Back(i)' = Back(i)
  <2>1. CASE i = 0
    BY <1>1, <1>2, <2>1, FirstBack
  <2>2. CASE i # 0
    <3> DEFINE below == Before(next, entries, i)
    <3>1. i \in 0..(entries - 1) /\ current \in 0..(entries - 1)
      BY <1>2, <2>2 DEF pending
    <3>2. Before(current + 1, entries, i) = below
      BY <1>2, <3>1, FirstIsBehindLast
    <3>3. next \notin below
      BY <1>2, <1>3, <3>1, SlotsBefore
    <3>4. \A slot \in below : patchMemory'[slot] = patchMemory[slot]
      <4>1. below \subseteq DOMAIN patchMemory
        <5>1. below \subseteq 0..(entries - 1)
          BY <1>2, <1>3, <3>1, SlotsBefore
        <5> QED
          BY <5>1 DEF RingInv, TypeOK, Slots
      <4> HIDE DEF below, next
      <4> QED
        BY <1>1, <3>3, <4>1
    <3>5. Back(i)' = CombinedIn(patchMemory', previousState, below)
      BY <1>1, BackIs DEF Newest
    <3>6. Back(i) = CombinedIn(patchMemory, previousState, below)
      BY <3>2, BackIs DEF Newest
    <3> HIDE DEF below
    <3> QED
      BY <3>4, <3>5, <3>6, CombinedElsewhere
  <2> QED
    BY <2>1, <2>2
<1> QED
  BY <1>4, <1>5, <1>6

\* A state that is restored leaves the stack, and the others are one less deep.
LEMMA RestoredFromTop ==
  ASSUME RingInv, StackInv, ~ready, mCoreRewindRestore
  PROVE  /\ pending = size /\ pending' = size - 1
         /\ \A i \in 0..(size - 2) : Back(i)' = Back(i + 1)
         /\ size' > 0 => patchMemory'[current'] = Xor(previousState', currentState')
<1> DEFINE slot == IF current = 0 THEN entries - 1 ELSE current - 1
<1>1. /\ opened /\ size > 0 /\ entries' = entries /\ ready' = ready
      /\ size' = size - 1 /\ current' = slot /\ patchMemory' = patchMemory
      /\ previousState' = Xor(previousState, patchMemory[slot])
      /\ currentState' = previousState
  BY DEF mCoreRewindRestore
<1>2. /\ entries \in Nat \ {0} /\ size \in 1..entries /\ current \in 0..(entries - 1)
      /\ previousState \in Contents
      /\ \A e \in 0..(entries - 1) : patchMemory[e] \in Contents
  BY <1>1, RingBounds
<1>3. slot \in 0..(entries - 1) /\ patchMemory[slot] \in Contents
  BY <1>2
<1>4. pending = size /\ pending' = size - 1
  BY <1>1, <1>2 DEF pending
<1>5. patchMemory'[current'] = Xor(previousState', currentState')
  <2>1. patchMemory[slot] = Xor(Xor(previousState, patchMemory[slot]), previousState)
    <3> HIDE DEF slot
    <3> QED  BY <1>2, <1>3, XorTwice
  <2> QED
    BY <1>1, <2>1
<1>6. ASSUME NEW i \in 0..(size - 2) PROVE Back(i)' = Back(i + 1)
  <2> DEFINE below == Before(slot, entries, i)
  <2>1. i \in 0..(entries - 1)
    BY <1>2
  <2>2. current = IF slot + 1 >= entries THEN 0 ELSE slot + 1
    BY <1>2
  <2>3. Before(current, entries, i + 1) = below \cup {slot}
    BY <1>2, <1>3, <2>1, <2>2, OneSlotFurther
  <2>4. IsFiniteSet(below) /\ slot \notin below
    BY <1>2, <1>3, <2>1, SlotsBefore
  <2>5. Back(i + 1) = CombinedIn(patchMemory, previousState, below \cup {slot})
    BY <2>3, BackIs DEF Newest
  <2>6. @ = CombinedIn(patchMemory, Xor(previousState, patchMemory[slot]), below)
    <3> HIDE DEF below, slot
    <3> QED  BY <1>2, <1>3, <2>4, CombinedWithOneMore
  <2>7. @ = Back(i)'
    BY <1>1, BackIs DEF Newest
  <2> QED
    BY <2>5, <2>6, <2>7
<1> QED
  BY <1>4, <1>5, <1>6

\* A step that leaves the ring and the older state alone leaves the states below.
LEMMA BackUnchanged ==
  ASSUME UNCHANGED <<entries, ring, previousState, ready>>
  PROVE  pending' = pending /\ \A i : Back(i)' = Back(i)
<1>1. /\ entries' = entries /\ patchMemory' = patchMemory /\ current' = current
      /\ size' = size /\ previousState' = previousState /\ ready' = ready
  BY DEF ring
<1>2. pending' = pending
  BY <1>1 DEF pending
<1>3. Newest' = Newest
  BY <1>1 DEF Newest
<1>4. ASSUME NEW i PROVE Back(i)' = Back(i)
  BY <1>1, <1>3, BackIs
<1> QED
  BY <1>2, <1>4

\* Of the states that were saved, the blank one leaves the core alone.
LEMMA Loaded ==
  ASSUME NEW content \in Savable, mCoreLoadStateNamed(content)
  PROVE  core' = IF content = Zeros THEN core ELSE content
<1>1. CASE content \in Wholes
  <2>1. PICK f \in Frames : content = {f}
    BY <1>1 DEF Wholes
  <2>2. Cardinality({f}) = 1
    BY FS_Singleton
  <2>3. Cardinality(content) % 2 # 0
    BY <2>1, <2>2
  <2> QED
    BY <1>1, <2>1, <2>3 DEF mCoreLoadStateNamed, Zeros
<1>2. CASE content = Zeros
  <2>1. Cardinality(content) = 0
    BY <1>2, FS_EmptySet DEF Zeros
  <2>2. Cardinality(content) % 2 = 0
    BY <2>1
  <2> QED
    BY <1>2, <2>2 DEF mCoreLoadStateNamed
<1> QED
  BY <1>1, <1>2 DEF Savable

LEMMA StackInvInit == Init => StackInv
BY DEF Init, StackInv

LEMMA StackInvStep == Timely /\ RingInv /\ RingInv' /\ StackInv /\ [Next]_vars => StackInv'
<1> SUFFICES ASSUME Timely, RingInv, RingInv', StackInv, [Next]_vars PROVE StackInv'
  OBVIOUS
<1> USE DEF Savable
<1>1. ASSUME NEW n \in Capacities, NEW threaded \in BOOLEAN,
             mCoreRewindContextInit(n, threaded)
      PROVE  StackInv'
  <2>1. /\ core' = core /\ entries' = n /\ currentState' = Zeros
        /\ size' = 0 /\ ready' = FALSE
    BY <1>1 DEF mCoreRewindContextInit
  <2>2. n \in Nat \ {0}
    BY RewindAssumption
  <2>3. pending' = 0
    BY <2>1, <2>2 DEF pending
  <2> QED
    BY <2>1, <2>2, <2>3 DEF StackInv
<1>2. ASSUME core' = core, ~opened' PROVE StackInv'
  BY <1>2 DEF StackInv
<1>3. ASSUME core' \in Wholes, UNCHANGED <<opened, entries, ring, states, ready>>
      PROVE  StackInv'
  <2>1. UNCHANGED <<entries, ring, previousState, ready>>
    BY <1>3 DEF states
  <2>2. pending' = pending /\ \A i : Back(i)' = Back(i)
    BY <2>1, BackUnchanged
  <2>3. /\ opened' = opened /\ entries' = entries /\ currentState' = currentState
        /\ previousState' = previousState /\ ready' = ready
        /\ size' = size /\ current' = current /\ patchMemory' = patchMemory
    BY <1>3 DEF ring, states
  <2> QED
    BY <1>3, <2>2, <2>3 DEF StackInv
<1>4. core \in Wholes
  BY DEF StackInv
<1>5. CASE mCoreRewindContextDeinit
  BY <1>2, <1>3, <1>4, <1>5 DEF mCoreRewindContextDeinit, Close
<1>6. CASE DeinitWakes
  BY <1>3, <1>4, <1>6 DEF DeinitWakes
<1>7. CASE ThreadJoined
  BY <1>2, <1>7 DEF ThreadJoined, Close
<1>8. CASE mCoreRewindAppend
  <2>1. ~ready /\ opened /\ opened' = opened /\ entries' = entries /\ core' = core /\ currentState' = core
    BY <1>8 DEF mCoreRewindAppend
  <2>2. /\ entries \in Nat \ {0} /\ size \in 0..entries /\ pending \in 0..entries
    BY <2>1, RingBounds
  <2>3. /\ pending' = IF size < entries THEN size + 1 ELSE size
        /\ Back(0)' = currentState
        /\ \A i \in 0..(pending' - 2) : Back(i + 1)' = Back(i)
        /\ ~ready' => patchMemory'[current'] = Xor(previousState', currentState')
    BY <1>8, <2>1, SavedOnTop
  <2>4. ASSUME NEW i \in 0..(pending' - 1) PROVE Back(i)' \in Savable
    <3>1. CASE i = 0
      BY <2>1, <2>3, <3>1 DEF StackInv
    <3>2. CASE i # 0
      <4>1. i - 1 \in 0..(pending' - 2) /\ (i - 1) + 1 = i /\ i - 1 \in 0..(pending - 1)
        BY <2>1, <2>2, <2>3, <3>2 DEF pending
      <4>2. Back(i)' = Back(i - 1)
        BY <2>3, <4>1
      <4>3. Back(i - 1) \in Savable
        BY <2>1, <4>1 DEF StackInv
      <4> QED
        BY <4>2, <4>3
    <3> QED
      BY <3>1, <3>2
  <2> QED
    BY <1>4, <2>1, <2>2, <2>3, <2>4 DEF StackInv
<1>9. CASE mCoreRewindRestore
  <2>1. ~ready /\ opened /\ opened' = opened /\ entries' = entries /\ ready' = ready
        /\ size > 0 /\ currentState' = previousState
        /\ mCoreLoadStateNamed(previousState)
    BY <1>9 DEF mCoreRewindRestore
  <2>2. /\ entries \in Nat \ {0} /\ size \in 0..entries /\ previousState \in Contents
    BY <2>1, RingBounds
  <2>3. /\ pending = size /\ pending' = size - 1
        /\ \A i \in 0..(size - 2) : Back(i)' = Back(i + 1)
        /\ size' > 0 => patchMemory'[current'] = Xor(previousState', currentState')
    BY <1>9, <2>1, RestoredFromTop
  <2>4. previousState \in Savable
    <3>1. Back(0) = previousState
      BY <2>2, FirstBack
    <3>2. 0 \in 0..(pending - 1)
      BY <2>1, <2>2, <2>3
    <3> QED
      BY <2>1, <3>1, <3>2 DEF StackInv
  <2>5. core' \in Wholes
    BY <1>4, <2>1, <2>4, Loaded
  <2>6. ASSUME NEW i \in 0..(pending' - 1) PROVE Back(i)' \in Savable
    <3>1. i \in 0..(size - 2) /\ i + 1 \in 0..(pending - 1)
      BY <2>1, <2>2, <2>3
    <3>2. Back(i)' = Back(i + 1)
      BY <2>3, <3>1
    <3>3. Back(i + 1) \in Savable
      BY <2>1, <3>1 DEF StackInv
    <3> QED
      BY <3>2, <3>3
  <2> QED
    BY <2>1, <2>2, <2>3, <2>4, <2>5, <2>6 DEF StackInv
<1>10. CASE NothingToRestore
  BY <1>3, <1>4, <1>10 DEF NothingToRestore
<1>11. CASE RunFrame
  BY <1>3, <1>11 DEF RunFrame
<1>12. CASE _rewindThread
  <2>1. UNCHANGED <<core, opened, entries, states>>
    BY <1>12 DEF _rewindThread
  <2>2. CASE UNCHANGED <<ring, ready>>
    BY <1>3, <1>4, <2>1, <2>2
  <2>3. CASE ready /\ _rewindDiff(previousState, currentState) /\ ready' = FALSE
    <3>1. CASE ~opened
      BY <1>2, <2>1, <3>1
    <3>2. CASE opened
      <4>1. /\ pending' = pending
            /\ \A i \in 0..(pending - 1) : Back(i)' = Back(i)
            /\ patchMemory'[current'] = Xor(previousState', currentState')
        BY <2>1, <2>3, <3>2, DifferenceMade
      <4> QED
        BY <1>4, <2>1, <4>1 DEF StackInv, states
    <3> QED
      BY <3>1, <3>2
  <2> QED
    BY <1>12, <2>2, <2>3 DEF _rewindThread
<1>13. CASE SpuriousWakeup
  BY <1>3, <1>4, <1>13 DEF SpuriousWakeup
<1>14. CASE UNCHANGED vars
  BY <1>3, <1>4, <1>14 DEF vars
<1> QED
  BY <1>1, <1>5, <1>6, <1>7, <1>8, <1>9, <1>10, <1>11, <1>12, <1>13, <1>14 DEF Next

LEMMA StackInvHolds == ASSUME Timely PROVE Spec => [](RingInv /\ StackInv)
<1>1. Init => RingInv /\ StackInv
  BY RingInvInit, StackInvInit
<1>2. RingInv /\ StackInv /\ [Next]_vars => (RingInv /\ StackInv)'
  BY RingInvStep, StackInvStep
<1> QED
  BY <1>1, <1>2, PTL DEF Spec

\* However frames are saved and restored, with or without a difference thread, and
\* however often the ring comes round, mCoreRewindRestore loads a state that was
\* saved, or none, as long as the difference thread is done before the next frame.
THEOREM WholeStatesAreLoaded == ASSUME Timely PROVE Spec => []CoreIsWhole
<1>1. StackInv => CoreIsWhole
  BY DEF StackInv, CoreIsWhole
<1> QED
  BY <1>1, StackInvHolds, PTL

-----------------------------------------------------------------------------
(* The ring is a stack                                                     *)

\* The states below, as a sequence; what is needed of them before and after a step.
LEMMA PastIs ==
  /\ ~opened => Past = <<>>
  /\ ~opened' => Past' = <<>>
  /\ opened /\ pending \in Nat /\ (\A i \in 0..(pending - 1) : Back(i) \in Savable) =>
       /\ Past \in Seq(Savable) /\ Len(Past) = pending
       /\ \A i \in 1..pending : Past[i] = Back(pending - i)
  /\ opened' /\ pending' \in Nat /\ (\A i \in 0..(pending' - 1) : Back(i)' \in Savable) =>
       /\ Past' \in Seq(Savable) /\ Len(Past') = pending'
       /\ \A i \in 1..pending' : Past'[i] = Back(pending - i)'
<1>1. (~opened => Past = <<>>) /\ (~opened' => Past' = <<>>)
  BY DEF Past
<1>2. ASSUME opened, pending \in Nat, \A i \in 0..(pending - 1) : Back(i) \in Savable
      PROVE  /\ Past \in Seq(Savable) /\ Len(Past) = pending
             /\ \A i \in 1..pending : Past[i] = Back(pending - i)
  <2>1. Past = [i \in 1..pending |-> Back(pending - i)]
    BY <1>2 DEF Past
  <2>2. \A i \in 1..pending : pending - i \in 0..(pending - 1)
    BY <1>2
  <2>3. Past \in [1..pending -> Savable]
    BY <1>2, <2>1, <2>2
  <2>4. Past \in Seq(Savable)
    BY <1>2, <2>3, SeqDef
  <2> QED
    BY <1>2, <2>1, <2>3, <2>4, LenProperties
<1>3. ASSUME opened', pending' \in Nat, \A i \in 0..(pending' - 1) : Back(i)' \in Savable
      PROVE  /\ Past' \in Seq(Savable) /\ Len(Past') = pending'
             /\ \A i \in 1..pending' : Past'[i] = Back(pending - i)'
  <2>1. Past' = [i \in 1..pending' |-> Back(pending - i)']
    BY <1>3 DEF Past
  <2>2. \A i \in 1..pending' : pending' - i \in 0..(pending' - 1)
    <3>1. \A n \in Nat : \A i \in 1..n : n - i \in 0..(n - 1)
      OBVIOUS
    <3>2. pending' \in Nat
      BY <1>3
    <3> QED
      BY <3>1, <3>2, Zenon
  <2>3. Past' \in [1..pending' -> Savable]
    BY <1>3, <2>1, <2>2
  <2>4. Past' \in Seq(Savable)
    BY <1>3, <2>3, SeqDef
  <2> QED
    BY <1>3, <2>1, <2>3, <2>4, LenProperties
<1> QED
  BY <1>1, <1>2, <1>3

LEMMA StackInitially == Init => Stack!StackInit
<1> SUFFICES ASSUME Init PROVE Stack!StackInit
  OBVIOUS
<1>1. Past = <<>>
  BY PastIs DEF Init
<1> QED
  BY <1>1 DEF Init, Stack!StackInit, Stack!Wholes, Stack!Blank, Wholes, Zeros

\* Every step of the ring is a step of the stack, or none.
LEMMA StackStep ==
  RingInv /\ RingInv' /\ StackInv /\ StackInv' /\ Timely /\ [Next]_vars
    => [Stack!StackNext]_<<core, currentState, Past, entries>>
<1> SUFFICES ASSUME RingInv, RingInv', StackInv, StackInv', Timely, [Next]_vars
             PROVE  Stack!StackNext \/ UNCHANGED <<core, currentState, Past, entries>>
  OBVIOUS
<1> DEFINE forget == Past' = <<>> /\ currentState' = Zeros /\ entries' \in Nat /\ core' = core
<1>1. ASSUME forget PROVE Stack!StackNext
  BY <1>1 DEF Stack!StackNext, Stack!Forget, Stack!Blank, Zeros
<1>2. ASSUME UNCHANGED <<opened, entries, ring, previousState, ready>>
      PROVE  Past' = Past
  <2>1. pending' = pending /\ \A i : Back(i)' = Back(i)
    <3>1. UNCHANGED <<entries, ring, previousState, ready>>
      BY <1>2
    <3> QED
      BY <3>1, BackUnchanged
  <2> QED
    BY <1>2, <2>1 DEF Past
<1>3. ASSUME UNCHANGED <<core, opened, entries, ring, states, ready>>
      PROVE  UNCHANGED <<core, currentState, Past, entries>>
  BY <1>2, <1>3 DEF states
<1>4. ASSUME Close PROVE forget
  <2>1. ~opened' /\ currentState' = Zeros /\ entries' = entries /\ core' = core
    BY <1>4 DEF Close
  <2>2. Past' = <<>>
    BY <2>1, PastIs
  <2> QED
    BY <2>1, <2>2 DEF RingInv, TypeOK
<1>5. ASSUME NEW n \in Capacities, NEW threaded \in BOOLEAN,
             mCoreRewindContextInit(n, threaded)
      PROVE  forget
  <2>1. /\ opened' /\ core' = core /\ entries' = n /\ currentState' = Zeros
        /\ size' = 0 /\ ready' = FALSE
    BY <1>5 DEF mCoreRewindContextInit
  <2>2. n \in Nat
    BY RewindAssumption
  <2>3. pending' = 0
    BY <2>1, <2>2 DEF pending
  <2>4. Past' = <<>>
    BY <2>1, <2>3 DEF Past
  <2> QED
    BY <2>1, <2>2, <2>4
<1>6. CASE mCoreRewindContextDeinit
  BY <1>1, <1>3, <1>4, <1>6 DEF mCoreRewindContextDeinit
<1>7. CASE DeinitWakes
  BY <1>3, <1>7 DEF DeinitWakes
<1>8. CASE ThreadJoined
  BY <1>1, <1>4, <1>8 DEF ThreadJoined
<1>9. CASE mCoreRewindAppend
  <2>1. /\ ~ready /\ opened /\ opened' /\ entries' = entries
        /\ core' = core /\ currentState' = core
    BY <1>9 DEF mCoreRewindAppend
  <2>2. /\ entries \in Nat \ {0} /\ size \in 0..entries
    BY <2>1, RingBounds
  <2>3. pending = size
    BY <2>1 DEF pending
  <2> DEFINE n == IF size < entries THEN size + 1 ELSE size
  <2>4. /\ pending' = n
        /\ Back(0)' = currentState
        /\ \A i \in 0..(n - 2) : Back(i + 1)' = Back(i)
    BY <1>9, <2>1, SavedOnTop
  <2>5. /\ Past \in Seq(Savable) /\ Len(Past) = size
        /\ \A i \in 1..size : Past[i] = Back(size - i)
    BY <2>1, <2>2, <2>3, PastIs DEF StackInv
  <2>6. n \in Nat
    BY <2>2
  <2>7. /\ Past' \in Seq(Savable) /\ Len(Past') = n
        /\ \A i \in 1..n : Past'[i] = Back(pending - i)'
    BY <2>1, <2>4, <2>6, PastIs DEF StackInv
  <2>8. Past'[n] = currentState
    <3>1. n \in 1..n
      BY <2>2, <2>4
    <3>2. n - n = 0
      BY <2>6
    <3> QED
      BY <2>4, <2>7, <3>1, <3>2
  <2>9. ASSUME NEW i \in 1..(n - 1) PROVE Past'[i] = Back(n - 1 - i)
    <3>1. PICK k \in 0..(n - 2) : k = n - 1 - i
      BY <2>6
    <3>2. i \in 1..n /\ n - i = k + 1
      BY <2>6, <3>1
    <3>3. Past'[i] = Back(pending - i)'
      BY <2>7, <3>2
    <3>4. pending' - i = k + 1
      BY <2>4, <3>2
    <3>5. Back(pending - i)' = Back(k + 1)'
      BY <3>4
    <3>6. Back(k + 1)' = Back(k)
      BY <2>4
    <3> QED
      BY <3>1, <3>3, <3>5, <3>6
  <2>10. currentState \in Savable
    BY <2>1 DEF StackInv
  <2> DEFINE kept == IF Len(Past) < entries THEN Past ELSE Tail(Past)
  <2>11. /\ kept \in Seq(Savable) /\ Len(kept) = n - 1
         /\ \A i \in 1..(n - 1) : kept[i] = Back(n - 1 - i)
    <3>1. CASE size < entries
      BY <2>2, <2>4, <2>5, <3>1
    <3>2. CASE ~(size < entries)
      <4>1. size = entries /\ n = size /\ kept = Tail(Past) /\ Past # <<>>
        BY <2>2, <2>4, <2>5, <3>2
      <4>2. /\ kept \in Seq(Savable) /\ Len(kept) = size - 1
            /\ \A i \in 1..(size - 1) : kept[i] = Past[i + 1]
        BY <2>5, <4>1, HeadTailProperties
      <4>3. ASSUME NEW i \in 1..(size - 1) PROVE kept[i] = Back(size - 1 - i)
        <5>1. i + 1 \in 1..size /\ size - (i + 1) = size - 1 - i
          BY <2>2
        <5> QED
          BY <2>5, <4>2, <5>1
      <4> QED
        BY <4>1, <4>2, <4>3
    <3> QED
      BY <3>1, <3>2
  <2>12. Past' = Append(kept, currentState)
    <3> HIDE DEF kept
    <3>1. /\ Append(kept, currentState) \in Seq(Savable)
          /\ Len(Append(kept, currentState)) = n
          /\ \A i \in 1..(n - 1) : Append(kept, currentState)[i] = kept[i]
          /\ Append(kept, currentState)[n] = currentState
      <4>1. Len(kept) + 1 = n
        BY <2>6, <2>11
      <4> QED
        BY <2>10, <2>11, <4>1, AppendProperties
    <3>2. ASSUME NEW i \in 1..n PROVE Past'[i] = Append(kept, currentState)[i]
      <4>1. CASE i = n
        BY <2>8, <3>1, <4>1
      <4>2. CASE i # n
        <5>1. i \in 1..(n - 1)
          BY <2>6, <4>2
        <5> QED
          BY <2>9, <2>11, <3>1, <5>1
      <4> QED
        BY <4>1, <4>2
    <3> QED
      BY <2>7, <3>1, <3>2, SeqEqual
  <2>13. Stack!Save
    BY <2>1, <2>2, <2>12 DEF Stack!Save
  <2> QED
    BY <2>13 DEF Stack!StackNext
<1>10. CASE mCoreRewindRestore
  <2>1. /\ ~ready /\ opened /\ opened' /\ entries' = entries /\ size > 0
        /\ currentState' = previousState /\ mCoreLoadStateNamed(previousState)
    BY <1>10 DEF mCoreRewindRestore
  <2>2. /\ entries \in Nat \ {0} /\ size \in 0..entries /\ previousState \in Contents
    BY <2>1, RingBounds
  <2>3. /\ pending = size /\ pending' = size - 1
        /\ \A i \in 0..(size - 2) : Back(i)' = Back(i + 1)
    BY <1>10, <2>1, RestoredFromTop
  <2>4. /\ Past \in Seq(Savable) /\ Len(Past) = size
        /\ \A i \in 1..size : Past[i] = Back(size - i)
    BY <2>1, <2>2, <2>3, PastIs DEF StackInv
  <2>5. pending' \in Nat
    BY <2>1, <2>2, <2>3
  <2>6. /\ Past' \in Seq(Savable) /\ Len(Past') = size - 1
        /\ \A i \in 1..(size - 1) : Past'[i] = Back(pending - i)'
    BY <2>1, <2>3, <2>5, PastIs DEF StackInv
  <2>7. Past[Len(Past)] = previousState
    <3>1. size \in 1..size /\ size - size = 0
      BY <2>1, <2>2
    <3>2. Back(0) = previousState
      BY <2>2, FirstBack
    <3> QED
      BY <2>4, <3>1, <3>2
  <2>8. previousState \in Savable
    BY <2>1, <2>2, <2>4, <2>7 DEF Savable
  <2>9. Past' = SubSeq(Past, 1, Len(Past) - 1)
    <3>1. \A i \in 1..(size - 1) : Past[i] \in Savable
      BY <2>2, <2>4, ElementOfSeq
    <3>2. /\ SubSeq(Past, 1, size - 1) \in Seq(Savable)
          /\ Len(SubSeq(Past, 1, size - 1)) = size - 1
          /\ \A i \in 1..(size - 1) : SubSeq(Past, 1, size - 1)[i] = Past[i]
      <4>1. /\ 1 \in Int /\ size - 1 \in Int
            /\ (IF 1 <= size - 1 THEN (size - 1) - 1 + 1 ELSE 0) = size - 1
            /\ (size - 1) - 1 + 1 = size - 1
            /\ \A i \in 1..(size - 1) : 1 + i - 1 = i
        BY <2>1, <2>2
      <4> QED
        BY <3>1, <4>1, SubSeqProperties
    <3>3. ASSUME NEW i \in 1..(size - 1) PROVE Past'[i] = Past[i]
      <4>1. /\ i \in 1..size /\ pending' - i = size - 1 - i
            /\ size - 1 - i \in 0..(size - 2) /\ (size - 1 - i) + 1 = size - i
        BY <2>2, <2>3
      <4>2. Back(pending - i)' = Back(size - i)
        BY <2>3, <4>1
      <4> QED
        BY <2>4, <2>6, <4>1, <4>2
    <3> QED
      BY <2>4, <2>6, <3>2, <3>3, SeqEqual
  <2>10. core' = IF previousState = Zeros THEN core ELSE previousState
    BY <2>1, <2>8, Loaded
  <2>11. Past # <<>>
    BY <2>1, <2>2, <2>4
  <2>12. Stack!GoBack
    BY <2>1, <2>7, <2>9, <2>10, <2>11 DEF Stack!GoBack, Stack!Blank, Zeros
  <2> QED
    BY <2>12 DEF Stack!StackNext
<1>11. CASE NothingToRestore
  BY <1>3, <1>11 DEF NothingToRestore
<1>12. CASE RunFrame
  <2>1. core' \in Wholes /\ UNCHANGED <<opened, entries, ring, states, ready>>
    BY <1>12 DEF RunFrame
  <2>2. UNCHANGED <<currentState, Past, entries>>
    BY <1>2, <2>1 DEF states
  <2> QED
    BY <2>1, <2>2 DEF Stack!StackNext, Stack!Run, Stack!Wholes, Wholes
<1>13. CASE _rewindThread
  <2>1. UNCHANGED <<core, opened, entries, states>>
    BY <1>13 DEF _rewindThread
  <2>2. CASE UNCHANGED <<ring, ready>>
    BY <1>3, <2>1, <2>2
  <2>3. CASE ready /\ _rewindDiff(previousState, currentState) /\ ready' = FALSE
    <3>1. CASE ~opened
      BY <2>1, <3>1, PastIs DEF states
    <3>2. CASE opened
      <4>1. /\ pending' = pending
            /\ \A i \in 0..(pending - 1) : Back(i)' = Back(i)
        BY <2>1, <2>3, <3>2, DifferenceMade
      <4>2. pending \in Nat
        BY <3>2, RingBounds
      <4>3. \A i \in 1..pending : Back(pending - i)' = Back(pending - i)
        <5>1. \A i \in 1..pending : pending - i \in 0..(pending - 1)
          BY <4>2
        <5> QED
          BY <4>1, <5>1
      <4>4. Past' = Past
        BY <2>1, <4>1, <4>3 DEF Past
      <4> QED
        BY <2>1, <4>4 DEF states
    <3> QED
      BY <3>1, <3>2
  <2> QED
    BY <1>13, <2>2, <2>3 DEF _rewindThread
<1>14. CASE SpuriousWakeup
  BY <1>3, <1>14 DEF SpuriousWakeup
<1>15. CASE UNCHANGED vars
  BY <1>3, <1>15 DEF vars
<1> QED
  BY <1>1, <1>5, <1>6, <1>7, <1>8, <1>9, <1>10, <1>11, <1>12, <1>13, <1>14, <1>15 DEF Next

\* The two files, the ring and the difference thread are a stack of the states of
\* the last frames, for any states and any capacities: mCoreRewindRestore gives them
\* back in the order mCoreRewindAppend has saved them in, latest first, as many as
\* the ring has slots, as long as the difference thread is done before the next frame.
THEOREM RewindIsAStack == ASSUME Timely PROVE Spec => ImplementsStack
<1>1. RingInv /\ RingInv' /\ StackInv /\ StackInv' /\ [Next]_vars
        => [Stack!StackNext]_<<core, currentState, Past, entries>>
  BY StackStep
<1> QED
  BY <1>1, StackInitially, StackInvHolds, PTL DEF Spec, ImplementsStack, Stack!StackSpec
================================================================================
