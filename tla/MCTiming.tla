------------------------------ MODULE MCTiming ------------------------------
(***************************************************************************)
(* The savestates Timing is checked with, close to the wrap of the clock.  *)
(* Those of a frame callback that ran on time or one cycle late: the CPU   *)
(* running or halted; the timer due and not fired yet, running, or off; an *)
(* interrupt coming or not; no DMA, one that waits, is due, or has moved   *)
(* its word.  Those between two run loops: the CPU running or halted at    *)
(* its next event, and a DMA at most waiting, as one that has begun blocks *)
(* the CPU to its end.                                                     *)
(***************************************************************************)
EXTENDS Timing

\* Rewinding in games that use two kinds of events besides the picture's, and
\* states the user loads in games that use one or two.
TimingSessions ==
  [uses : {{IRQ, Timer}, {Timer, Dma}, {IRQ, Dma}}, loads : {"frame"}]
    \cup [uses : {{Timer}, {IRQ, Dma}}, loads : {"calm"}]

\* A game with a timer whose user loads states at any time.
LoadedSessions == [uses : {{Timer}}, loads : {"between"}]

\* No DMA is under way, or n words of one are left, which goes on in d cycles.
Transfers(ns, ds) == {<<0, Nil>>} \cup (ns \X ds)
WithTransfers(states, transfers) ==
  {[saved EXCEPT !.words = t[1], !.dma = t[2]] : saved \in states, t \in transfers}

FrameStates ==
  WithTransfers(
    UNION {[made : {"frame"}, masterCycles : {Modulus - 2}, cycles : {0}, nextEvent : {Line - late},
            halted : IF late = 0 THEN BOOLEAN ELSE {FALSE}, words : {0}, video : {Line - late},
            irq : {Nil, 1}, timer : {Nil, 0, 2}, dma : {Nil}] : late \in {0, 1}},
    Transfers(1 .. Words + 1, {0, 1}))

BetweenStates ==
  {saved \in WithTransfers(
     [made : {"between"}, masterCycles : {Modulus - 2}, cycles : {0, 2}, nextEvent : {1, 2},
      halted : BOOLEAN, words : {0}, video : {0, 3},
      irq : {Nil, 1}, timer : {Nil, 2}, dma : {Nil}],
     Transfers({Words + 1}, {0, 1})) :
     /\ saved.nextEvent = saved.cycles + Min(Lefts(saved))
     /\ saved.halted <=> saved.cycles = saved.nextEvent}

TimingStates == FrameStates \cup BetweenStates

\* The runs satisfy the premise of the theorems.
ASSUME FrameBounds == Bounds([late |-> 2, wait |-> 3, line |-> Line + IrqLength])
=============================================================================
