------------------------------- MODULE Timing -------------------------------
(***************************************************************************)
(* Emulated time of a GBA: core/timing.c, the loop of GBAProcessEvents     *)
(* that drives it, and the callers that schedule on it: video, a timer,    *)
(* interrupts, one DMA channel and the loading of a savestate.             *)
(*                                                                         *)
(* Everything runs on one CPU thread.  A load comes either between two     *)
(* run loops (the user's) or from the video event's callback (rewinding,   *)
(* core/thread.c _frameStarted).  Times are words of Width bits; the       *)
(* program has 32 of them.                                                 *)
(***************************************************************************)
EXTENDS Integers, FiniteSets, FiniteSetsExt

CONSTANTS
    Video, IRQ, Timer, Dma,  \* the events: mTimingEvent
    Nil,
    Width,          \* bits of a word
    Line,           \* cycles from one video event to the next
    Reload,         \* cycles from one overflow of the timer to the next
    IrqDelay,       \* GBA_IRQ_DELAY
    DmaDelay, Unit, \* cycles before a DMA starts, and of one of its words
    Words,          \* bound: how many words a DMA moves
    Lengths,        \* how many cycles an instruction may take
    IrqLength,      \* how many cycles ARMRaiseIRQ takes
    Sessions,       \* the events besides Video the game uses, and when states are loaded:
                    \* in "frame" callbacks or "between" run loops; "calm" is between them
                    \* too, in a game that asks for no event from there to the next tick
    SavedStates     \* what the savestates may say of time

Events == {Video, IRQ, Timer, Dma}
Modulus == 2 ^ Width
IntMax == Modulus \div 2 - 1
Word(x) == x % Modulus
\* Mutant: the difference of two times is taken without its sign.
Unsigned(x) == Word(x)
Signed(x) == IF Word(x) > IntMax THEN Word(x) - Modulus ELSE Word(x)

ASSUME EventsAssumption == Cardinality(Events) = 4 /\ Nil \notin Events
ASSUME TimesAssumption ==
    /\ Width \in Nat
    /\ {Line, Reload, IrqDelay, DmaDelay, Unit, Words} \cup Lengths \subseteq 1 .. IntMax
    /\ IrqLength \in 0 .. IntMax
ASSUME SessionsAssumption ==
    Sessions \subseteq [uses : SUBSET {IRQ, Timer, Dma}, loads : {"between", "calm", "frame"}]
\* How long until the events, from the time of the state, and where it was made.
ASSUME StatesAssumption ==
    /\ SavedStates \subseteq
         [made : {"between", "frame"}, masterCycles : 0 .. Modulus - 1, cycles : Int,
          nextEvent : Int, halted : BOOLEAN, words : 0 .. Words + 1, video : Int \ {Nil},
          irq : {Nil} \cup Int, timer : {Nil} \cup Int, dma : {Nil} \cup Int]
    /\ \A saved \in SavedStates : saved.words > 0 => saved.dma # Nil
Lefts(saved) == {saved.video, saved.irq, saved.timer, saved.dma} \ {Nil}

Priority(e) == CASE e = IRQ -> 0 [] e = Video -> 8 [] e = Timer -> 32 [] e = Dma -> 64

VARIABLES
    gba,    \* the machine, see Machines
    pc,     \* "idle": between two run loops; "run": in one; "tick": in mTimingTick
    session \* the member of Sessions that is played, never changed
vars == <<gba, pc, session>>
game == session.uses

\* struct mTiming, cpu->cycles (relativeCycles points to it), cpu->nextEvent,
\* and what the callbacks look at.
Machines ==
  [root : Events \cup {Nil}, reroot : Events \cup {Nil}, next : [Events -> Events \cup {Nil}],
   when : [Events -> 0 .. Modulus - 1], masterCycles : 0 .. Modulus - 1,
   cycles : -Modulus .. Modulus, nextEvent : -Modulus .. Modulus, halted : BOOLEAN,
   cpuBlocked : BOOLEAN, words : 0 .. Words + 1,
   asked : SUBSET Events]    \* history: the events someone has scheduled and nobody cancelled

mTimingInit ==
  [root |-> Nil, reroot |-> Nil, next |-> [e \in Events |-> Nil], when |-> [e \in Events |-> 0],
   masterCycles |-> 0, cycles |-> 0, nextEvent |-> IntMax, halted |-> FALSE,
   cpuBlocked |-> FALSE, words |-> 0, asked |-> {}]

-----------------------------------------------------------------------------
(* core/timing.c, as functions of the machine.                             *)

\* How long until an event, from masterCycles.
Left(s, e) == Signed(s.when[e] - s.masterCycles)
mTimingCurrentTime(s) == Word(s.masterCycles + s.cycles)

\* The n-th event behind p.
Walk(s, p) ==
  LET at[n \in 0 .. Cardinality(Events)] ==
        IF n = 0 THEN p ELSE IF at[n - 1] = Nil THEN Nil ELSE s.next[at[n - 1]]
  IN  at
Linked(s, p) == {Walk(s, p)[n] : n \in 0 .. Cardinality(Events)} \ {Nil}
Lesser(a, b) == IF a < b THEN a ELSE b

\* Puts e between the (n-1)-th and the n-th event of the list.
InsertAt(s, e, n) ==
  LET walk == Walk(s, s.root)
      pointing == [s EXCEPT !.next[e] = walk[n]]
  IN  IF n = 0 THEN [pointing EXCEPT !.root = e] ELSE [pointing EXCEPT !.next[walk[n - 1]] = e]

mTimingSchedule(s, e, delay) ==
  LET nextEvent == Signed(delay + s.cycles)
      timed == [s EXCEPT !.when[e] = Word(nextEvent + s.masterCycles),
                         !.nextEvent = Lesser(@, nextEvent), !.asked = @ \cup {e}]
      walk == Walk(s, s.root)
      after(o) == \/ Left(timed, o) > nextEvent
                  \/ Left(timed, o) = nextEvent /\ Priority(o) > Priority(e)
      stops == {n \in DOMAIN walk : IF walk[n] = Nil THEN TRUE ELSE after(walk[n])}
  IN  InsertAt(timed, e, Min(stops \cup {Cardinality(Events)}))

\* What an event outside the lists points to, and its time, is read by nobody.
Unlinked(s, e) == [s EXCEPT !.next[e] = Nil, !.when[e] = 0, !.asked = @ \ {e}]

\* Only the list of root is searched.
mTimingDeschedule(s, e) ==
  LET found == {n \in DOMAIN Walk(s, s.root) : Walk(s, s.root)[n] = e}
      n == Min(found)
      without == IF n = 0 THEN [s EXCEPT !.root = s.next[e]]
                 ELSE [s EXCEPT !.next[Walk(s, s.root)[n - 1]] = s.next[e]]
  IN  IF found = {} THEN [s EXCEPT !.asked = @ \ {e}] ELSE Unlinked(without, e)

mTimingIsScheduled(s, e) == e \in Linked(s, IF s.root = Nil THEN s.reroot ELSE s.root)

mTimingNextEvent(s) == IF s.root = Nil THEN IntMax ELSE Signed(Left(s, s.root) - s.cycles)

\* Mutant: the events of a loaded state are left aside.
TickKeepsReroot(s) == s
\* The end of mTimingTick: the list of a loaded state takes the place of root.
TickEnds(s) ==
  IF s.root = Nil /\ s.reroot # Nil
  THEN LET rooted == [s EXCEPT !.root = s.reroot, !.reroot = Nil]
       IN  [rooted EXCEPT !.nextEvent = mTimingNextEvent(rooted)]
  ELSE s
\* Mutant: it returns what the CPU was told, even with events left.
TickReturnsTold(s, ended) == ended.nextEvent
\* What it returns: the first event left, or what the CPU was told.
TickReturns(s, ended) == IF s.root # Nil THEN Left(s, s.root) ELSE ended.nextEvent

-----------------------------------------------------------------------------
(* The callers: the machines that may be there after each of them.         *)

\* Mutant: an interrupt that is pending is scheduled again.
RaiseIRQAgain(s) == {s, IF IRQ \notin game THEN s ELSE mTimingSchedule(s, IRQ, IrqDelay)}
\* GBATestIRQ schedules one if none is; the game may have it enabled or not.
GBARaiseIRQ(s) ==
  {s, IF IRQ \notin game \/ mTimingIsScheduled(s, IRQ) THEN s ELSE mTimingSchedule(s, IRQ, IrqDelay)}

Reschedule(s, e, delay) == {mTimingSchedule(t, e, delay) : t \in {mTimingDeschedule(s, e)}}

\* The timer runs on: its next overflow, from mTimingCurrentTime.
GBATimerUpdateRegister(s, late) == Reschedule(s, Timer, Reload - (s.cycles % Reload) - late)
GBATimerUpdate(s, late) == UNION {GBARaiseIRQ(t) : t \in GBATimerUpdateRegister(s, late)}
GBATimerWriteTMCNT_HI(s) ==
  IF Timer \notin game THEN {s}
  ELSE Reschedule(s, Timer, Reload) \cup {mTimingDeschedule(s, Timer)}

\* A channel that is idle starts.
GBADMARun(s, cycles) ==
  IF s.words > 0 \/ Dma \notin game THEN {s}
  ELSE UNION {Reschedule(t, Dma, DmaDelay + cycles) : t \in {[s EXCEPT !.words = Words + 1]}}
\* _dmaEvent: one word more, or the end after the last one.
DmaEvent(s, late) ==
  IF s.words = 1
  THEN UNION {GBARaiseIRQ(t) : t \in {[s EXCEPT !.words = 0, !.cpuBlocked = FALSE]}}
  ELSE LET from == IF s.words = Words + 1 THEN mTimingCurrentTime(s) ELSE s.masterCycles - late
       IN  UNION {Reschedule(t, Dma, Signed(from + Unit - mTimingCurrentTime(s))) :
                    t \in {[s EXCEPT !.words = @ - 1, !.cpuBlocked = TRUE]}}

\* _triggerIRQ: the CPU may have interrupts off.
TriggerIRQ(s) == {[s EXCEPT !.halted = FALSE, !.cycles = @ + c] : c \in {0, IrqLength}}

\* The states this game may have saved, where it loads them.
Saved == {saved \in SavedStates : /\ saved.made = "frame" <=> session.loads = "frame"
                                  /\ saved.irq # Nil => IRQ \in game
                                  /\ saved.timer # Nil => Timer \in game
                                  /\ saved.words > 0 => Dma \in game}
\* GBADeserialize: the events of the state are scheduled in an empty list, which is
\* then set aside in reroot.  A DMA under way in the state goes on; whether one
\* blocks the CPU is not in the state and only taken back when none is under way.
Restored(s, e, left) == IF left = Nil THEN s ELSE mTimingSchedule(s, e, left)
GBADMAUpdate(s, left) ==
  IF s.words > 0 THEN Reschedule(s, Dma, left) ELSE {[s EXCEPT !.cpuBlocked = FALSE]}
GBADeserialize(s, saved) ==
  LET blank == [s EXCEPT !.root = Nil, !.masterCycles = saved.masterCycles, !.cycles = saved.cycles,
                         !.nextEvent = saved.nextEvent, !.halted = saved.halted, !.asked = {}]
      timed == UNION {{Restored(u, Timer, saved.timer) : u \in {Restored(t, Video, saved.video)}} :
                        t \in {Restored(blank, IRQ, saved.irq)}}
      updated == UNION {GBADMAUpdate([t EXCEPT !.words = saved.words], saved.dma) : t \in timed}
  IN  {[t EXCEPT !.reroot = t.root, !.root = Nil] : t \in updated}

\* _startHdraw: the next line, then the DMA and the interrupt and, at the start of
\* a frame and last of all, rewinding.
VideoEvent(s, late) ==
  LET lined == {mTimingSchedule(s, Video, Line - late)}
      started == UNION {GBARaiseIRQ(t) : t \in UNION {{u} \cup GBADMARun(u, -late) : u \in lined}}
  IN  started \cup IF session.loads # "frame" THEN {}
                   ELSE UNION {GBADeserialize(t, saved) : t \in lined, saved \in Saved}

Callback(s, e, late) ==
  CASE e = Video -> VideoEvent(s, late)
    [] e = IRQ -> TriggerIRQ(s)
    [] e = Timer -> GBATimerUpdate(s, late)
    [] e = Dma -> DmaEvent(s, late)

-----------------------------------------------------------------------------
(* The CPU thread: ARMRunLoop and GBAProcessEvents.                        *)

Init ==
  /\ session \in Sessions
  /\ gba = mTimingSchedule(mTimingInit, Video, Line)
  /\ pc = "idle"

\* An instruction; the cycles it takes are added after what it writes.
Instruction ==
  /\ pc \in {"idle", "run"} /\ gba.cycles < gba.nextEvent
  /\ \E c \in Lengths, s \in GBADMARun(gba, 0) \cup GBATimerWriteTMCNT_HI(gba) \cup GBARaiseIRQ(gba) :
        /\ session.loads = "calm" /\ gba.reroot # Nil => s = gba
        /\ gba' = [s EXCEPT !.cycles = @ + c]
  /\ pc' = "run" /\ UNCHANGED session

\* GBAHalt: the CPU stops and its next event is now.
GBAHalt ==
  /\ pc \in {"idle", "run"} /\ gba.cycles < gba.nextEvent
  /\ gba' = [gba EXCEPT !.nextEvent = gba.cycles, !.halted = TRUE]
  /\ pc' = "run" /\ UNCHANGED session

\* The loop of GBAProcessEvents begins a round; mTimingTick moves the time.
Advance(s, passed) ==
  [s EXCEPT !.masterCycles = Word(@ + passed + s.cycles), !.cycles = 0]
GBAProcessEvents ==
  /\ pc \in {"idle", "run"} /\ gba.cycles >= gba.nextEvent
  /\ gba' = [Advance(gba, 0) EXCEPT !.nextEvent = IntMax]
  /\ pc' = "tick" /\ UNCHANGED session

\* mTimingTick takes the first event out of the list and calls it back.
Due(s) == s.root # Nil /\ Left(s, s.root) <= 0
Fire(e) ==
  /\ pc = "tick" /\ gba.root = e /\ Due(gba)
  /\ \E s \in {[gba EXCEPT !.root = gba.next[e], !.next[e] = Nil, !.when[e] = 0,
                     !.asked = @ \ {e}]} :
        gba' \in Callback(s, e, -Left(gba, e))
  /\ UNCHANGED <<pc, session>>

\* mTimingTick returns.  While a DMA blocks the CPU the time goes straight on to
\* the next event; a halted CPU has nothing to do until then.
TickDone ==
  /\ pc = "tick" /\ ~Due(gba)
  /\ LET ended == TickEnds(gba)
         nextEvent == TickReturns(gba, ended)
     IN  IF ended.cpuBlocked
         THEN gba' = Advance(ended, nextEvent) /\ pc' = "tick"
         ELSE /\ gba' = [ended EXCEPT !.nextEvent = nextEvent,
                                      !.cycles = IF ended.halted THEN nextEvent ELSE @]
              /\ pc' = "idle"
  /\ UNCHANGED session

\* The user loads a state, between two run loops.
LoadState ==
  /\ pc = "idle" /\ session.loads # "frame"
  /\ \E saved \in Saved : gba' \in GBADeserialize(gba, saved)
  /\ UNCHANGED <<pc, session>>

Runs == Instruction \/ GBAHalt \/ GBAProcessEvents \/ TickDone \/ \E e \in Events : Fire(e)
Next == Runs \/ LoadState
Spec == Init /\ [][Next]_vars
\* The thread goes on running the core: it always takes another step, which is
\* WF_vars(Next), as some step is always possible (and cheaper to evaluate).
FairSpec == Spec /\ []<><<TRUE>>_vars

-----------------------------------------------------------------------------
\* Types.
TypeOK == gba \in Machines /\ pc \in {"idle", "run", "tick"}

Lists(s) == Linked(s, s.root) \cup Linked(s, s.reroot)

\* No event that was scheduled is out of both lists, and none that was
\* cancelled, or has fired, is still in one.
NothingForgotten == session.loads # "between" => gba.asked = Lists(gba)

\* The events of the list are in the order of their times and priorities, across
\* the wrap of the clock; in particular the list ends.
Ordered ==
  session.loads # "between" =>
    \A p \in {gba.root, gba.reroot} \ {Nil} :
      \A n \in DOMAIN Walk(gba, p) \ {0} :
        LET o == Walk(gba, p)[n - 1]
            e == Walk(gba, p)[n]
        IN  o # Nil /\ e # Nil => \/ Left(gba, o) < Left(gba, e)
                                  \/ Left(gba, o) = Left(gba, e) /\ Priority(o) < Priority(e)

\* The CPU never runs past an event: its next event is no later than any that
\* has been scheduled.
OnTime == \A e \in gba.asked : pc # "tick" => gba.nextEvent <= Left(gba, e)
NeverPast == session.loads # "between" => OnTime

\* Premise of the theorems about the order and the times.  An event comes at most
\* b.late cycles late, another than the picture's is asked for at most b.wait cycles
\* ahead, and the picture's is never more than b.line away; then every difference
\* of times fits into a word.  A savestate says what a state of the game could: its
\* events are no later and no further off and apart; of a halted CPU none is late,
\* and between two run loops it has come to its next event.
Bounds(b) ==
  /\ b \in [late : Nat, wait : Nat, line : Nat]
  /\ \A c \in Lengths \cup {IrqLength} : c <= b.late
  /\ \A d \in {Reload, IrqDelay, DmaDelay, Unit} : d <= b.wait
  /\ Line + IrqLength <= b.line
  /\ b.wait + b.line <= IntMax + 1 /\ b.late + IrqLength <= IntMax
  /\ \A saved \in SavedStates :
       /\ saved.cycles >= 0 /\ saved.video + saved.cycles <= b.line
       /\ saved.halted /\ saved.made = "between" => saved.nextEvent <= saved.cycles
       /\ \A left \in Lefts(saved) :
            /\ left >= IF saved.halted THEN 0 ELSE -b.late
            /\ left + saved.cycles < b.wait + b.line
            /\ saved.video - left <= b.line
            /\ \A other \in Lefts(saved) : other - left < b.wait + b.line

\* The picture goes on: its event comes to be due and first in a tick again and
\* again, whatever the game schedules, halts and lets the DMA block.
PictureGoesOn ==
  session.loads = "frame" => []<>(pc = "tick" /\ gba.root = Video /\ Due(gba))
=============================================================================
