------------------------------ MODULE RewindStack ------------------------------
(***************************************************************************)
(* What rewinding promises: a stack of the states a machine was in at the  *)
(* last frames, at most depth of them, from which it is brought back to    *)
(* one after the other, latest first.                                      *)
(***************************************************************************)
EXTENDS Integers, Sequences

CONSTANT Frames   \* the states a machine can be in at the start of a frame

VARIABLES core,    \* the state of the machine
          latest,  \* the state saved or restored last
          past,    \* the states before it, which can be gone back to
          depth    \* how many of those are kept

\* Before the first state that was saved there is a blank one; going back to it
\* leaves the machine as it is.
Blank == {}

Wholes == {{f} : f \in Frames}

StackInit ==
  /\ core \in Wholes
  /\ latest = Blank /\ past = <<>>
  /\ depth \in Nat

Run == core' \in Wholes /\ UNCHANGED <<latest, past, depth>>

\* The oldest state gives way.
Save ==
  /\ depth > 0
  /\ past' = Append(IF Len(past) < depth THEN past ELSE Tail(past), latest)
  /\ latest' = core
  /\ UNCHANGED <<core, depth>>

GoBack ==
  LET to == past[Len(past)]
  IN /\ past # <<>>
     /\ core' = IF to = Blank THEN core ELSE to
     /\ latest' = to
     /\ past' = SubSeq(past, 1, Len(past) - 1)
     /\ UNCHANGED depth

Forget ==
  /\ past' = <<>> /\ latest' = Blank
  /\ depth' \in Nat
  /\ UNCHANGED core

StackNext == Run \/ Save \/ GoBack \/ Forget

StackSpec == StackInit /\ [][StackNext]_<<core, latest, past, depth>>
================================================================================
