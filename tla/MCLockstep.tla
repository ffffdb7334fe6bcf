------------------------------ MODULE MCLockstep ------------------------------
(***************************************************************************)
(* The sessions Lockstep is checked with: undisturbed ones with more       *)
(* players, and each disturbance by itself with two.                       *)
(***************************************************************************)
EXTENDS Lockstep

CableSessions ==
  {[players |-> 3, allow |-> {}],
   [players |-> 2, allow |-> {"slow"}], [players |-> 2, allow |-> {"race", "slow"}]}
    \cup {[players |-> 2, allow |-> {word}] : word \in {"leave", "reset", "stop", "late", "eager"}}

\* Two players whose CPU threads also run functions for the user.
StoppedSessions == {[players |-> 2, allow |-> {"stop"}]}
===============================================================================
