------------------------------ MODULE TimersInv -------------------------------
(***************************************************************************)
(* The inductive invariant behind the safety properties of Timers.         *)
(***************************************************************************)
EXTENDS Timers

(* Nothing is known of an id that has not been given out, and of the one   *)
(* being added only SDL knows.                                             *)
Issued(i) == i <= lastId /\ (adding # NoOwner => i # lastId)

FreshInv ==
  /\ adding # NoOwner => lastId # 0
  /\ \A i \in Ids : ~Issued(i) => entry[i] = NoOwner
  /\ \A o \in Owners : timerId[o] # 0 => Issued(timerId[o])

(* What holds the safety of the timers together: whatever SDL has pushed   *)
(* meanwhile, an owner and the map agree, but for one postponed removal    *)
(* (remove_timer, ~texecutor).                                             *)
TimersIInv ==
  /\ TypeOK
  /\ FreshInv
  /\ NoOrphan
  /\ ValidIsRegistered
  /\ CallbackKept
=============================================================================
