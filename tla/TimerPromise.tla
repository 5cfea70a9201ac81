----------------------------- MODULE TimerPromise -----------------------------
(***************************************************************************)
(* What the timers of the toolkit promise to those who hold one, without   *)
(* SDL, events and postponed removals: a holder is called for the timer it *)
(* holds at that moment, never for one it has given back or replaced; one  *)
(* callback runs at a time; a new timer is never mistaken for an old one.  *)
(***************************************************************************)
EXTENDS Naturals

CONSTANT Owners

VARIABLES
  held,    \* the timer each owner holds, 0 for none
  last,    \* the last timer that was handed out
  calling  \* the timer whose callback runs, 0 for none

vars == <<held, last, calling>>

Init == held = [o \in Owners |-> 0] /\ last = 0 /\ calling = 0

Hold(o) ==
  /\ last' = last + 1
  /\ held' = [held EXCEPT ![o] = last']
  /\ UNCHANGED calling

Refuse(o) ==
  /\ last' = last + 1
  /\ held' = [held EXCEPT ![o] = 0]
  /\ UNCHANGED calling

Release(o) ==
  /\ held' = [held EXCEPT ![o] = 0]
  /\ UNCHANGED <<last, calling>>

Call(o) ==
  /\ calling = 0 /\ held[o] # 0
  /\ calling' = held[o]
  /\ UNCHANGED <<held, last>>

Return ==
  /\ calling # 0
  /\ calling' = 0
  /\ UNCHANGED <<held, last>>

Next ==
  \/ \E o \in Owners : Hold(o) \/ Refuse(o) \/ Release(o) \/ Call(o)
  \/ Return

Spec == Init /\ [][Next]_vars
=============================================================================
