-------------------------------- MODULE Timers --------------------------------
(***************************************************************************)
(* The timers of the librose toolkit (gui/widgets/timer.cpp), on which the *)
(* send task's once-a-second tick rests.  Three parties: the main thread,  *)
(* where owners (send_timer_, the scroll, cursor and long-press timers of  *)
(* the widgets) add and remove timers inside and outside of callbacks; the *)
(* SDL thread, which looks a timer up and pushes an event; and the event   *)
(* queue between the two.  An event may be taken out long after its timer  *)
(* was removed, and a callback may remove its own timer.                   *)
(*                                                                         *)
(* Every timer repeats: add_timer has `repeat = true', so the branch of    *)
(* execute_timer for an interval of 0 is never taken.                      *)
(***************************************************************************)
EXTENDS Naturals, Sequences

CONSTANTS
  Owners,   \* the ttimer objects
  NoOwner,
  MaxId,    \* bound: timers ever added
  MaxQueue  \* bound: timer events waiting

ASSUME TimersAssumption ==
  /\ NoOwner \notin Owners
  /\ MaxId \in Nat /\ MaxQueue \in Nat

VARIABLES
  lastId,     \* id, the last id given to a timer
  entry,      \* timers: whose callback an id stands for, NoOwner if absent
  armed,      \* ids whose timer is in SDL's list
  sdl,        \* the id between the lookup and the push of timer_callback
  queue,      \* the TIMER_EVENTs that wait
  timerId,    \* id_ of each ttimer, 0 is INVALID_TIMER_ID
  executing,  \* executing_id
  removed,    \* executing_id_removed
  adding      \* whose add_timer is between SDL_AddTimer and insert

registry == <<lastId, entry, timerId>>
execution == <<executing, removed>>
vars == <<registry, armed, sdl, queue, execution, adding>>

Ids == 1 .. MaxId

-----------------------------------------------------------------------------
(* add_timer and remove_timer, as ttimer calls them                        *)

(* remove_timer of a timer that is in the map and may go                   *)
Unregister(i, timers) ==
  /\ entry' = [timers EXCEPT ![i] = NoOwner]
  /\ armed' = armed \ {i}
  /\ UNCHANGED removed

(* Mutant: a timer is erased while its callback runs.                      *)
RemoveAlways(i, timers) == Unregister(i, timers)

(* remove_timer on the map `timers': postponed if the callback of i runs   *)
RemoveTimer(i, timers) ==
  \/ /\ timers[i] = NoOwner
     /\ entry' = timers
     /\ UNCHANGED <<armed, removed>>
  \/ /\ timers[i] # NoOwner /\ i = executing
     /\ entry' = timers /\ removed' = TRUE
     /\ UNCHANGED armed
  \/ /\ timers[i] # NoOwner /\ i # executing
     /\ Unregister(i, timers)

(* Mutant: the new timer is removed in place of the old one.               *)
ResetNew(o, id, timers) ==
  /\ timerId' = [timerId EXCEPT ![o] = id]
  /\ \/ /\ id = 0
        /\ entry' = timers
        /\ UNCHANGED <<armed, removed>>
     \/ id # 0 /\ RemoveTimer(id, timers)

(* ttimer::reset, and with 0 its destructor                                *)
ResetTimer(o, id, timers) ==
  /\ timerId' = [timerId EXCEPT ![o] = id]
  /\ \/ /\ timerId[o] = 0
        /\ entry' = timers
        /\ UNCHANGED <<armed, removed>>
     \/ timerId[o] # 0 /\ RemoveTimer(timerId[o], timers)

(* reset(add_timer(...)): SDL knows the timer, ...                         *)
AddTimer(o) ==
  /\ adding = NoOwner /\ lastId < MaxId
  /\ lastId' = lastId + 1
  /\ armed' = armed \cup {lastId'}
  /\ adding' = o
  /\ UNCHANGED <<entry, timerId, sdl, queue, execution>>

(* ... then the map does, and the owner gives up the timer it had          *)
TimerAdded ==
  /\ adding # NoOwner
  /\ ResetTimer(adding, lastId, [entry EXCEPT ![lastId] = adding])
  /\ adding' = NoOwner
  /\ UNCHANGED <<lastId, sdl, queue, executing>>

(* SDL_AddTimer fails: the owner is left without a timer                   *)
AddTimerFails(o) ==
  /\ adding = NoOwner /\ lastId < MaxId
  /\ lastId' = lastId + 1
  /\ ResetTimer(o, 0, entry)
  /\ UNCHANGED <<sdl, queue, executing, adding>>

(* reset(), or the end of the owner                                        *)
Reset(o) ==
  /\ adding = NoOwner /\ timerId[o] # 0
  /\ ResetTimer(o, 0, entry)
  /\ UNCHANGED <<lastId, sdl, queue, executing, adding>>

-----------------------------------------------------------------------------
(* timer_callback on the thread of SDL                                     *)

(* An id that is not in the map is not called again.                       *)
TimerCallback(i) ==
  /\ sdl = 0 /\ i \in armed
  /\ \/ /\ entry[i] = NoOwner
        /\ armed' = armed \ {i}
        /\ UNCHANGED sdl
     \/ /\ entry[i] # NoOwner
        /\ sdl' = i
        /\ UNCHANGED armed
  /\ UNCHANGED <<registry, queue, execution, adding>>

(* Mutant: a timer fires once.                                             *)
PushEventOnce ==
  /\ sdl # 0 /\ Len(queue) < MaxQueue
  /\ queue' = Append(queue, sdl)
  /\ armed' = armed \ {sdl}
  /\ sdl' = 0
  /\ UNCHANGED <<registry, execution, adding>>

(* The interval it returns is read through an iterator that remove_timer   *)
(* may have invalidated; SDL does not use it for a timer it has removed.   *)
PushEvent ==
  /\ sdl # 0 /\ Len(queue) < MaxQueue
  /\ queue' = Append(queue, sdl)
  /\ sdl' = 0
  /\ UNCHANGED <<registry, armed, execution, adding>>

-----------------------------------------------------------------------------
(* execute_timer, called by the event loop of the main thread              *)

(* Mutant: an event calls the owner whether its timer is still there.      *)
ExecuteAny ==
  /\ executing = 0 /\ adding = NoOwner /\ queue # <<>>
  /\ queue' = Tail(queue)
  /\ executing' = Head(queue) /\ removed' = FALSE
  /\ UNCHANGED <<registry, armed, sdl, adding>>

ExecuteTimer ==
  /\ executing = 0 /\ adding = NoOwner /\ queue # <<>>
  /\ queue' = Tail(queue)
  /\ \/ entry[Head(queue)] = NoOwner /\ UNCHANGED execution
     \/ /\ entry[Head(queue)] # NoOwner
        /\ executing' = Head(queue) /\ removed' = FALSE
  /\ UNCHANGED <<registry, armed, sdl, adding>>

(* Mutant: the postponed removal is forgotten.                             *)
ReturnOnly ==
  /\ executing # 0 /\ adding = NoOwner
  /\ executing' = 0
  /\ UNCHANGED <<registry, armed, sdl, queue, removed, adding>>

(* The callback returns; ~texecutor does what was postponed.               *)
CallbackReturns ==
  /\ executing # 0 /\ adding = NoOwner
  /\ executing' = 0
  /\ \/ removed /\ Unregister(executing, entry)
     \/ ~removed /\ UNCHANGED <<entry, armed, removed>>
  /\ UNCHANGED <<lastId, timerId, sdl, queue, adding>>

-----------------------------------------------------------------------------
Init ==
  /\ lastId = 0
  /\ entry = [i \in Ids |-> NoOwner]
  /\ armed = {} /\ sdl = 0 /\ queue = <<>>
  /\ timerId = [o \in Owners |-> 0]
  /\ executing = 0 /\ removed = FALSE
  /\ adding = NoOwner

Next ==
  \/ \E o \in Owners : AddTimer(o) \/ AddTimerFails(o) \/ Reset(o)
  \/ TimerAdded
  \/ \E i \in Ids : TimerCallback(i)
  \/ PushEvent
  \/ ExecuteTimer
  \/ CallbackReturns

Spec == Init /\ [][Next]_vars

(* SDL calls every timer in its list again and again, the event loop runs  *)
(* and callbacks return.  Nothing is assumed of owners.                    *)
Fairness ==
  /\ \A i \in Ids : SF_vars(TimerCallback(i))
  /\ WF_vars(PushEvent) /\ WF_vars(ExecuteTimer)
  /\ WF_vars(CallbackReturns) /\ WF_vars(TimerAdded)

FairSpec == Spec /\ Fairness

-----------------------------------------------------------------------------
(* Types of the variables                                                  *)
TypeOK ==
  /\ lastId \in 0 .. MaxId
  /\ entry \in [Ids -> Owners \cup {NoOwner}]
  /\ armed \subseteq Ids
  /\ sdl \in 0 .. MaxId
  /\ queue \in Seq(Ids)
  /\ timerId \in [Owners -> 0 .. MaxId]
  /\ executing \in 0 .. MaxId /\ removed \in BOOLEAN
  /\ adding \in Owners \cup {NoOwner}

(* Is the removal of the timer whose callback runs postponed?              *)
Postponed(i) == executing = i /\ removed

(* What is registered is held: whatever callbacks add and remove, a timer  *)
(* that nobody holds any more does not stay in the map to call an owner    *)
(* that is gone (remove_timer, texecutor, ttimer::reset).                  *)
NoOrphan ==
  \A i \in Ids : entry[i] # NoOwner => timerId[entry[i]] = i \/ Postponed(i)

(* A valid() ttimer is registered and will not be taken away from its      *)
(* owner: what run_task and the application events assert of send_timer_   *)
(* by valid() is true of the map (remove_timer, ttimer).                   *)
ValidIsRegistered ==
  \A o \in Owners : timerId[o] # 0 =>
     entry[timerId[o]] = o /\ ~Postponed(timerId[o])

(* The callback that runs is not destroyed under it, and the iterator that *)
(* execute_timer uses after it is valid (remove_timer, execute_timer).     *)
CallbackKept == executing # 0 => entry[executing] # NoOwner

(* A timer that SDL still has when its owner holds it calls that owner     *)
(* again and again, however others add and remove theirs (timer_callback,  *)
(* execute_timer).  The premise is needed: a timer that fires before       *)
(* add_timer has put it into the map is lost.                              *)
KeepsFiring ==
  \A o \in Owners, i \in Ids :
     <>(timerId[o] = i /\ i \in armed) => []<>(executing = i \/ timerId[o] # i)

(* The timers implement what is promised to their owners.                  *)
Promise == INSTANCE TimerPromise WITH
  held <- timerId,
  last <- IF adding = NoOwner THEN lastId ELSE lastId - 1,
  calling <- executing
ImplementsPromise == Promise!Spec
=============================================================================
