----------------------------- MODULE TimersProofs -----------------------------
(***************************************************************************)
(* Theorems about the timers, for every set of owners and every bound.     *)
(***************************************************************************)
EXTENDS TimersInv, SequenceTheorems, TLAPS

USE DEF Ids

(* What ttimer::reset does to owner and map, whichever branch it takes:    *)
(* the owner holds the new id, the entry of the old one is gone or its     *)
(* removal is postponed, and nothing else changes (ttimer::reset,          *)
(* remove_timer).                                                          *)
LEMMA ResetEffect ==
  ASSUME NEW o \in Owners, NEW id \in 0 .. MaxId,
         NEW timers \in [Ids -> Owners \cup {NoOwner}],
         TypeOK, TimersAssumption, ResetTimer(o, id, timers)
  PROVE  /\ timerId' = [timerId EXCEPT ![o] = id]
         /\ entry' \in [Ids -> Owners \cup {NoOwner}]
         /\ armed' \subseteq Ids /\ removed' \in BOOLEAN
         /\ \A i \in Ids : i # timerId[o] => entry'[i] = timers[i]
         /\ timerId[o] # 0 =>
               \/ entry'[timerId[o]] = NoOwner
               \/ entry'[timerId[o]] = timers[timerId[o]]
         /\ timerId[o] # 0 /\ timerId[o] # executing =>
               entry'[timerId[o]] = NoOwner
         /\ timerId[o] # 0 /\ timerId[o] = executing =>
               /\ entry' = timers
               /\ timers[executing] # NoOwner => removed'
         /\ timerId[o] # executing => removed' = removed
         /\ timerId[o] = 0 => removed' = removed
<1>1. timerId[o] \in 0 .. MaxId /\ MaxId \in Nat
  BY DEF TypeOK, TimersAssumption
<1>2. CASE timerId[o] = 0
  BY <1>2 DEF ResetTimer, TypeOK
<1>3. CASE timerId[o] # 0
  <2>1. timerId[o] \in Ids
    BY <1>1, <1>3
  <2>2. RemoveTimer(timerId[o], timers) /\ timerId' = [timerId EXCEPT ![o] = id]
    BY <1>3 DEF ResetTimer
  <2>3. CASE timers[timerId[o]] = NoOwner
    BY <1>3, <2>1, <2>2, <2>3 DEF RemoveTimer, Unregister, TypeOK
  <2>4. CASE timers[timerId[o]] # NoOwner /\ timerId[o] = executing
    BY <1>3, <2>1, <2>2, <2>4 DEF RemoveTimer, Unregister, TypeOK
  <2>5. CASE timers[timerId[o]] # NoOwner /\ timerId[o] # executing
    BY <1>3, <2>1, <2>2, <2>5 DEF RemoveTimer, Unregister, TypeOK
  <2> QED BY <2>3, <2>4, <2>5
<1> QED BY <1>2, <1>3

(* An owner that resets its timer to a new id that is in the map, or to    *)
(* none, leaves owners and map in agreement (ttimer::reset).               *)
LEMMA ResetAgrees ==
  ASSUME NEW o \in Owners, NEW id \in 0 .. MaxId,
         NEW timers \in [Ids -> Owners \cup {NoOwner}],
         TimersIInv, TimersAssumption, ResetTimer(o, id, timers),
         executing' = executing,
         \A i \in Ids : i # id => timers[i] = entry[i],
         id # 0 => timers[id] = o /\ entry[id] = NoOwner
                   /\ \A p \in Owners : timerId[p] # id
  PROVE  NoOrphan' /\ ValidIsRegistered' /\ CallbackKept'
<1>1. TypeOK /\ NoOrphan /\ ValidIsRegistered /\ CallbackKept
  BY DEF TimersIInv
<1>2. timerId[o] \in 0 .. MaxId /\ MaxId \in Nat /\ executing \in 0 .. MaxId
  BY <1>1 DEF TypeOK, TimersAssumption
<1> DEFINE Effect ==
  /\ timerId' = [timerId EXCEPT ![o] = id]
  /\ entry' \in [Ids -> Owners \cup {NoOwner}]
  /\ \A i \in Ids : i # timerId[o] => entry'[i] = timers[i]
  /\ timerId[o] # 0 /\ timerId[o] # executing => entry'[timerId[o]] = NoOwner
  /\ timerId[o] # 0 /\ timerId[o] = executing =>
        entry' = timers /\ (timers[executing] # NoOwner => removed')
  /\ timerId[o] # executing => removed' = removed
  /\ timerId[o] = 0 => removed' = removed
<1>3. Effect
  BY <1>1, ResetEffect
<1>4. id # 0 => id # timerId[o] /\ id # executing
  BY <1>1, <1>2 DEF CallbackKept
<1>5. NoOrphan'
  <2> SUFFICES ASSUME NEW i \in Ids, entry'[i] # NoOwner
               PROVE  timerId'[entry'[i]] = i \/ Postponed(i)'
    BY DEF NoOrphan
  <2>1. CASE i = timerId[o]
    <3>1. i = executing /\ entry' = timers
      BY <1>3, <2>1, <1>2
    <3> QED BY <1>3, <2>1, <3>1, <1>2 DEF Postponed
  <2>2. CASE i # timerId[o] /\ i = id
    BY <1>1, <1>2, <1>3, <2>2 DEF TypeOK
  <2>3. CASE i # timerId[o] /\ i # id
    <3>1. entry'[i] = entry[i] /\ entry[i] \in Owners
      BY <1>1, <1>3, <2>3 DEF TypeOK
    <3>2. timerId[entry[i]] = i \/ Postponed(i)
      BY <1>1, <3>1 DEF NoOrphan
    <3>3. CASE timerId[entry[i]] = i
      <4>1. entry[i] # o
        BY <3>3, <2>3
      <4> QED BY <1>1, <1>3, <3>1, <3>3, <4>1 DEF TypeOK
    <3>4. CASE Postponed(i)
      <4>1. timerId[o] # executing
        BY <2>3, <3>4 DEF Postponed
      <4> QED BY <1>3, <3>4, <4>1 DEF Postponed
    <3> QED BY <3>2, <3>3, <3>4
  <2> QED BY <2>1, <2>2, <2>3
<1>6. ValidIsRegistered'
  <2> SUFFICES ASSUME NEW p \in Owners, timerId'[p] # 0
               PROVE  /\ entry'[timerId'[p]] = p
                      /\ ~(executing' = timerId'[p] /\ removed')
    BY DEF ValidIsRegistered, Postponed
  <2>1. CASE p = o
    <3>1. timerId'[p] = id /\ id # 0 /\ id \in Ids
      BY <1>1, <1>2, <1>3, <2>1 DEF TypeOK
    <3>2. entry'[id] = timers[id]
      BY <1>3, <1>4, <3>1
    <3> QED BY <1>4, <2>1, <3>1, <3>2 DEF Postponed
  <2>2. CASE p # o
    <3>1. timerId'[p] = timerId[p] /\ timerId[p] \in Ids
      BY <1>1, <1>2, <1>3, <2>2 DEF TypeOK
    <3>2. entry[timerId[p]] = p /\ ~Postponed(timerId[p])
      BY <1>1, <3>1 DEF ValidIsRegistered
    <3>3. timerId[p] # timerId[o]
      BY <1>1, <1>2, <2>2, <3>1, <3>2 DEF ValidIsRegistered
    <3>4. timerId[p] # id
      BY <3>1, <1>2
    <3>5. entry'[timerId[p]] = p
      BY <1>3, <3>1, <3>2, <3>3, <3>4
    <3>6. ~(executing' = timerId[p] /\ removed')
      <4>1. CASE timerId[o] = executing
        BY <3>3, <4>1 DEF Postponed
      <4>2. CASE timerId[o] # executing
        BY <1>3, <3>2, <4>2 DEF Postponed
      <4> QED BY <4>1, <4>2
    <3> QED BY <3>1, <3>5, <3>6
  <2> QED BY <2>1, <2>2
<1>7. CallbackKept'
  <2> SUFFICES ASSUME executing # 0 PROVE entry'[executing] # NoOwner
    BY DEF CallbackKept
  <2>1. executing \in Ids /\ executing # id /\ entry[executing] # NoOwner
    BY <1>1, <1>2, <1>4 DEF CallbackKept
  <2>2. timers[executing] = entry[executing]
    BY <2>1
  <2> QED BY <1>3, <2>1, <2>2
<1> QED BY <1>5, <1>6, <1>7

-----------------------------------------------------------------------------
(* The initial states satisfy the invariant.                               *)
LEMMA InitTimers == TimersAssumption /\ Init => TimersIInv
<1> SUFFICES ASSUME TimersAssumption, Init PROVE TimersIInv
  OBVIOUS
<1>1. 0 \in 0 .. MaxId /\ queue \in Seq(Ids)
  BY DEF TimersAssumption, Init
<1>2. TypeOK
  BY <1>1 DEF Init, TypeOK
<1>3. FreshInv /\ CallbackKept
  BY DEF Init, FreshInv, CallbackKept
<1>4. NoOrphan /\ ValidIsRegistered
  BY DEF Init, NoOrphan, ValidIsRegistered
<1> QED BY <1>2, <1>3, <1>4 DEF TimersIInv

(* The three actions that end in ttimer::reset keep it.                    *)
LEMMA ResetKeeps ==
  ASSUME TimersAssumption, TimersIInv,
         NEW o \in Owners, Reset(o) \/ AddTimerFails(o)
  PROVE  TimersIInv'
<1>1. TypeOK /\ FreshInv
  BY DEF TimersIInv
<1>2. /\ ResetTimer(o, 0, entry) /\ adding = NoOwner /\ adding' = adding
      /\ executing' = executing /\ sdl' = sdl /\ queue' = queue
      /\ lastId' \in {lastId, lastId + 1} /\ lastId' \in 0 .. MaxId
  BY <1>1 DEF Reset, AddTimerFails, TypeOK, TimersAssumption
<1>3. entry \in [Ids -> Owners \cup {NoOwner}] /\ 0 \in 0 .. MaxId
  BY <1>1 DEF TypeOK, TimersAssumption
<1>4. NoOrphan' /\ ValidIsRegistered' /\ CallbackKept'
  BY <1>2, <1>3, ResetAgrees
<1>5. /\ timerId' = [timerId EXCEPT ![o] = 0]
      /\ entry' \in [Ids -> Owners \cup {NoOwner}]
      /\ armed' \subseteq Ids /\ removed' \in BOOLEAN
      /\ \A i \in Ids : i # timerId[o] => entry'[i] = entry[i]
      /\ timerId[o] # 0 => \/ entry'[timerId[o]] = NoOwner
                          \/ entry'[timerId[o]] = entry[timerId[o]]
  BY <1>1, <1>2, <1>3, ResetEffect
<1>6. TypeOK'
  BY <1>1, <1>2, <1>5 DEF TypeOK, TimersAssumption
<1>7. FreshInv'
  <2>1. \A i \in Ids : ~Issued(i)' => ~Issued(i)
    BY <1>1, <1>2 DEF Issued, TypeOK, TimersAssumption
  <2>2. \A i \in Ids : ~Issued(i)' => entry'[i] = NoOwner
    BY <1>1, <1>5, <2>1 DEF FreshInv
  <2>3. \A p \in Owners : timerId'[p] # 0 => Issued(timerId[p])
    BY <1>1, <1>5 DEF FreshInv, TypeOK
  <2>4. \A p \in Owners : timerId'[p] # 0 => timerId'[p] = timerId[p]
    BY <1>1, <1>5 DEF TypeOK
  <2>5. \A p \in Owners : timerId'[p] # 0 => timerId'[p] <= lastId'
    BY <1>1, <1>2, <2>3, <2>4 DEF Issued, TypeOK, TimersAssumption
  <2> QED BY <1>1, <1>2, <2>2, <2>5 DEF FreshInv, Issued
<1> QED BY <1>4, <1>6, <1>7 DEF TimersIInv

LEMMA TimerAddedKeeps ==
  ASSUME TimersAssumption, TimersIInv, TimerAdded
  PROVE  TimersIInv'
<1> DEFINE timers == [entry EXCEPT ![lastId] = adding]
<1>1. TypeOK /\ FreshInv /\ MaxId \in Nat /\ lastId \in Ids
  BY DEF TimersIInv, TimersAssumption, TypeOK, FreshInv, TimerAdded
<1>2. adding \in Owners /\ adding' = NoOwner /\ lastId' = lastId
  BY <1>1 DEF TimerAdded, TypeOK
<1>3. timers \in [Ids -> Owners \cup {NoOwner}]
  BY <1>1, <1>2 DEF TypeOK
<1>4. ResetTimer(adding, lastId, timers) /\ executing' = executing
      /\ sdl' = sdl /\ queue' = queue
  BY DEF TimerAdded
<1>5. entry[lastId] = NoOwner /\ \A p \in Owners : timerId[p] # lastId
  BY <1>1, <1>2 DEF FreshInv, Issued, TimersAssumption, TypeOK
<1>6. \A i \in Ids : i # lastId => timers[i] = entry[i]
  BY <1>1 DEF TypeOK
<1>7. timers[lastId] = adding /\ lastId \in 0 .. MaxId
  BY <1>1 DEF TypeOK
<1> HIDE DEF timers
<1>8. NoOrphan' /\ ValidIsRegistered' /\ CallbackKept'
  BY <1>1, <1>2, <1>3, <1>4, <1>5, <1>6, <1>7, ResetAgrees
<1>9. /\ timerId' = [timerId EXCEPT ![adding] = lastId]
      /\ entry' \in [Ids -> Owners \cup {NoOwner}]
      /\ armed' \subseteq Ids /\ removed' \in BOOLEAN
      /\ \A i \in Ids : i # timerId[adding] => entry'[i] = timers[i]
      /\ timerId[adding] # 0 =>
             \/ entry'[timerId[adding]] = NoOwner
             \/ entry'[timerId[adding]] = timers[timerId[adding]]
  BY <1>1, <1>2, <1>3, <1>4, <1>7, ResetEffect
<1>10. TypeOK'
  BY <1>1, <1>2, <1>4, <1>9 DEF TypeOK
<1>11. FreshInv'
  <2>1. \A i \in Ids : ~Issued(i)' => ~Issued(i) /\ i # lastId
    BY <1>1, <1>2 DEF Issued, TypeOK, TimersAssumption
  <2>2. \A i \in Ids : ~Issued(i)' => entry'[i] = NoOwner
    BY <1>1, <1>6, <1>9, <2>1 DEF FreshInv
  <2>3. \A p \in Owners : timerId'[p] # 0 => timerId'[p] <= lastId
    BY <1>1, <1>9 DEF FreshInv, Issued, TypeOK
  <2> QED BY <1>2, <2>2, <2>3 DEF FreshInv, Issued, TimersAssumption
<1> QED BY <1>8, <1>10, <1>11 DEF TimersIInv

(* SDL takes no part in what owners and map agree on.                      *)
LEMMA AddTimerKeeps ==
  ASSUME TimersAssumption, TimersIInv, NEW o \in Owners, AddTimer(o)
  PROVE  TimersIInv'
<1>1. TypeOK' /\ FreshInv'
  BY DEF AddTimer, TimersIInv, TypeOK, FreshInv, Issued, execution,
         TimersAssumption
<1>2. NoOrphan' /\ ValidIsRegistered' /\ CallbackKept'
  BY DEF AddTimer, TimersIInv, NoOrphan, ValidIsRegistered, CallbackKept,
         Postponed, execution
<1> QED BY <1>1, <1>2 DEF TimersIInv

LEMMA SdlKeeps ==
  ASSUME TimersAssumption, TimersIInv, NEW i \in Ids, TimerCallback(i) \/ PushEvent
  PROVE  TimersIInv'
<1>1. TypeOK
  BY DEF TimersIInv
<1>2. UNCHANGED <<lastId, entry, timerId, executing, removed, adding>>
  BY DEF TimerCallback, PushEvent, registry, execution
<1>3. armed' \subseteq Ids /\ sdl' \in 0 .. MaxId
  <2>1. 0 \in 0 .. MaxId /\ i \in 0 .. MaxId
    BY DEF TimersAssumption
  <2> QED BY <1>1, <2>1 DEF TypeOK, TimerCallback, PushEvent
<1>4. queue' \in Seq(Ids)
  <2>1. CASE TimerCallback(i)
    BY <1>1, <2>1 DEF TypeOK, TimerCallback
  <2>2. CASE PushEvent
    <3>1. sdl \in Ids /\ queue \in Seq(Ids) /\ queue' = Append(queue, sdl)
      BY <1>1, <2>2 DEF PushEvent, TypeOK, TimersAssumption
    <3> QED BY <3>1, AppendProperties
  <2> QED BY <2>1, <2>2
<1>5. TypeOK'
  BY <1>1, <1>2, <1>3, <1>4 DEF TypeOK
<1> QED BY <1>2, <1>5 DEF TimersIInv, FreshInv, Issued, NoOrphan, Postponed,
                          ValidIsRegistered, CallbackKept

(* Taking an event out of the queue: only a registered timer is executed.  *)
LEMMA ExecuteKeeps ==
  ASSUME TimersAssumption, TimersIInv, ExecuteTimer
  PROVE  TimersIInv'
<1>1. TypeOK /\ executing = 0
  BY DEF TimersIInv, ExecuteTimer
<1>2. queue \in Seq(Ids) /\ queue # <<>>
  BY <1>1 DEF TypeOK, ExecuteTimer
<1>3. Head(queue) \in Ids /\ queue' \in Seq(Ids)
  BY <1>2, HeadTailProperties DEF ExecuteTimer
<1>4. executing' \in 0 .. MaxId /\ removed' \in BOOLEAN
  <2>1. Head(queue) \in 0 .. MaxId
    BY <1>3 DEF TimersAssumption
  <2> QED BY <1>1, <2>1 DEF ExecuteTimer, TypeOK, execution
<1>5. UNCHANGED <<lastId, entry, timerId, armed, sdl, adding>>
  BY DEF ExecuteTimer, registry
<1>6. TypeOK'
  BY <1>1, <1>3, <1>4, <1>5 DEF TypeOK
<1>7. executing' = 0 \/ (executing' = Head(queue) /\ ~removed'
                          /\ entry[executing'] # NoOwner)
  BY <1>1 DEF ExecuteTimer, execution
<1>8. CallbackKept'
  BY <1>5, <1>7 DEF CallbackKept
<1>9. \A i \in Ids : ~(executing = i /\ removed) /\ ~(executing' = i /\ removed')
  BY <1>1, <1>7 DEF TimersAssumption
<1>10. NoOrphan'
  BY <1>5, <1>9 DEF TimersIInv, NoOrphan, Postponed
<1>11. ValidIsRegistered'
  <2>1. \A o \in Owners : timerId[o] # 0 => timerId[o] \in Ids
    BY <1>1 DEF TypeOK, TimersAssumption
  <2> QED BY <1>5, <1>9, <2>1 DEF TimersIInv, ValidIsRegistered, Postponed
<1>12. FreshInv'
  BY <1>5 DEF TimersIInv, FreshInv, Issued
<1> QED BY <1>6, <1>8, <1>10, <1>11, <1>12 DEF TimersIInv

LEMMA ReturnKeeps ==
  ASSUME TimersAssumption, TimersIInv, CallbackReturns
  PROVE  TimersIInv'
<1>1. TypeOK /\ FreshInv /\ NoOrphan /\ ValidIsRegistered
  BY DEF TimersIInv
<1>2. executing \in Ids /\ executing' = 0 /\ removed' = removed
  BY <1>1 DEF CallbackReturns, Unregister, TypeOK, TimersAssumption
<1>3. UNCHANGED <<lastId, timerId, sdl, queue, adding>>
  BY DEF CallbackReturns
<1>4. \/ removed /\ entry' = [entry EXCEPT ![executing] = NoOwner]
         /\ armed' = armed \ {executing}
      \/ ~removed /\ entry' = entry /\ armed' = armed
  BY DEF CallbackReturns, Unregister
<1>5. TypeOK'
  <2>1. executing' \in 0 .. MaxId
    BY <1>2 DEF TimersAssumption
  <2>2. entry' \in [Ids -> Owners \cup {NoOwner}] /\ armed' \subseteq Ids
    BY <1>1, <1>4 DEF TypeOK
  <2> QED BY <1>1, <1>2, <1>3, <2>1, <2>2 DEF TypeOK
<1>6. NoOrphan'
  BY <1>1, <1>2, <1>3, <1>4 DEF NoOrphan, Postponed, TypeOK
<1>7. ValidIsRegistered'
  <2> SUFFICES ASSUME NEW o \in Owners, timerId[o] # 0
               PROVE  /\ entry'[timerId[o]] = o
                      /\ ~(executing' = timerId[o] /\ removed')
    BY <1>3 DEF ValidIsRegistered, Postponed
  <2>1. timerId[o] \in Ids /\ entry[timerId[o]] = o
        /\ ~(executing = timerId[o] /\ removed)
    BY <1>1 DEF ValidIsRegistered, Postponed, TypeOK, TimersAssumption
  <2> QED BY <1>1, <1>2, <1>4, <2>1 DEF TypeOK
<1>8. FreshInv'
  BY <1>1, <1>2, <1>3, <1>4 DEF FreshInv, Issued, TypeOK
<1>9. CallbackKept'
  BY <1>2 DEF CallbackKept
<1> QED BY <1>5, <1>6, <1>7, <1>8, <1>9 DEF TimersIInv

(* The invariant holds in every reachable state, whatever owners do inside *)
(* and outside of callbacks and whenever SDL fires.                        *)
THEOREM TimersInvariance ==
  ASSUME TimersAssumption PROVE Spec => []TimersIInv
<1>1. Init => TimersIInv
  BY InitTimers
<1>2. ASSUME TimersIInv, [Next]_vars PROVE TimersIInv'
  <2>1. ASSUME NEW o \in Owners, AddTimer(o) PROVE TimersIInv'
    BY <1>2, <2>1, AddTimerKeeps
  <2>2. ASSUME NEW o \in Owners, AddTimerFails(o) \/ Reset(o) PROVE TimersIInv'
    BY <1>2, <2>2, ResetKeeps
  <2>3. CASE TimerAdded
    BY <1>2, <2>3, TimerAddedKeeps
  <2>4. ASSUME NEW i \in Ids, TimerCallback(i) PROVE TimersIInv'
    BY <1>2, <2>4, SdlKeeps
  <2>5. CASE PushEvent
    <3>1. sdl \in Ids
      BY <1>2, <2>5 DEF PushEvent, TimersIInv, TypeOK, TimersAssumption
    <3> QED BY <1>2, <2>5, <3>1, SdlKeeps
  <2>6. CASE ExecuteTimer
    BY <1>2, <2>6, ExecuteKeeps
  <2>7. CASE CallbackReturns
    BY <1>2, <2>7, ReturnKeeps
  <2>8. CASE UNCHANGED vars
    BY <1>2, <2>8 DEF vars, registry, execution, TimersIInv, TypeOK, FreshInv,
         Issued, NoOrphan, Postponed, ValidIsRegistered, CallbackKept
  <2> QED BY <1>2, <2>1, <2>2, <2>3, <2>4, <2>5, <2>6, <2>7, <2>8 DEF Next
<1> QED BY <1>1, <1>2, PTL DEF Spec

(* The parts of the invariant that say what owners rely on.                *)
THEOREM TimersSafety ==
  ASSUME TimersAssumption
  PROVE  Spec => [](NoOrphan /\ ValidIsRegistered /\ CallbackKept)
<1>1. TimersIInv => NoOrphan /\ ValidIsRegistered /\ CallbackKept
  BY DEF TimersIInv
<1> QED BY TimersInvariance, <1>1, PTL

-----------------------------------------------------------------------------
(* Every step of the timers is one of the promise, or none of its business *)
LEMMA TimersPromiseStep ==
  ASSUME TimersAssumption, TimersIInv, [Next]_vars
  PROVE  [Promise!Next]_(Promise!vars)
<1>1. TypeOK /\ FreshInv /\ NoOrphan /\ lastId \in Nat /\ MaxId \in Nat
  BY DEF TimersIInv, TypeOK, TimersAssumption
<1>2. ASSUME NEW o \in Owners, AddTimer(o) PROVE UNCHANGED Promise!vars
  BY <1>1, <1>2 DEF AddTimer, Promise!vars, execution, TimersAssumption
<1>3. ASSUME NEW o \in Owners, AddTimerFails(o) PROVE Promise!Refuse(o)
  BY <1>1, <1>3 DEF AddTimerFails, ResetTimer, Promise!Refuse
<1>4. ASSUME NEW o \in Owners, Reset(o) PROVE Promise!Release(o)
  BY <1>1, <1>4 DEF Reset, ResetTimer, Promise!Release
<1>5. CASE TimerAdded
  <2>1. adding \in Owners /\ adding' = NoOwner /\ lastId' = lastId
        /\ timerId' = [timerId EXCEPT ![adding] = lastId]
        /\ executing' = executing
    BY <1>1, <1>5 DEF TimerAdded, TypeOK, ResetTimer
  <2>2. adding # NoOwner
    BY <1>5 DEF TimerAdded
  <2>3. Promise!Hold(adding)
    BY <1>1, <2>1, <2>2 DEF Promise!Hold
  <2> QED BY <2>1, <2>3 DEF Promise!Next
<1>6. ASSUME NEW i \in Ids, TimerCallback(i) PROVE UNCHANGED Promise!vars
  BY <1>6 DEF TimerCallback, registry, execution, Promise!vars
<1>7. CASE PushEvent
  BY <1>7 DEF PushEvent, registry, execution, Promise!vars
<1>8. CASE ExecuteTimer
  <2>1. queue \in Seq(Ids) /\ queue # <<>> /\ executing = 0
    BY <1>1, <1>8 DEF TypeOK, ExecuteTimer
  <2>2. Head(queue) \in Ids
    BY <2>1, HeadTailProperties
  <2>3. UNCHANGED <<lastId, timerId, adding>>
    BY <1>8 DEF ExecuteTimer, registry
  <2>4. CASE entry[Head(queue)] = NoOwner
    BY <1>8, <2>3, <2>4 DEF ExecuteTimer, execution, Promise!vars
  <2>5. CASE entry[Head(queue)] # NoOwner
    <3> DEFINE o == entry[Head(queue)]
    <3>1. o \in Owners /\ executing' = Head(queue) /\ Head(queue) # 0
      BY <1>1, <1>8, <2>2, <2>5 DEF ExecuteTimer, TypeOK
    <3>2. timerId[o] = Head(queue)
      BY <1>1, <2>1, <2>2, <2>5, <3>1 DEF NoOrphan, Postponed
    <3>3. Promise!Call(o)
      BY <2>1, <2>3, <3>1, <3>2 DEF Promise!Call
    <3> QED BY <3>1, <3>3 DEF Promise!Next
  <2> QED BY <2>4, <2>5
<1>9. CASE CallbackReturns
  BY <1>9 DEF CallbackReturns, Promise!Return, Promise!Next
<1>10. CASE UNCHANGED vars
  BY <1>10 DEF vars, registry, execution, Promise!vars
<1> QED BY <1>2, <1>3, <1>4, <1>5, <1>6, <1>7, <1>8, <1>9, <1>10
        DEF Next, Promise!Next

(* Owners, map, SDL thread and event queue together implement the promise: *)
(* nobody is called for a timer that was given back or replaced.           *)
THEOREM TimersImplementation ==
  ASSUME TimersAssumption PROVE Spec => ImplementsPromise
<1>1. Init => Promise!Init
  BY DEF Init, Promise!Init
<1>2. TimersIInv /\ [Next]_vars => [Promise!Next]_(Promise!vars)
  BY TimersPromiseStep
<1> QED BY TimersInvariance, <1>1, <1>2, PTL
        DEF Spec, ImplementsPromise, Promise!Spec
=============================================================================
