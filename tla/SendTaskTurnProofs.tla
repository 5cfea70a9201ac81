------------------------- MODULE SendTaskTurnProofs --------------------------
(***************************************************************************)
(* Proofs about SendTask that need one or both of two assumptions:         *)
(* application events are delivered by the main thread (TurnInv), and the  *)
(* user does not start a task before the first tick after a return to the  *)
(* foreground (StartInv).  Under both, no assertion fails and the task     *)
(* implements Campaign.                                                    *)
(***************************************************************************)
EXTENDS SendTaskProofs

(* The click on "start", the two handlers that send, and what walks        *)
(* through or clears the background callbacks can fail in an assertion; no *)
(* other step of the living process does, however events and user          *)
(* interleave.                                                             *)
LEMMA CalmStep ==
  ASSUME TypeOK, alive, LivingInv, [Next]_vars, ~Restart
  PROVE  \/ RunTask \/ SendTimerHandler \/ DidBackground \/ DidBackgroundEarly
         \/ BackgroundDisconnect \/ BackgroundHandled \/ EraseCallback \/ ClearCallbacks
         \/ failed' = failed /\ alive'
<1> DEFINE Calm == failed' = failed /\ alive'
<1> USE DEF LivingInv, UserReady, AtHome, HomeShown, Valid, CanEdit, process
<1>1. CASE ShowHome
  BY <1>1 DEF ShowHome
<1>2. CASE SelectSmsLayerReload
  BY <1>2 DEF SelectSmsLayerReload, ReloadSmsLayer, GenerateSendQueue,
     RefreshTaskButtons, Asserts, Broken, HomeInv
<1>3. CASE SelectInterval
  BY <1>3 DEF SelectInterval, ReloadSmsLayer, GenerateSendQueue, RefreshTaskButtons,
     Asserts, Broken
<1>4. CASE StopTask
  BY <1>4 DEF StopTask
<1>5. CASE ResetTask
  BY <1>5 DEF ResetTask, Asserts, Broken, QueueInv, HomeInv
<1>6. CASE CancelEditor
  BY <1>6 DEF CancelEditor
<1>7. CASE LeaveHome
  BY <1>7 DEF LeaveHome
<1>8. CASE OpenNotification
  BY <1>8 DEF OpenNotification
<1>9. CASE CloseNotification
  BY <1>9 DEF CloseNotification, Regenerate, GenerateSendQueue, Asserts, Broken
<1>10. CASE FinishWrite
  BY <1>10 DEF FinishWrite
<1>11. CASE RunTaskStarted
  BY <1>11 DEF RunTaskStarted
<1>12. CASE SmsSent
  BY <1>12 DEF SmsSent, Asserts, Broken, MainInv, QueueInv, HomeInv, PlatformInv
<1>13. CASE SendTimerRefresh
  BY <1>13 DEF SendTimerRefresh, RefreshHistory, RefreshTaskButtons, Asserts, Broken,
     HomeInv
<1>15. CASE EnterBackground
  BY <1>15 DEF EnterBackground, Asserts, Broken, PlatformInv
<1>16. CASE BackgroundConnect
  BY <1>16 DEF BackgroundConnect
<1>17. CASE DidEnterBackground
  BY <1>17 DEF DidEnterBackground, Asserts, Broken, PlatformInv
<1>18. CASE EnterForeground
  BY <1>18 DEF EnterForeground, Asserts, Broken, PlatformInv
<1>19. CASE Elapse
  BY <1>19 DEF Elapse
<1>21. ASSUME NEW l \in Layers, SelectLayer(l)
       PROVE  Calm
  BY <1>21 DEF SelectLayer
<1>22. ASSUME NEW s \in Strategies, SelectSimStrategy(s)
       PROVE  Calm
  BY <1>22 DEF SelectSimStrategy, ReloadSmsLayer, GenerateSendQueue, RefreshTaskButtons,
     Asserts, Broken
<1>23. ASSUME NEW k \in Kinds, NEW i \in 1 .. MaxItems[k], RequireSend(k, i)
       PROVE  Calm
  BY <1>23 DEF RequireSend
<1>24. ASSUME NEW k \in Kinds, NEW i \in 1 .. MaxItems[k], CloneItem(k, i)
       PROVE  Calm
  BY <1>24 DEF CloneItem
<1>25. ASSUME NEW k \in Kinds, NEW i \in 1 .. MaxItems[k], EraseItem(k, i)
       PROVE  Calm
  BY <1>25 DEF EraseItem
<1>26. ASSUME NEW k \in Kinds, NEW i \in 1 .. MaxItems[k], OpenEditor(k, i)
       PROVE  Calm
  BY <1>26 DEF OpenEditor
<1>27. ASSUME NEW g \in Groups, SavePerson(g)
       PROVE  Calm
  BY <1>27 DEF SavePerson
<1>28. ASSUME NEW k \in Kinds, NEW item \in Items(k), SaveItem(k, item)
       PROVE  Calm
  <2> DEFINE wanted == (Differs(k, item) \/ edit.changed) /\ Valid /\ edit.at = 1
  <2>a. wanted => CanEdit
    BY <1>28 DEF SaveItem, EditorInv, Editor, Editors, TypeOK, DataOK, Edits
  <2> QED BY <1>28, <2>a DEF SaveItem, Regenerate, GenerateSendQueue, Asserts, Broken
<1>29. ASSUME NEW k \in Kinds, NEW content \in Content(k), NEW ok \in BOOLEAN, Download(k, content, ok)
       PROVE  Calm
  BY <1>29 DEF Download
<1>40. CASE SaveSetting
  BY <1>40 DEF SaveSetting
<1>41. CASE FinishPreferences
  BY <1>41 DEF FinishPreferences
<1>42. CASE SmsCounted
  BY <1>42 DEF SmsCounted, RefreshTaskButtons, Asserts, Broken, MainInv, HomeInv
<1>43. CASE DidEnterForeground
  BY <1>43 DEF DidEnterForeground, Asserts, Broken, PlatformInv
<1>44. CASE HandleBackground
  BY <1>44 DEF HandleBackground
<1>30. CASE UNCHANGED vars
  BY <1>30 DEF vars
<1> QED
  BY <1>1, <1>2, <1>3, <1>4, <1>5, <1>6, <1>7, <1>8, <1>9, <1>10, <1>11,
     <1>12, <1>13, <1>15, <1>16, <1>17, <1>18, <1>19, <1>21,
     <1>22, <1>23, <1>24, <1>25, <1>26, <1>27, <1>28, <1>29, <1>30, <1>40, <1>41, <1>42, <1>43, <1>44
     DEF Next, User, MainThread, Continue, AppEvents, EventContinues

(* Events in turn: a handler of the main thread is never interrupted by    *)
(* one, and the background callback is there while a task runs.            *)
LEMMA TurnStep ==
  ASSUME ~ConcurrentAppEvents, TypeOK, LivingInv, TurnInv, [Next]_vars
  PROVE  TurnInv'
<1> USE DEF LivingInv, TurnInv, UserReady, AtHome, Kinds, Sending, Counting, Saving, Handling,
            task, platform
<1>1. CASE ShowHome
  BY <1>1 DEF ShowHome
<1>2. ASSUME NEW l \in Layers, SelectLayer(l)
      PROVE  TurnInv'
  BY <1>2 DEF SelectLayer
<1>3. CASE SelectSmsLayerReload
  BY <1>3 DEF SelectSmsLayerReload
<1>4. ASSUME NEW s \in Strategies, SelectSimStrategy(s)
      PROVE  TurnInv'
  BY <1>4 DEF SelectSimStrategy, WritePreferences
<1>5. CASE SelectInterval
  BY <1>5 DEF SelectInterval, WritePreferences
<1>6. CASE RunTask
  BY <1>6 DEF RunTask
<1>7. CASE StopTask
  BY <1>7 DEF StopTask
<1>8. CASE ResetTask
  BY <1>8 DEF ResetTask, WritePreferences
<1>9. ASSUME NEW k \in Kinds, NEW i \in 1 .. MaxItems[k], RequireSend(k, i)
      PROVE  TurnInv'
  BY <1>9 DEF RequireSend, WritePb
<1>10. ASSUME NEW k \in Kinds, NEW i \in 1 .. MaxItems[k], CloneItem(k, i)
       PROVE  TurnInv'
  BY <1>10 DEF CloneItem, WritePb
<1>11. ASSUME NEW k \in Kinds, NEW i \in 1 .. MaxItems[k], EraseItem(k, i)
       PROVE  TurnInv'
  BY <1>11 DEF EraseItem, WritePb
<1>12. ASSUME NEW k \in Kinds, NEW i \in 1 .. MaxItems[k], OpenEditor(k, i)
       PROVE  TurnInv'
  BY <1>12 DEF OpenEditor
<1>13. ASSUME NEW g \in Groups, SavePerson(g)
       PROVE  TurnInv'
  BY <1>13 DEF SavePerson, WritePb
<1>14. ASSUME NEW k \in Kinds, NEW item \in Items(k), SaveItem(k, item)
       PROVE  TurnInv'
  BY <1>14 DEF SaveItem, WritePb
<1>15. CASE CancelEditor
  BY <1>15 DEF CancelEditor
<1>16. CASE LeaveHome
  BY <1>16 DEF LeaveHome
<1>17. CASE OpenNotification
  BY <1>17 DEF OpenNotification
<1>18. ASSUME NEW k \in Kinds, NEW content \in Content(k), NEW ok \in BOOLEAN, Download(k, content, ok)
       PROVE  TurnInv'
  BY <1>18 DEF Download
<1>19. CASE CloseNotification
  BY <1>19 DEF CloseNotification
<1>20. CASE FinishWrite
  BY <1>20 DEF FinishWrite
<1>21. CASE RunTaskStarted
  BY <1>21 DEF RunTaskStarted
<1>22. CASE SmsSent
  BY <1>22 DEF SmsSent, MainInv
<1>23. CASE SendTimerRefresh
  BY <1>23 DEF SendTimerRefresh
<1>24. CASE SendTimerHandler
  BY <1>24 DEF SendTimerHandler, HandOver, PlatformInv
<1>25. CASE EraseCallback
  BY <1>25 DEF EraseCallback, Iterate, MainInv, PlatformInv
<1>26. CASE DidBackground
  BY <1>26 DEF DidBackground, HandOver
<1>27. CASE EnterBackground
  BY <1>27 DEF EnterBackground
<1>28. CASE BackgroundConnect
  <2>1. running \in BOOLEAN /\ ~callback /\ UNCHANGED <<main, running, dangling>>
    BY <1>28 DEF BackgroundConnect, PlatformInv, TypeOK, FlagsOK
  <2>2. app = "timer_removed" /\ app' = "connected" /\ (callback' <=> running)
    BY <1>28, <2>1 DEF BackgroundConnect
  <2> QED BY <2>1, <2>2
<1>29. CASE DidEnterBackground
  BY <1>29 DEF DidEnterBackground
<1>30. CASE EnterForeground
  BY <1>30 DEF EnterForeground
<1>31. CASE Elapse
  BY <1>31 DEF Elapse
<1>32. CASE Restart
  BY <1>32 DEF Restart, ProcessStarts
<1>40. CASE SaveSetting
  BY <1>40 DEF SaveSetting, WritePreferences, PlatformInv, MainInv
<1>41. CASE FinishPreferences
  BY <1>41 DEF FinishPreferences, PlatformInv, MainInv
<1>42. CASE SmsCounted
  BY <1>42 DEF SmsCounted, PlatformInv, MainInv
<1>43. CASE ClearCallbacks
  BY <1>43 DEF ClearCallbacks, PlatformInv, MainInv
<1>44. CASE DidEnterForeground
  BY <1>44 DEF DidEnterForeground, PlatformInv, MainInv
<1>45. CASE HandleBackground
  BY <1>45 DEF HandleBackground, PlatformInv, MainInv
<1>46. CASE DidBackgroundEarly
  BY <1>46 DEF DidBackgroundEarly, PlatformInv, MainInv
<1>47. CASE BackgroundDisconnect
  BY <1>47 DEF BackgroundDisconnect, PlatformInv, MainInv
<1>48. CASE BackgroundHandled
  BY <1>48 DEF BackgroundHandled, Iterate, PlatformInv, MainInv
<1>33. CASE UNCHANGED vars
  BY <1>33 DEF vars
<1> QED
  BY <1>1, <1>2, <1>3, <1>4, <1>5, <1>6, <1>7, <1>8, <1>9, <1>10, <1>11,
     <1>12, <1>13, <1>14, <1>15, <1>16, <1>17, <1>18, <1>19, <1>20, <1>21,
     <1>22, <1>23, <1>24, <1>25, <1>26, <1>27, <1>28, <1>29, <1>30, <1>31,
     <1>32, <1>33, <1>40, <1>41, <1>42, <1>43, <1>44,
     <1>45, <1>46, <1>47, <1>48
     DEF Next, User, MainThread, Continue, AppEvents, EventContinues

(* The user waits: a task that runs has a next record, and one that can be *)
(* started would have.                                                     *)
LEMMA StartStep ==
  ASSUME ~EagerUser, TypeOK, TypeOK', LivingInv, StartInv, [Next]_vars, alive'
  PROVE  StartInv'
<1>0. Len(records) \in Nat /\ Len(records') \in Nat
  BY LenProperties DEF TypeOK, DataOK
<1> USE <1>0 DEF LivingInv, StartInv, InFront, UserReady, AtHome, HomeShown, Valid, CanEdit, Kinds,
            Sending, Counting, Saving, Handling, task, home, platform
<1>1. CASE ShowHome
  BY <1>1, ButtonsTell DEF ShowHome
<1>2. ASSUME NEW l \in Layers, SelectLayer(l)
      PROVE  StartInv'
  BY <1>2 DEF SelectLayer
<1>3. CASE SelectSmsLayerReload
  BY <1>3, ButtonsTell DEF SelectSmsLayerReload, ReloadSmsLayer, HomeInv
<1>4. ASSUME NEW s \in Strategies, SelectSimStrategy(s)
      PROVE  StartInv'
  BY <1>4, ButtonsTell DEF SelectSimStrategy, WritePreferences, ReloadSmsLayer
<1>5. CASE SelectInterval
  BY <1>5, ButtonsTell DEF SelectInterval, WritePreferences, ReloadSmsLayer
<1>6. CASE RunTask
  <2>1. foreground /\ records # <<>>
    BY <1>6 DEF RunTask, Asserts, Broken
  <2>2. nextSendAt < Len(records)
    BY <1>6, <2>1 DEF RunTask, QueueInv, TypeOK, DataOK
  <2> QED BY <1>6, <2>2 DEF RunTask
<1>7. CASE StopTask
  BY <1>7, ButtonsTell DEF StopTask
<1>8. CASE ResetTask
  <2>1. nextSendAt \in Nat /\ nextSendAt # 0 /\ nextSendAt <= Len(records) /\ ~running
    BY <1>8 DEF ResetTask, WritePreferences, HomeInv, QueueInv, TypeOK, DataOK
  <2>2. Len(records) # 0
    BY <1>0, <2>1
  <2> QED BY <1>8, <2>1, <2>2 DEF ResetTask, WritePreferences
<1>9. ASSUME NEW k \in Kinds, NEW i \in 1 .. MaxItems[k], RequireSend(k, i)
      PROVE  StartInv'
  BY <1>9 DEF RequireSend, WritePb
<1>10. ASSUME NEW k \in Kinds, NEW i \in 1 .. MaxItems[k], CloneItem(k, i)
       PROVE  StartInv'
  BY <1>10 DEF CloneItem, WritePb
<1>11. ASSUME NEW k \in Kinds, NEW i \in 1 .. MaxItems[k], EraseItem(k, i)
       PROVE  StartInv'
  BY <1>11 DEF EraseItem, WritePb
<1>12. ASSUME NEW k \in Kinds, NEW i \in 1 .. MaxItems[k], OpenEditor(k, i)
       PROVE  StartInv'
  BY <1>12 DEF OpenEditor, HomeClosed
<1>13. ASSUME NEW g \in Groups, SavePerson(g)
       PROVE  StartInv'
  BY <1>13 DEF SavePerson, WritePb, HomeInv
<1>14. ASSUME NEW k \in Kinds, NEW item \in Items(k), SaveItem(k, item)
       PROVE  StartInv'
  <2> DEFINE wanted == (Differs(k, item) \/ edit.changed) /\ Valid /\ edit.at = 1
  <2>1. wanted => CanEdit
    BY <1>14 DEF SaveItem, EditorInv, Editor, Editors, TypeOK, DataOK, Edits
  <2>2. ~wanted => UNCHANGED records
    BY <1>14 DEF SaveItem, Regenerate
  <2>3. /\ main' # "starting" /\ ~runButton'
        /\ UNCHANGED <<running, nextSendAt>>
    BY <1>14 DEF SaveItem, WritePb, HomeInv, Editor
  <2> QED BY <1>14, <2>1, <2>2, <2>3 DEF SaveItem
<1>15. CASE CancelEditor
  BY <1>15 DEF CancelEditor, HomeInv, Editors
<1>16. CASE LeaveHome
  BY <1>16 DEF LeaveHome, HomeClosed
<1>17. CASE OpenNotification
  BY <1>17 DEF OpenNotification, HomeClosed
<1>18. ASSUME NEW k \in Kinds, NEW content \in Content(k), NEW ok \in BOOLEAN, Download(k, content, ok)
       PROVE  StartInv'
  BY <1>18 DEF Download, HomeInv
<1>19. CASE CloseNotification
  BY <1>19 DEF CloseNotification, HomeInv, Regenerate
<1>20. CASE FinishWrite
  BY <1>20 DEF FinishWrite
<1>21. CASE RunTaskStarted
  BY <1>21 DEF RunTaskStarted
<1>22. CASE SmsSent
  BY <1>22 DEF SmsSent, MainInv
<1>23. CASE SendTimerRefresh
  BY <1>23, ButtonsTell DEF SendTimerRefresh, RefreshHistory
<1>24. CASE SendTimerHandler
  BY <1>24 DEF SendTimerHandler, HandOver
<1>25. CASE EraseCallback
  BY <1>25 DEF EraseCallback, Iterate
<1>26. CASE DidBackground
  BY <1>26 DEF DidBackground, HandOver
<1>27. CASE EnterBackground
  BY <1>27 DEF EnterBackground
<1>28. CASE BackgroundConnect
  BY <1>28 DEF BackgroundConnect
<1>29. CASE DidEnterBackground
  BY <1>29 DEF DidEnterBackground
<1>30. CASE EnterForeground
  BY <1>30 DEF EnterForeground
<1>31. CASE Elapse
  BY <1>31 DEF Elapse
<1>32. CASE Restart
  BY <1>32 DEF Restart, ProcessStarts, HomeClosed
<1>40. CASE SaveSetting
  BY <1>40 DEF SaveSetting, WritePreferences, PlatformInv
<1>41. CASE FinishPreferences
  BY <1>41 DEF FinishPreferences, PlatformInv
<1>42. CASE SmsCounted
  <2>1. running /\ nextSendAt \in Nat /\ nextSendAt < Len(records)
    BY <1>42 DEF SmsCounted, MainInv, TypeOK, DataOK
  <2>2. /\ nextSendAt' = nextSendAt + 1 /\ main' # "starting" /\ UNCHANGED records
        /\ running' <=> nextSendAt + 1 # Len(records)
    BY <1>42 DEF SmsCounted
  <2>3. running' => nextSendAt' < Len(records')
    BY <2>1, <2>2
  <2>4. ASSUME runButton', ~running', InFront', ~requireRefresh'
        PROVE  nextSendAt' # Len(records')
    <3>1. /\ HomeShown /\ nextSendAt + 1 = Len(records)
          /\ foreground \/ (main = "counted_by_timer" /\ requireRefresh)
      <4>1. HomeShown'
        BY <1>42, <2>4 DEF SmsCounted, HomeInv
      <4> QED BY <1>42, <2>2, <2>4, <4>1 DEF SmsCounted, PlatformInv
    <3>2. RefreshTaskButtons
      BY <1>42, <3>1 DEF SmsCounted
    <3> QED BY <2>4, <3>2, ButtonsTell
  <2> QED BY <2>2, <2>3, <2>4
<1>43. CASE ClearCallbacks
  BY <1>43 DEF ClearCallbacks, PlatformInv
<1>44. CASE DidEnterForeground
  BY <1>44 DEF DidEnterForeground, PlatformInv
<1>45. CASE HandleBackground
  BY <1>45 DEF HandleBackground, PlatformInv
<1>46. CASE DidBackgroundEarly
  BY <1>46 DEF DidBackgroundEarly, PlatformInv
<1>47. CASE BackgroundDisconnect
  BY <1>47 DEF BackgroundDisconnect, PlatformInv
<1>48. CASE BackgroundHandled
  BY <1>48 DEF BackgroundHandled, Iterate, PlatformInv
<1>33. CASE UNCHANGED vars
  BY <1>33 DEF vars
<1> QED
  BY <1>1, <1>2, <1>3, <1>4, <1>5, <1>6, <1>7, <1>8, <1>9, <1>10, <1>11,
     <1>12, <1>13, <1>14, <1>15, <1>16, <1>17, <1>18, <1>19, <1>20, <1>21,
     <1>22, <1>23, <1>24, <1>25, <1>26, <1>27, <1>28, <1>29, <1>30, <1>31,
     <1>32, <1>33, <1>40, <1>41, <1>42, <1>43, <1>44,
     <1>45, <1>46, <1>47, <1>48
     DEF Next, User, MainThread, Continue, AppEvents, EventContinues

-----------------------------------------------------------------------------
(* The theorems                                                            *)

(* With events delivered by the main thread, TurnInv is an invariant.      *)
LEMMA TurnInvariance ==
  ASSUME ~ConcurrentAppEvents
  PROVE  Spec => [](alive => TurnInv)
<1> DEFINE Turn == alive => TurnInv
<1>1. Init => Turn
  BY DEF Init, TurnInv
<1>2. ASSUME RaceInv, Turn, [Next]_vars PROVE Turn'
  <2>1. CASE alive
    BY <1>2, <2>1, TurnStep DEF RaceInv
  <2>2. CASE Restart
    BY <2>2 DEF Restart, ProcessStarts, TurnInv
  <2>3. CASE ~alive /\ ~Restart
    <3>1. alive' = alive
      BY <1>2, <2>3, DeadStep
    <3> QED BY <2>3, <3>1
  <2> QED BY <2>1, <2>2, <2>3
<1>3. RaceInv /\ Turn /\ [Next]_vars => Turn'
  BY <1>2
<1> QED BY RaceInvariance, <1>1, <1>3, PTL DEF Spec

(* With a user who waits for the first tick, StartInv is an invariant.     *)
THEOREM StartInvariance ==
  ASSUME ~EagerUser
  PROVE  Spec => [](alive => StartInv)
<1> DEFINE Start == alive => StartInv
<1>1. Init => Start
  BY DEF Init, StartInv, InFront
<1>2. ASSUME RaceInv, Start, [Next]_vars PROVE Start'
  <2>0. TypeOK /\ TypeOK'
    BY <1>2, DataStep, FlagsStep DEF RaceInv, TypeOK
  <2>1. CASE alive
    BY <1>2, <2>0, <2>1, StartStep DEF RaceInv
  <2>2. CASE Restart
    BY <2>2 DEF Restart, ProcessStarts, HomeClosed, StartInv, InFront
  <2>3. CASE ~alive /\ ~Restart
    <3>1. alive' = alive
      BY <1>2, <2>3, DeadStep
    <3> QED BY <2>3, <3>1
  <2> QED BY <2>1, <2>2, <2>3
<1>3. RaceInv /\ Start /\ [Next]_vars => Start'
  BY <1>2
<1> QED BY RaceInvariance, <1>1, <1>3, PTL DEF Spec

(* Then a running task always has a next record and a SIM to send it with, *)
(* also with application events on a thread of their own.                  *)
THEOREM RunningSafety ==
  ASSUME ~EagerUser
  PROVE  Spec => []RunningInBounds
<1> DEFINE Start == alive => StartInv
<1>1. RaceInv /\ Start => RunningInBounds
  BY DEF RaceInv, LivingInv, QueueInv, StartInv, RunningInBounds
<1> QED BY RaceInvariance, StartInvariance, <1>1, PTL

(* And the assertion of send_sms (main.cpp:505) holds: that it fails is    *)
(* due to the early start alone, not to the threads.                       *)
THEOREM SendSmsSafety ==
  ASSUME ~EagerUser
  PROVE  Spec => []SendSmsAsserted
<1> DEFINE Start == alive => StartInv
<1>1. Init => SendSmsAsserted
  BY DEF Init, SendSmsAsserted
<1>2. ASSUME RaceInv, Start, SendSmsAsserted, [Next]_vars PROVE SendSmsAsserted'
  <2>0. CASE Restart
    BY <2>0 DEF Restart, SendSmsAsserted
  <2>1. CASE ~alive /\ ~Restart
    <3>1. failed' = failed
      BY <1>2, <2>1, DeadStep
    <3> QED BY <1>2, <3>1 DEF SendSmsAsserted
  <2>2. CASE alive /\ RunTask
    BY <1>2, <2>2 DEF RunTask, Asserts, Broken, SendSmsAsserted
  <2>3. CASE alive /\ (SendTimerHandler \/ DidBackground)
    <3>1. nextSendAt < Len(records)
      BY <1>2, <2>3 DEF SendTimerHandler, DidBackground, HandOver, StartInv
    <3> QED BY <1>2, <2>3, <3>1
            DEF SendTimerHandler, DidBackground, Asserts, Broken, SendSmsAsserted
  <2>4. CASE \/ DidBackgroundEarly \/ BackgroundDisconnect \/ BackgroundHandled
              \/ EraseCallback \/ ClearCallbacks
    BY <1>2, <2>4 DEF DidBackgroundEarly, BackgroundDisconnect, BackgroundHandled,
       EraseCallback, Iterate, ClearCallbacks, Asserts, Broken, SendSmsAsserted
  <2>5. CASE alive /\ ~Restart /\ failed' = failed
    BY <1>2, <2>5 DEF SendSmsAsserted
  <2> QED BY <1>2, <2>0, <2>1, <2>2, <2>3, <2>4, <2>5, CalmStep DEF RaceInv
<1>3. RaceInv /\ Start /\ SendSmsAsserted /\ [Next]_vars => SendSmsAsserted'
  BY <1>2
<1> QED BY RaceInvariance, StartInvariance, <1>1, <1>3, PTL DEF Spec

(* Under both assumptions no step fails in an assertion.                   *)
LEMMA HoldsStep ==
  ASSUME ~ConcurrentAppEvents, ~EagerUser, IInv, [Next]_vars
  PROVE  failed' = {} /\ alive'
<1>1. CASE RunTask
  <2>1. nextSendAt < Len(records) /\ records # <<>>
    BY <1>1, EmptySeq
       DEF RunTask, AtHome, UserReady, IInv, RaceInv, LivingInv, PlatformInv, QueueInv,
          StartInv,
           InFront, TypeOK, DataOK
  <2> QED BY <1>1, <2>1
          DEF RunTask, AtHome, UserReady, IInv, RaceInv, LivingInv, PlatformInv,
             HomeInv, Asserts,
              Broken
<1>2. CASE SendTimerHandler \/ DidBackground
  BY <1>2 DEF SendTimerHandler, DidBackground, HandOver, IInv, RaceInv, LivingInv,
     PlatformInv, TurnInv, Handling,
              StartInv, Asserts, Broken
<1>3. CASE DidBackgroundEarly \/ BackgroundDisconnect \/ BackgroundHandled \/ EraseCallback
  BY <1>3 DEF DidBackgroundEarly, BackgroundDisconnect, BackgroundHandled, EraseCallback,
     Iterate, IInv, RaceInv, LivingInv, PlatformInv, TurnInv, Handling, Asserts, Broken
<1>4. CASE ClearCallbacks
  BY <1>4 DEF ClearCallbacks, IInv, RaceInv, TypeOK, FlagsOK, TurnInv, Asserts, Broken
<1>5. CASE Restart
  BY <1>5 DEF Restart, ProcessStarts
<1>6. CASE failed' = failed /\ alive'
  BY <1>6 DEF IInv
<1> QED BY <1>1, <1>2, <1>3, <1>4, <1>5, <1>6, CalmStep DEF IInv, RaceInv

(* Under both, IInv is an invariant.                                       *)
THEOREM Invariance ==
  ASSUME ~ConcurrentAppEvents, ~EagerUser
  PROVE  Spec => []IInv
<1>1. Init => failed = {} /\ alive
  BY DEF Init
<1> DEFINE Turn == alive => TurnInv
           Start == alive => StartInv
           Held == failed = {} /\ alive
<1>2. RaceInv /\ Turn /\ Start /\ Held => IInv
  BY DEF IInv
<1>3. RaceInv /\ Turn /\ Start /\ Held /\ [Next]_vars => Held'
  BY <1>2, HoldsStep
<1> QED BY RaceInvariance, TurnInvariance, StartInvariance, <1>1, <1>2, <1>3, PTL DEF Spec

(* No VALIDATE fails: the main loop is never left by an exception.         *)
THEOREM AssertionSafety ==
  ASSUME ~ConcurrentAppEvents, ~EagerUser
  PROVE  Spec => []AssertionsHold
<1>1. IInv => AssertionsHold
  BY DEF IInv, AssertionsHold
<1> QED BY Invariance, <1>1, PTL

-----------------------------------------------------------------------------
(* The implementation of Campaign                                          *)

(* The first start is an initial state of Campaign.                        *)
LEMMA PromiseInit == Init => Promise!Init
BY DEF Init, Promise!Init, Sending, Counting

(* Every step is a step of Campaign or leaves its variables unchanged.     *)
LEMMA PromiseStep ==
  ASSUME ~ConcurrentAppEvents, ~EagerUser, IInv, [Next]_vars
  PROVE  [Promise!Next]_(Promise!vars)
<1>0. TypeOK /\ TypeOK' /\ records' \in Seq(Record)
  BY DataStep, FlagsStep DEF IInv, RaceInv, TypeOK, DataOK
<1> USE <1>0 DEF IInv, RaceInv, LivingInv, UserReady, AtHome, Sending, Counting, Saving, Handling,
            Promise!Next, Promise!vars,
            TypeOK, lists, task
<1>1. CASE ShowHome
  BY <1>1 DEF ShowHome
<1>2. CASE SelectSmsLayerReload
  BY <1>2 DEF SelectSmsLayerReload, HomeInv, CanEdit, Promise!Requeue
<1>3. CASE SelectInterval
  BY <1>3 DEF SelectInterval, WritePreferences, CanEdit, Promise!Requeue
<1>4. CASE RunTask
  BY <1>4 DEF RunTask
<1>5. CASE StopTask
  BY <1>5 DEF StopTask, Promise!Stop
<1>6. CASE ResetTask
  BY <1>6 DEF ResetTask, WritePreferences, HomeInv, Promise!Reset
<1>7. CASE CancelEditor
  BY <1>7 DEF CancelEditor
<1>8. CASE LeaveHome
  BY <1>8 DEF LeaveHome
<1>9. CASE OpenNotification
  BY <1>9 DEF OpenNotification
<1>10. CASE CloseNotification
  BY <1>10 DEF CloseNotification, Regenerate, CanEdit, Promise!Requeue
<1>11. CASE FinishWrite
  BY <1>11 DEF FinishWrite, Kinds
<1>12. CASE RunTaskStarted
  <2>1. ~running /\ running' = TRUE /\ nextSendAt < Len(records)
    BY <1>12 DEF RunTaskStarted, MainInv, StartInv
  <2>2. UNCHANGED <<records, nextSendAt, crashes>> /\ UNCHANGED (main \in Sending \cup Counting)
    BY <1>12 DEF RunTaskStarted
  <2> QED BY <2>1, <2>2 DEF Promise!Start
<1>13. CASE SmsSent
  BY <1>13 DEF SmsSent
<1>14. CASE SendTimerRefresh
  BY <1>14 DEF SendTimerRefresh
<1>15. CASE SendTimerHandler
  BY <1>15 DEF SendTimerHandler, HandOver, StartInv, Promise!Handover
<1>16. CASE EraseCallback
  BY <1>16 DEF EraseCallback, Iterate
<1>17. CASE DidBackground
  BY <1>17 DEF DidBackground, HandOver, StartInv, Promise!Handover
<1>18. CASE EnterBackground
  BY <1>18 DEF EnterBackground
<1>19. CASE BackgroundConnect
  BY <1>19 DEF BackgroundConnect
<1>20. CASE DidEnterBackground
  BY <1>20 DEF DidEnterBackground
<1>21. CASE EnterForeground
  BY <1>21 DEF EnterForeground
<1>22. CASE Elapse
  BY <1>22 DEF Elapse
<1>23. CASE Restart
  <2>1. crashes' = crashes + 1 /\ ~running' /\ main' \in {"idle", "loading"}
    BY <1>23 DEF Restart, ProcessStarts
  <2>2. Len(records') \in Nat
    BY LenProperties DEF TypeOK, DataOK
  <2>3. nextSendAt' \in {0, nextSendAt} /\ nextSendAt' <= Len(records')
    BY <1>23, <2>2 DEF Restart, PersistedPosition, NoPrefs, ResumedAt, DataOK
  <2> QED BY <2>1, <2>3 DEF Promise!Restart, FlagsOK
<1>24. ASSUME NEW l \in Layers, SelectLayer(l)
       PROVE  [Promise!Next]_(Promise!vars)
  BY <1>24 DEF SelectLayer
<1>25. ASSUME NEW s \in Strategies, SelectSimStrategy(s)
       PROVE  [Promise!Next]_(Promise!vars)
  BY <1>25 DEF SelectSimStrategy, WritePreferences, CanEdit, Promise!Requeue
<1>26. ASSUME NEW k \in Kinds, NEW i \in 1 .. MaxItems[k], RequireSend(k, i)
       PROVE  [Promise!Next]_(Promise!vars)
  BY <1>26 DEF RequireSend, WritePb, Kinds
<1>27. ASSUME NEW k \in Kinds, NEW i \in 1 .. MaxItems[k], CloneItem(k, i)
       PROVE  [Promise!Next]_(Promise!vars)
  BY <1>27 DEF CloneItem, WritePb, Kinds
<1>28. ASSUME NEW k \in Kinds, NEW i \in 1 .. MaxItems[k], EraseItem(k, i)
       PROVE  [Promise!Next]_(Promise!vars)
  BY <1>28 DEF EraseItem, WritePb, Kinds
<1>29. ASSUME NEW k \in Kinds, NEW i \in 1 .. MaxItems[k], OpenEditor(k, i)
       PROVE  [Promise!Next]_(Promise!vars)
  BY <1>29 DEF OpenEditor
<1>30. ASSUME NEW g \in Groups, SavePerson(g)
       PROVE  [Promise!Next]_(Promise!vars)
  BY <1>30 DEF SavePerson, WritePb, Kinds
<1>31. ASSUME NEW k \in Kinds, NEW item \in Items(k), SaveItem(k, item)
       PROVE  [Promise!Next]_(Promise!vars)
  <2>1. CanEdit \/ UNCHANGED records
    BY <1>31 DEF SaveItem, Regenerate, EditorInv, Editors, Editor
  <2>2. main' \notin Sending \cup Counting /\ UNCHANGED <<nextSendAt, running, crashes>>
    BY <1>31 DEF SaveItem, WritePb, Sending, Kinds
  <2> QED BY <1>31, <2>1, <2>2 DEF SaveItem, CanEdit, Promise!Requeue
<1>32. ASSUME NEW k \in Kinds, NEW content \in Content(k), NEW ok \in BOOLEAN, Download(k, content, ok)
       PROVE  [Promise!Next]_(Promise!vars)
  BY <1>32 DEF Download
<1>40. CASE SaveSetting
  BY <1>40 DEF SaveSetting, WritePreferences
<1>41. CASE FinishPreferences
  BY <1>41 DEF FinishPreferences
<1>42. CASE SmsCounted
  BY <1>42 DEF SmsCounted, MainInv, Promise!Count
<1>43. CASE ClearCallbacks
  BY <1>43 DEF ClearCallbacks
<1>44. CASE DidEnterForeground
  BY <1>44 DEF DidEnterForeground
<1>45. CASE HandleBackground
  BY <1>45 DEF HandleBackground
<1>46. CASE DidBackgroundEarly
  BY <1>46 DEF DidBackgroundEarly
<1>47. CASE BackgroundDisconnect
  BY <1>47 DEF BackgroundDisconnect
<1>48. CASE BackgroundHandled
  BY <1>48 DEF BackgroundHandled, Iterate
<1>33. CASE UNCHANGED vars
  BY <1>33 DEF vars
<1> QED
  BY <1>1, <1>2, <1>3, <1>4, <1>5, <1>6, <1>7, <1>8, <1>9, <1>10, <1>11,
     <1>12, <1>13, <1>14, <1>15, <1>16, <1>17, <1>18, <1>19, <1>20, <1>21,
     <1>22, <1>23, <1>24, <1>25, <1>26, <1>27, <1>28, <1>29, <1>30, <1>31,
     <1>32, <1>33, <1>40, <1>41, <1>42, <1>43, <1>44,
     <1>45, <1>46, <1>47, <1>48
     DEF Next, User, MainThread, Continue, AppEvents, EventContinues

(* The task, its timer and its background handler implement Campaign.      *)
THEOREM Implementation ==
  ASSUME ~ConcurrentAppEvents, ~EagerUser
  PROVE  Spec => ImplementsCampaign
<1>1. IInv /\ [Next]_vars => [Promise!Next]_(Promise!vars)
  BY PromiseStep
<1> QED BY Invariance, PromiseInit, <1>1, PTL
        DEF Spec, ImplementsCampaign, Promise!Spec
=============================================================================
