--------------------------- MODULE SendTaskProofs ----------------------------
(***************************************************************************)
(* Proofs about SendTask for every value of the constants, that is however *)
(* application events, clicks and ticks interleave: its types, the         *)
(* invariant RaceInv with the safety properties it gives, the action       *)
(* properties TaskLocked and ResumesInPlace, and the buttons.              *)
(***************************************************************************)
EXTENDS SendTaskInv, TLAPS, SequenceTheorems

-----------------------------------------------------------------------------
(* The operators of SendQueue                                              *)

(* A function on 1 .. n is a sequence of length n.                         *)
LEMMA SeqFromFunction ==
  ASSUME NEW S, NEW n \in Nat, NEW f \in [1 .. n -> S]
  PROVE  f \in Seq(S) /\ Len(f) = n
BY SeqDef

(* require_send_group and require_send_template keep a list a list of      *)
(* the same length.                                                        *)
LEMMA MoveToFrontType ==
  ASSUME NEW S, NEW s \in Seq(S), NEW i \in 1 .. Len(s)
  PROVE  MoveToFront(s, i) \in Seq(S) /\ Len(MoveToFront(s, i)) = Len(s)
<1>1. MoveToFront(s, i) \in [1 .. Len(s) -> S]
  BY DEF MoveToFront
<1> QED BY <1>1, SeqFromFunction

(* erase_group and erase_template leave a list that is one shorter.        *)
LEMMA WithoutType ==
  ASSUME NEW S, NEW s \in Seq(S), NEW i \in 1 .. Len(s)
  PROVE  Without(s, i) \in Seq(S) /\ Len(Without(s, i)) = Len(s) - 1
<1>1. Without(s, i) \in [1 .. Len(s) - 1 -> S]
  BY DEF Without
<1> QED BY <1>1, SeqFromFunction

(* Storing a working copy leaves a list that is not empty.                 *)
LEMMA StoreType ==
  ASSUME NEW S, NEW s \in Seq(S), NEW i \in Nat \ {0}, NEW item \in S
  PROVE  Store(s, i, item) \in Seq(S) /\ Store(s, i, item) # <<>>
<1>1. CASE i <= Len(s)
  <2>1. [s EXCEPT ![i] = item] \in Seq(S) /\ Len([s EXCEPT ![i] = item]) = Len(s)
    BY <1>1, ExceptSeq, LenProperties
  <2>2. Len(s) # 0
    BY <1>1, LenProperties
  <2> QED BY <1>1, <2>1, <2>2, EmptySeq DEF Store
<1>2. CASE ~(i <= Len(s))
  BY <1>2, AppendProperties, EmptySeq DEF Store
<1> QED BY <1>1, <1>2

(* generate_send_queue makes records, none without a SIM strategy, and     *)
(* only from lists that are not empty.                                     *)
LEMMA GeneratedType ==
  ASSUME NEW m \in Lists, NEW st \in Strategies, NEW slot \in {0, 1}
  PROVE  /\ Generated(m, st, slot) \in Seq(Record)
         /\ st = "none" => Generated(m, st, slot) = <<>>
         /\ Generated(m, st, slot) # <<>> =>
              m["contacts"] # <<>> /\ m["templates"] # <<>>
<1>1. CASE st = "none" \/ ~Ready(m)
  BY <1>1 DEF Generated
<1>2. CASE st # "none" /\ Ready(m)
  <2>1. m["contacts"] \in Seq(Groups) /\ m["templates"] \in Seq(Templates)
    BY DEF Lists, Kinds, Items
  <2>2. m["contacts"][1] \in Groups /\ m["templates"][1] \in Templates
    BY <1>2, <2>1 DEF Ready
  <2> DEFINE numbers == Mobiles[m["contacts"][1]]
  <2>3. numbers \in Seq(Receivers)
    BY <2>2, QueueAssumption DEF QueueAssumption
  <2>4. Slot(st, slot) \in {0, 1}
    BY DEF Slot
  <2>5. \A i \in 1 .. Len(numbers) :
          [receiver |-> numbers[i], slot |-> Slot(st, slot),
           template |-> m["templates"][1]] \in Record
    BY <2>2, <2>3, <2>4 DEF Record
  <2>6. Generated(m, st, slot) \in [1 .. Len(numbers) -> Record]
    BY <1>2, <2>5 DEF Generated
  <2>7. Len(numbers) \in Nat
    BY <2>3
  <2> QED BY <1>2, <2>6, <2>7, SeqFromFunction DEF Ready
<1> QED BY <1>1, <1>2

(* One of the two lists may be replaced by another list of its kind.       *)
LEMMA ListsUpdate ==
  ASSUME NEW m \in Lists, NEW k \in Kinds, NEW s \in Seq(Items(k))
  PROVE  [m EXCEPT ![k] = s] \in Lists
BY DEF Lists, Kinds, Items

(* Each list is a sequence of its kind of items.                           *)
LEMMA ListsApply ==
  ASSUME NEW m \in Lists, NEW k \in Kinds
  PROVE  m[k] \in Seq(Items(k)) /\ Len(m[k]) \in Nat
BY DEF Lists

(* Two empty lists are lists.                                              *)
LEMMA NoItemsType == NoItems \in Lists
BY EmptySeq DEF NoItems, Lists, Kinds, Items

(* What can be downloaded is a list of its kind.                           *)
LEMMA ContentType ==
  ASSUME NEW k \in Kinds, NEW c \in Content(k)
  PROVE  c \in Seq(Items(k))
<1>1. PICK n \in 0 .. MaxItems[k] : c \in [1 .. n -> Items(k)]
  BY DEF Content
<1>2. n \in Nat
  BY TaskAssumption DEF TaskAssumption
<1> QED BY <1>1, <1>2, SeqFromFunction

-----------------------------------------------------------------------------
(* Types: one lemma for the data, one for the flags                        *)

(* The first start has the types of TypeOK.                                *)
LEMMA TypeInit == Init => TypeOK
<1> SUFFICES ASSUME Init PROVE TypeOK
  OBVIOUS
<1>1. DataOK
  BY NoItemsType, EmptySeq, TaskAssumption
     DEF Init, DataOK, TaskAssumption, Strategies, Layers, Edits, NoEdit, NoPrefs
<1>2. FlagsOK
  BY DEF Init, FlagsOK
<1> QED BY <1>1, <1>2 DEF TypeOK

(* What a handler that refreshes the buttons leaves them with              *)
LEMMA ButtonsType ==
  ASSUME RefreshTaskButtons
  PROVE  runButton' \in BOOLEAN /\ resetButton' \in BOOLEAN
BY DEF RefreshTaskButtons

(* An assertion leaves the process alive or not.                           *)
LEMMA AssertsType ==
  ASSUME NEW broken, Asserts(broken)
  PROVE  alive' \in BOOLEAN
BY DEF Asserts

(* generate_send_queue makes a queue from any lists, ...                   *)
LEMMA GenerateType ==
  ASSUME memory' \in Lists, strategy' \in Strategies, lastUseSlot \in {0, 1},
         GenerateSendQueue
  PROVE  /\ records' \in Seq(Record) /\ Len(records') \in Nat
         /\ strategy' = "none" => records' = <<>>
<1>1. /\ Generated(memory', strategy', lastUseSlot) \in Seq(Record)
      /\ strategy' = "none" => Generated(memory', strategy', lastUseSlot) = <<>>
  BY GeneratedType
<1>2. records' = Generated(memory', strategy', lastUseSlot)
  BY DEF GenerateSendQueue
<1> QED BY <1>1, <1>2, LenProperties

(* ... asserting that the lists can be edited; ...                         *)
LEMMA GenerateFlags ==
  ASSUME GenerateSendQueue
  PROVE  alive' \in BOOLEAN
BY AssertsType DEF GenerateSendQueue

(* reload_sms_layer leaves the flags it sets Boolean.                      *)
LEMMA ReloadFlags ==
  ASSUME ReloadSmsLayer
  PROVE  alive' \in BOOLEAN /\ runButton' \in BOOLEAN /\ resetButton' \in BOOLEAN
BY GenerateFlags, ButtonsType DEF ReloadSmsLayer

(* ... and write_pb writes one of the two files.                           *)
LEMMA WriteType ==
  ASSUME file \in Lists, NEW k \in Kinds, WritePb(k)
  PROVE  file' \in Lists /\ main' = k
<1>1. <<>> \in Seq(Items(k))
  BY EmptySeq
<1> QED BY <1>1, ListsUpdate DEF WritePb

(* write_preferences leaves preferences to be filled.                      *)
LEMMA PreferencesType ==
  ASSUME WritePreferences
  PROVE  /\ prefs' \in [sim : Strategies, nextSendAt : Nat]
         /\ main' = "settings" /\ main' \in Saving
BY DEF WritePreferences, NoPrefs, Strategies, Saving

(* Every step preserves the types of the data (DataOK).                    *)
LEMMA DataStep ==
  ASSUME TypeOK, [Next]_vars
  PROVE  DataOK'
<1> USE DEF TypeOK, DataOK, disk, lists, task, home, platform, process
<1>1. CASE ShowHome
  BY <1>1, LenProperties
     DEF ShowHome
<1>2. CASE SelectSmsLayerReload
  <2>1. GenerateSendQueue /\ rows' \in {Len(records'), 0}
    BY <1>2 DEF SelectSmsLayerReload, ReloadSmsLayer
  <2>2. records' \in Seq(Record) /\ Len(records') \in Nat
    BY <1>2, <2>1, GenerateType DEF SelectSmsLayerReload
  <2> QED BY <1>2, <2>1, <2>2 DEF SelectSmsLayerReload, Layers
<1>3. CASE SelectInterval
  BY <1>3, GenerateType, PreferencesType
     DEF SelectInterval, ReloadSmsLayer
<1>4. CASE RunTask
  BY <1>4, LenProperties
     DEF RunTask
<1>5. CASE StopTask
  BY <1>5, LenProperties
     DEF StopTask
<1>6. CASE ResetTask
  BY <1>6, LenProperties, PreferencesType
     DEF ResetTask
<1>7. CASE CancelEditor
  BY <1>7, LenProperties
     DEF CancelEditor, NoEdit, Edits
<1>8. CASE LeaveHome
  BY <1>8, LenProperties
     DEF LeaveHome, HomeClosed, Layers
<1>9. CASE OpenNotification
  BY <1>9, LenProperties
     DEF OpenNotification, HomeClosed, Layers
<1>10. CASE CloseNotification
  BY <1>10, GenerateType
     DEF CloseNotification, Regenerate
<1>11. CASE FinishWrite
  <2>1. memory[main] \in Seq(Items(main))
    BY <1>11, ListsApply DEF FinishWrite
  <2>2. file' \in Lists
    BY <1>11, <2>1, ListsUpdate DEF FinishWrite
  <2> QED BY <1>11, <2>2 DEF FinishWrite
<1>12. CASE RunTaskStarted
  BY <1>12, LenProperties
     DEF RunTaskStarted
<1>13. CASE SmsSent
  BY <1>13, LenProperties
     DEF SmsSent, NoPrefs, Strategies, Counting
<1>14. CASE SendTimerRefresh
  BY <1>14, LenProperties
     DEF SendTimerRefresh, RefreshHistory
<1>15. CASE SendTimerHandler
  BY <1>15, LenProperties
     DEF SendTimerHandler, HandOver, Sending
<1>16. CASE EraseCallback
  BY <1>16, LenProperties
     DEF EraseCallback, Iterate
<1>17. CASE DidBackground
  BY <1>17, LenProperties
     DEF DidBackground, HandOver, Sending
<1>18. CASE EnterBackground
  BY <1>18, LenProperties
     DEF EnterBackground
<1>19. CASE BackgroundConnect
  BY <1>19, LenProperties
     DEF BackgroundConnect
<1>20. CASE DidEnterBackground
  BY <1>20, LenProperties
     DEF DidEnterBackground
<1>21. CASE EnterForeground
  BY <1>21, LenProperties
     DEF EnterForeground
<1>22. CASE Elapse
  BY <1>22, LenProperties
     DEF Elapse
<1>23. CASE Restart
  <2>1. memory' \in Lists /\ strategy' \in Strategies /\ lastUseSlot' \in {0, 1}
    BY <1>23 DEF Restart, ProcessStarts
  <2>2. records' \in Seq(Record)
    BY <1>23, <2>1, GeneratedType DEF Restart
  <2>3. nextSendAt' \in Nat
    BY <1>23 DEF Restart, ResumedAt
  <2>4. prefs' \in [sim : Strategies, nextSendAt : Nat] /\ main' \in {"idle", "loading"}
    BY <1>23, <2>3 DEF Restart, NoPrefs, Strategies
  <2>5. crashes' \in 0 .. MaxCrashes
    BY <1>23, TaskAssumption DEF Restart, TaskAssumption
  <2> QED BY <1>23, <2>1, <2>2, <2>3, <2>4, <2>5
       DEF Restart, ProcessStarts, HomeClosed, NoEdit, Edits, Layers, Saving
<1>24. ASSUME NEW l \in Layers, SelectLayer(l)
       PROVE  DataOK'
  BY <1>24, LenProperties
     DEF SelectLayer
<1>25. ASSUME NEW s \in Strategies, SelectSimStrategy(s)
       PROVE  DataOK'
  BY <1>25, GenerateType, PreferencesType
     DEF SelectSimStrategy, ReloadSmsLayer
<1>26. ASSUME NEW k \in Kinds, NEW i \in 1 .. MaxItems[k], RequireSend(k, i)
       PROVE  DataOK'
  <2>1. MoveToFront(memory[k], i) \in Seq(Items(k))
    BY <1>26, MoveToFrontType, ListsApply DEF RequireSend
  <2>2. memory' \in Lists /\ file' \in Lists /\ main' = k
    BY <1>26, <2>1, ListsUpdate, WriteType DEF RequireSend
  <2> QED BY <1>26, <2>2 DEF RequireSend
<1>27. ASSUME NEW k \in Kinds, NEW i \in 1 .. MaxItems[k], CloneItem(k, i)
       PROVE  DataOK'
  <2>1. Append(memory[k], memory[k][i]) \in Seq(Items(k))
    BY <1>27, AppendProperties, ElementOfSeq, ListsApply DEF CloneItem
  <2>2. memory' \in Lists /\ file' \in Lists /\ main' = k
    BY <1>27, <2>1, ListsUpdate, WriteType DEF CloneItem
  <2> QED BY <1>27, <2>2 DEF CloneItem
<1>28. ASSUME NEW k \in Kinds, NEW i \in 1 .. MaxItems[k], EraseItem(k, i)
       PROVE  DataOK'
  <2>1. Without(memory[k], i) \in Seq(Items(k))
    BY <1>28, WithoutType, ListsApply DEF EraseItem
  <2>2. memory' \in Lists /\ file' \in Lists /\ main' = k
    BY <1>28, <2>1, ListsUpdate, WriteType DEF EraseItem
  <2> QED BY <1>28, <2>2 DEF EraseItem
<1>29. ASSUME NEW k \in Kinds, NEW i \in 1 .. MaxItems[k], OpenEditor(k, i)
       PROVE  DataOK'
  BY <1>29, LenProperties, TaskAssumption
     DEF OpenEditor, HomeClosed, Editor, Edits, Editors, Layers
<1>30. ASSUME NEW g \in Groups, SavePerson(g)
       PROVE  DataOK'
  <2>1. edit.at \in Nat \ {0} /\ edit' \in Edits
    BY <1>30 DEF SavePerson, Edits
  <2> DEFINE k == "contacts"
  <2>2. k \in Kinds /\ g \in Items(k)
    BY DEF Kinds, Items
  <2>3. Store(memory[k], edit.at, g) \in Seq(Items(k))
    BY <2>1, <2>2, StoreType, ListsApply
  <2>4. memory' \in Lists /\ file' \in Lists /\ main' = k
    BY <1>30, <2>2, <2>3, ListsUpdate, WriteType DEF SavePerson
  <2> QED BY <1>30, <2>1, <2>2, <2>4 DEF SavePerson
<1>31. ASSUME NEW k \in Kinds, NEW item \in Items(k), SaveItem(k, item)
       PROVE  DataOK'
  <2>1. edit.at \in Nat \ {0}
    BY DEF Edits
  <2>2. Store(memory[k], edit.at, item) \in Seq(Items(k))
    BY <2>1, StoreType, ListsApply
  <2>3. memory' \in Lists
    BY <1>31, <2>2, ListsUpdate DEF SaveItem
  <2>4. file' \in Lists /\ main' \in {main, k}
    BY <1>31, WriteType DEF SaveItem
  <2>5. records' \in Seq(Record)
    BY <1>31, <2>3, GenerateType DEF SaveItem, Regenerate
  <2>6. edit' \in Edits /\ screen' = "none"
    BY <1>31 DEF SaveItem, NoEdit, Edits
  <2> QED BY <1>31, <2>3, <2>4, <2>5, <2>6 DEF SaveItem
<1>32. ASSUME NEW k \in Kinds, NEW content \in Content(k), NEW ok \in BOOLEAN, Download(k, content, ok)
       PROVE  DataOK'
  BY <1>32, LenProperties, ListsUpdate, ContentType
     DEF Download
<1>40. CASE SaveSetting
  BY <1>40, LenProperties, PreferencesType DEF SaveSetting
<1>41. CASE FinishPreferences
  BY <1>41, LenProperties DEF FinishPreferences, SavePosition
<1>42. CASE SmsCounted
  BY <1>42, LenProperties DEF SmsCounted, SavePosition, Handling
<1>43. CASE ClearCallbacks
  BY <1>43, LenProperties DEF ClearCallbacks
<1>44. CASE DidEnterForeground
  BY <1>44, LenProperties DEF DidEnterForeground
<1>45. CASE HandleBackground
  BY <1>45, LenProperties DEF HandleBackground, Handling
<1>46. CASE DidBackgroundEarly
  BY <1>46, LenProperties DEF DidBackgroundEarly, Handling
<1>47. CASE BackgroundDisconnect
  BY <1>47, LenProperties DEF BackgroundDisconnect, Handling
<1>48. CASE BackgroundHandled
  BY <1>48, LenProperties DEF BackgroundHandled, Iterate
<1>33. CASE UNCHANGED vars
  BY <1>33 DEF vars
<1> QED
  BY <1>1, <1>2, <1>3, <1>4, <1>5, <1>6, <1>7, <1>8, <1>9, <1>10, <1>11, <1>12, <1>13,
     <1>14, <1>15, <1>16, <1>17, <1>18, <1>19, <1>20, <1>21, <1>22, <1>23, <1>24, <1>25,
     <1>26, <1>27, <1>28, <1>29, <1>30, <1>31, <1>32, <1>33, <1>40, <1>41, <1>42, <1>43,
     <1>44,
     <1>45, <1>46, <1>47, <1>48
     DEF Next, User, MainThread, Continue, AppEvents, EventContinues

(* Every step preserves the flags as Booleans (FlagsOK).                   *)
LEMMA FlagsStep ==
  ASSUME TypeOK, [Next]_vars
  PROVE  FlagsOK'
<1> USE DEF TypeOK, FlagsOK, disk, lists, task, home, platform, process
<1>1. CASE ShowHome
  BY <1>1, ButtonsType
     DEF ShowHome, Asserts
<1>2. CASE SelectSmsLayerReload
  BY <1>2, ReloadFlags DEF SelectSmsLayerReload
<1>3. CASE SelectInterval
  BY <1>3, ReloadFlags DEF SelectInterval
<1>4. CASE RunTask
  BY <1>4, ButtonsType
     DEF RunTask, Asserts
<1>5. CASE StopTask
  BY <1>5, ButtonsType
     DEF StopTask, Asserts
<1>6. CASE ResetTask
  BY <1>6, ButtonsType
     DEF ResetTask, Asserts
<1>7. CASE CancelEditor
  BY <1>7, ButtonsType
     DEF CancelEditor, Asserts, NoEdit, Edits
<1>8. CASE LeaveHome
  BY <1>8, ButtonsType
     DEF LeaveHome, Asserts, HomeClosed
<1>9. CASE OpenNotification
  BY <1>9, ButtonsType
     DEF OpenNotification, Asserts, HomeClosed
<1>10. CASE CloseNotification
  BY <1>10, GenerateFlags DEF CloseNotification, Regenerate
<1>11. CASE FinishWrite
  BY <1>11, ButtonsType
     DEF FinishWrite, Asserts, Kinds
<1>12. CASE RunTaskStarted
  BY <1>12, ButtonsType
     DEF RunTaskStarted, Asserts
<1>13. CASE SmsSent
  BY <1>13, ButtonsType
     DEF SmsSent, Asserts
<1>14. CASE SendTimerRefresh
  BY <1>14, ButtonsType
     DEF SendTimerRefresh, Asserts, RefreshHistory
<1>15. CASE SendTimerHandler
  BY <1>15, ButtonsType
     DEF SendTimerHandler, Asserts, HandOver
<1>16. CASE EraseCallback
  BY <1>16, ButtonsType
     DEF EraseCallback, Iterate, Asserts
<1>17. CASE DidBackground
  BY <1>17, ButtonsType
     DEF DidBackground, Asserts, HandOver
<1>18. CASE EnterBackground
  BY <1>18, ButtonsType
     DEF EnterBackground, Asserts
<1>19. CASE BackgroundConnect
  BY <1>19, ButtonsType
     DEF BackgroundConnect, Asserts
<1>20. CASE DidEnterBackground
  BY <1>20, ButtonsType
     DEF DidEnterBackground, Asserts
<1>21. CASE EnterForeground
  BY <1>21, ButtonsType
     DEF EnterForeground, Asserts
<1>22. CASE Elapse
  BY <1>22, ButtonsType
     DEF Elapse, Asserts
<1>23. CASE Restart
  BY <1>23, ButtonsType
     DEF Restart, Asserts, ProcessStarts, HomeClosed, ResumedAt, NoEdit, Edits, Layers
<1>24. ASSUME NEW l \in Layers, SelectLayer(l)
       PROVE  FlagsOK'
  BY <1>24, ButtonsType
     DEF SelectLayer, Asserts
<1>25. ASSUME NEW s \in Strategies, SelectSimStrategy(s)
       PROVE  FlagsOK'
  BY <1>25, ReloadFlags DEF SelectSimStrategy
<1>26. ASSUME NEW k \in Kinds, NEW i \in 1 .. MaxItems[k], RequireSend(k, i)
       PROVE  FlagsOK'
  BY <1>26, ButtonsType
     DEF RequireSend, Asserts, WritePb
<1>27. ASSUME NEW k \in Kinds, NEW i \in 1 .. MaxItems[k], CloneItem(k, i)
       PROVE  FlagsOK'
  BY <1>27, ButtonsType
     DEF CloneItem, Asserts, WritePb
<1>28. ASSUME NEW k \in Kinds, NEW i \in 1 .. MaxItems[k], EraseItem(k, i)
       PROVE  FlagsOK'
  BY <1>28, ButtonsType
     DEF EraseItem, Asserts, WritePb
<1>29. ASSUME NEW k \in Kinds, NEW i \in 1 .. MaxItems[k], OpenEditor(k, i)
       PROVE  FlagsOK'
  BY <1>29, ButtonsType
     DEF OpenEditor, Asserts, HomeClosed, Editor, Edits, Editors, Layers
<1>30. ASSUME NEW g \in Groups, SavePerson(g)
       PROVE  FlagsOK'
  BY <1>30, ButtonsType
     DEF SavePerson, Asserts, WritePb
<1>31. ASSUME NEW k \in Kinds, NEW item \in Items(k), SaveItem(k, item)
       PROVE  FlagsOK'
  BY <1>31, GenerateFlags DEF SaveItem, Regenerate
<1>32. ASSUME NEW k \in Kinds, NEW content \in Content(k), NEW ok \in BOOLEAN, Download(k, content, ok)
       PROVE  FlagsOK'
  BY <1>32, ButtonsType
     DEF Download, Asserts
<1>40. CASE SaveSetting
  BY <1>40, ButtonsType DEF SaveSetting, WritePreferences, Asserts
<1>41. CASE FinishPreferences
  BY <1>41, ButtonsType DEF FinishPreferences, SavePosition, Asserts
<1>42. CASE SmsCounted
  BY <1>42, ButtonsType DEF SmsCounted, SavePosition, Asserts
<1>43. CASE ClearCallbacks
  BY <1>43, ButtonsType DEF ClearCallbacks, Asserts
<1>44. CASE DidEnterForeground
  BY <1>44, ButtonsType DEF DidEnterForeground, Asserts
<1>45. CASE HandleBackground
  BY <1>45, ButtonsType DEF HandleBackground, Asserts
<1>46. CASE DidBackgroundEarly
  BY <1>46, ButtonsType DEF DidBackgroundEarly, Asserts
<1>47. CASE BackgroundDisconnect
  BY <1>47, ButtonsType DEF BackgroundDisconnect, Asserts
<1>48. CASE BackgroundHandled
  BY <1>48, ButtonsType DEF BackgroundHandled, Iterate, Asserts
<1>33. CASE UNCHANGED vars
  BY <1>33 DEF vars
<1> QED
  BY <1>1, <1>2, <1>3, <1>4, <1>5, <1>6, <1>7, <1>8, <1>9, <1>10, <1>11, <1>12, <1>13,
     <1>14, <1>15, <1>16, <1>17, <1>18, <1>19, <1>20, <1>21, <1>22, <1>23, <1>24, <1>25,
     <1>26, <1>27, <1>28, <1>29, <1>30, <1>31, <1>32, <1>33, <1>40, <1>41, <1>42, <1>43,
     <1>44,
     <1>45, <1>46, <1>47, <1>48
     DEF Next, User, MainThread, Continue, AppEvents, EventContinues

(* The type invariant, for every value of the constants                    *)
THEOREM TypeCorrect == Spec => []TypeOK
<1>1. TypeOK /\ [Next]_vars => TypeOK'
  BY DataStep, FlagsStep DEF TypeOK
<1> QED BY TypeInit, <1>1, PTL DEF Spec

-----------------------------------------------------------------------------
(* The invariant RaceInv                                                   *)

(* What a refreshed button tells                                           *)
LEMMA ButtonsTell ==
  ASSUME RefreshTaskButtons
  PROVE  /\ runButton' => /\ strategy' # "none" /\ HasItems'
                          /\ running' \/ nextSendAt' # Len(records')
         /\ resetButton' => strategy' # "none" /\ ~running' /\ nextSendAt' # 0
BY DEF RefreshTaskButtons, Ready, HasItems

(* A list that is stored and not empty keeps the pair of lists non-empty.  *)
LEMMA ItemsKept ==
  ASSUME memory \in Lists, HasItems, NEW k \in Kinds, NEW s, s # <<>>,
         memory' = [memory EXCEPT ![k] = s]
  PROVE  HasItems'
BY DEF HasItems, Lists, Kinds

(* A process that starts satisfies it, whatever the last one left.         *)
LEMMA RaceRestart ==
  ASSUME TypeOK, TypeOK', Restart
  PROVE  LivingInv'
<1> USE DEF HomeShown, Valid, CanEdit, disk, lists, task, home, platform, process
<1>1. MainInv' /\ PlatformInv'
  BY DEF Restart, ProcessStarts, HomeClosed, ResumedAt, NoEdit, MainInv, PlatformInv,
     QueueInv, Sending, Counting, Saving, Handling, Kinds
<1>2. QueueInv'
  <2>1. memory' \in Lists /\ strategy' \in Strategies /\ lastUseSlot' \in {0, 1}
    BY DEF Restart, ProcessStarts, TypeOK, DataOK
  <2>2. /\ records' \in Seq(Record)
        /\ strategy' = "none" => records' = <<>>
        /\ records' # <<>> => HasItems'
    BY <2>1, GeneratedType DEF Restart, HasItems
  <2>3. Len(records') \in Nat /\ (Len(records') # 0 => HasItems')
    BY <2>2, EmptySeq, LenProperties
  <2>4. nextSendAt' \in Nat /\ nextSendAt' <= Len(records')
    BY <2>3 DEF Restart, ResumedAt, TypeOK, DataOK
  <2>5. ~running' /\ main' # "starting"
    BY DEF Restart, ProcessStarts
  <2> QED BY <2>2, <2>3, <2>4, <2>5 DEF QueueInv
<1>3. HomeInv'
  BY DEF Restart, ProcessStarts, HomeClosed, ResumedAt, NoEdit, MainInv, PlatformInv,
     QueueInv, HomeInv, HasItems, Sending, Counting, Saving, Handling, Kinds
<1>4. EditorInv'
  BY DEF Restart, ProcessStarts, HomeClosed, ResumedAt, NoEdit, MainInv, QueueInv,
     EditorInv, Editors, Sending, Counting, Saving, Handling, Kinds
<1> QED BY <1>1, <1>2, <1>3, <1>4 DEF LivingInv

(* Every step of the living process preserves it, however events and user  *)
(* interleave, unless one of the known assertions fails.                   *)
LEMMA RaceStep ==
  ASSUME TypeOK, TypeOK', OnlyKnownFailures, LivingInv, [Next]_vars, ~Restart
  PROVE  OnlyKnownFailures' /\ (alive' => LivingInv')
<1>0. Len(records) \in Nat
  BY LenProperties DEF TypeOK, DataOK
<1> USE <1>0 DEF LivingInv, UserReady, AtHome, HomeShown, Valid, CanEdit,
            Kinds, Sending, Counting, Saving, Handling,
            disk, lists, task, home, platform, process
<1>1. CASE ShowHome
  <2>1. OnlyKnownFailures'
    BY <1>1 DEF OnlyKnownFailures, ShowHome, RefreshTaskButtons, Asserts, Broken,
       MainInv, PlatformInv, QueueInv, HomeInv, EditorInv
  <2>2. MainInv' /\ PlatformInv'
    BY <1>1 DEF ShowHome, RefreshTaskButtons, MainInv, PlatformInv, QueueInv
  <2>3. QueueInv'
    BY <1>1 DEF ShowHome, RefreshTaskButtons, MainInv, PlatformInv, QueueInv, HomeInv,
       HasItems
  <2>4. HomeInv'
    BY <1>1, ButtonsTell DEF ShowHome, PlatformInv, QueueInv, HomeInv
  <2>5. EditorInv'
    BY <1>1 DEF ShowHome, RefreshTaskButtons, MainInv, QueueInv, EditorInv, Editors
  <2> QED BY <2>1, <2>2, <2>3, <2>4, <2>5
<1>2. CASE SelectSmsLayerReload
  <2>0. /\ GenerateSendQueue /\ RefreshTaskButtons /\ CanEdit
        /\ rows' = (IF strategy' # "none" THEN Len(records') ELSE 0)
    BY <1>2 DEF SelectSmsLayerReload, ReloadSmsLayer, HomeInv
  <2>a. /\ Len(records') \in Nat
        /\ strategy' = "none" => records' = <<>> /\ Len(records') = 0
    BY <2>0, <1>2, GenerateType, EmptySeq DEF TypeOK, DataOK, SelectSmsLayerReload
  <2>1. OnlyKnownFailures'
    BY <1>2 DEF OnlyKnownFailures, SelectSmsLayerReload, ReloadSmsLayer,
       GenerateSendQueue, RefreshTaskButtons, Asserts, Broken, MainInv, PlatformInv,
       QueueInv, HomeInv, EditorInv
  <2>2. MainInv' /\ PlatformInv'
    BY <1>2 DEF SelectSmsLayerReload, ReloadSmsLayer, GenerateSendQueue,
       RefreshTaskButtons, MainInv, PlatformInv, QueueInv
  <2>3. QueueInv'
    BY <1>2, <2>0, <2>a DEF SelectSmsLayerReload, MainInv, QueueInv, HasItems
  <2>4. HomeInv'
    BY <1>2, <2>0, <2>a, ButtonsTell DEF SelectSmsLayerReload, MainInv, QueueInv, HomeInv
  <2>5. EditorInv'
    BY <1>2 DEF SelectSmsLayerReload, ReloadSmsLayer, GenerateSendQueue,
       RefreshTaskButtons, MainInv, QueueInv, EditorInv, Editors
  <2> QED BY <2>1, <2>2, <2>3, <2>4, <2>5
<1>3. CASE SelectInterval
  <2>0. /\ GenerateSendQueue /\ RefreshTaskButtons /\ CanEdit
        /\ rows' = (IF strategy' # "none" THEN Len(records') ELSE 0)
    BY <1>3 DEF SelectInterval, WritePreferences, ReloadSmsLayer, HomeInv
  <2>a. /\ Len(records') \in Nat
        /\ strategy' = "none" => records' = <<>> /\ Len(records') = 0
    BY <2>0, <1>3, GenerateType, EmptySeq DEF TypeOK, DataOK, SelectInterval,
       WritePreferences
  <2>1. OnlyKnownFailures'
    BY <1>3 DEF OnlyKnownFailures, SelectInterval, WritePreferences, ReloadSmsLayer,
       GenerateSendQueue, RefreshTaskButtons, Asserts, Broken, MainInv, PlatformInv,
       QueueInv, HomeInv, EditorInv
  <2>2. MainInv' /\ PlatformInv'
    BY <1>3 DEF SelectInterval, WritePreferences, ReloadSmsLayer, GenerateSendQueue,
       RefreshTaskButtons, MainInv, PlatformInv, QueueInv
  <2>3. QueueInv'
    BY <1>3, <2>0, <2>a DEF SelectInterval, WritePreferences, MainInv, QueueInv, HasItems
  <2>4. HomeInv'
    BY <1>3, <2>0, <2>a, ButtonsTell DEF SelectInterval, WritePreferences, MainInv,
       QueueInv, HomeInv
  <2>5. EditorInv'
    BY <1>3 DEF SelectInterval, WritePreferences, ReloadSmsLayer, GenerateSendQueue,
       RefreshTaskButtons, MainInv, QueueInv, EditorInv, Editors
  <2> QED BY <2>1, <2>2, <2>3, <2>4, <2>5
<1>4. CASE RunTask
  <2>1. OnlyKnownFailures'
    BY <1>4 DEF OnlyKnownFailures, RunTask, Asserts, Broken
  <2>2. MainInv' /\ PlatformInv'
    BY <1>4 DEF RunTask, MainInv, PlatformInv, HomeInv
  <2>3. QueueInv'
    BY <1>4 DEF RunTask, QueueInv, HomeInv, HasItems
  <2>4. HomeInv'
    BY <1>4 DEF RunTask, MainInv, QueueInv, HomeInv, HasItems
  <2>5. EditorInv'
    BY <1>4 DEF RunTask, EditorInv, Editors
  <2> QED BY <2>1, <2>2, <2>3, <2>4, <2>5
<1>5. CASE StopTask
  <2>1. OnlyKnownFailures'
    BY <1>5 DEF OnlyKnownFailures, StopTask, RefreshTaskButtons, Asserts, Broken,
       MainInv, PlatformInv, QueueInv, HomeInv, EditorInv
  <2>2. MainInv' /\ PlatformInv'
    BY <1>5 DEF StopTask, RefreshTaskButtons, MainInv, PlatformInv, QueueInv
  <2>3. QueueInv'
    BY <1>5 DEF StopTask, RefreshTaskButtons, MainInv, PlatformInv, QueueInv, HomeInv,
       HasItems
  <2>4. HomeInv'
    BY <1>5 DEF StopTask, RefreshTaskButtons, MainInv, PlatformInv, QueueInv, HomeInv,
       HasItems
  <2>5. EditorInv'
    BY <1>5 DEF StopTask, RefreshTaskButtons, MainInv, QueueInv, EditorInv, Editors
  <2> QED BY <2>1, <2>2, <2>3, <2>4, <2>5
<1>6. CASE ResetTask
  <2>0. Valid /\ ~running /\ nextSendAt # 0 /\ nextSendAt <= Len(records) /\ HasItems
    BY <1>6 DEF ResetTask, WritePreferences, QueueInv, HomeInv
  <2>1. OnlyKnownFailures'
    BY <1>6 DEF OnlyKnownFailures, ResetTask, WritePreferences, Asserts, Broken,
       MainInv, PlatformInv, QueueInv, HomeInv, EditorInv
  <2>2. MainInv' /\ PlatformInv'
    BY <1>6 DEF ResetTask, WritePreferences, MainInv, PlatformInv, QueueInv
  <2>3. QueueInv'
    BY <1>6 DEF ResetTask, WritePreferences, MainInv, PlatformInv, QueueInv, HomeInv,
       HasItems
  <2>4. HomeInv'
    BY <1>6, <2>0 DEF ResetTask, WritePreferences, HomeInv, HasItems, TypeOK, DataOK
  <2>5. EditorInv'
    BY <1>6 DEF ResetTask, WritePreferences, MainInv, QueueInv, EditorInv, Editors
  <2> QED BY <2>1, <2>2, <2>3, <2>4, <2>5
<1>7. CASE CancelEditor
  <2>1. OnlyKnownFailures'
    BY <1>7 DEF OnlyKnownFailures, CancelEditor, NoEdit, Editors, Asserts, Broken,
       MainInv, PlatformInv, QueueInv, HomeInv, EditorInv
  <2>2. MainInv' /\ PlatformInv'
    BY <1>7 DEF CancelEditor, NoEdit, Editors, MainInv, PlatformInv, QueueInv
  <2>3. QueueInv'
    BY <1>7 DEF CancelEditor, NoEdit, Editors, MainInv, PlatformInv, QueueInv, HomeInv,
       HasItems
  <2>4. HomeInv'
    BY <1>7 DEF CancelEditor, NoEdit, Editors, MainInv, PlatformInv, QueueInv, HomeInv,
       HasItems
  <2>5. EditorInv'
    BY <1>7 DEF CancelEditor, NoEdit, Editors, MainInv, QueueInv, EditorInv, Editors
  <2> QED BY <2>1, <2>2, <2>3, <2>4, <2>5
<1>8. CASE LeaveHome
  <2>1. OnlyKnownFailures'
    BY <1>8 DEF OnlyKnownFailures, LeaveHome, HomeClosed, Asserts, Broken, MainInv,
       PlatformInv, QueueInv, HomeInv, EditorInv
  <2>2. MainInv' /\ PlatformInv'
    BY <1>8 DEF LeaveHome, HomeClosed, MainInv, PlatformInv, QueueInv
  <2>3. QueueInv'
    BY <1>8 DEF LeaveHome, HomeClosed, MainInv, PlatformInv, QueueInv, HomeInv, HasItems
  <2>4. HomeInv'
    BY <1>8 DEF LeaveHome, HomeClosed, MainInv, PlatformInv, QueueInv, HomeInv, HasItems
  <2>5. EditorInv'
    BY <1>8 DEF LeaveHome, HomeClosed, MainInv, QueueInv, EditorInv, Editors
  <2> QED BY <2>1, <2>2, <2>3, <2>4, <2>5
<1>9. CASE OpenNotification
  <2>1. OnlyKnownFailures'
    BY <1>9 DEF OnlyKnownFailures, OpenNotification, HomeClosed, Asserts, Broken,
       MainInv, PlatformInv, QueueInv, HomeInv, EditorInv
  <2>2. MainInv' /\ PlatformInv'
    BY <1>9 DEF OpenNotification, HomeClosed, MainInv, PlatformInv, QueueInv
  <2>3. QueueInv'
    BY <1>9 DEF OpenNotification, HomeClosed, MainInv, PlatformInv, QueueInv, HomeInv,
       HasItems
  <2>4. HomeInv'
    BY <1>9 DEF OpenNotification, HomeClosed, MainInv, PlatformInv, QueueInv, HomeInv,
       HasItems
  <2>5. EditorInv'
    BY <1>9 DEF OpenNotification, HomeClosed, MainInv, QueueInv, EditorInv, Editors
  <2> QED BY <2>1, <2>2, <2>3, <2>4, <2>5
<1>10. CASE CloseNotification
  <2>1. OnlyKnownFailures'
    BY <1>10 DEF OnlyKnownFailures, CloseNotification, Regenerate, GenerateSendQueue,
       Asserts, Broken, MainInv, PlatformInv, QueueInv, HomeInv, EditorInv
  <2>2. MainInv' /\ PlatformInv'
    BY <1>10 DEF CloseNotification, Regenerate, GenerateSendQueue, MainInv, PlatformInv,
       QueueInv
  <2>3. QueueInv'
    <3>1. CASE Valid /\ CanEdit
      <4>1. Len(records') \in Nat
        BY <1>10, <3>1, GenerateType DEF TypeOK, DataOK, CloseNotification, Regenerate
      <4> QED BY <1>10, <3>1, <4>1 DEF CloseNotification, QueueInv
    <3>2. CASE ~(Valid /\ CanEdit)
      BY <1>10, <3>2 DEF CloseNotification, Regenerate, QueueInv, HasItems
    <3> QED BY <3>1, <3>2
  <2>4. HomeInv'
    BY <1>10 DEF CloseNotification, Regenerate, GenerateSendQueue, MainInv, PlatformInv,
       QueueInv, HomeInv, HasItems
  <2>5. EditorInv'
    BY <1>10 DEF CloseNotification, Regenerate, GenerateSendQueue, MainInv, QueueInv,
       EditorInv, Editors
  <2> QED BY <2>1, <2>2, <2>3, <2>4, <2>5
<1>11. CASE FinishWrite
  <2>1. OnlyKnownFailures'
    BY <1>11 DEF OnlyKnownFailures, FinishWrite, Asserts, Broken, MainInv, PlatformInv,
       QueueInv, HomeInv, EditorInv
  <2>2. MainInv' /\ PlatformInv'
    BY <1>11 DEF FinishWrite, MainInv, PlatformInv, QueueInv
  <2>3. QueueInv'
    BY <1>11 DEF FinishWrite, MainInv, PlatformInv, QueueInv, HomeInv, HasItems
  <2>4. HomeInv'
    BY <1>11 DEF FinishWrite, MainInv, PlatformInv, QueueInv, HomeInv, HasItems
  <2>5. EditorInv'
    BY <1>11 DEF FinishWrite, MainInv, QueueInv, EditorInv, Editors
  <2> QED BY <2>1, <2>2, <2>3, <2>4, <2>5
<1>12. CASE RunTaskStarted
  <2>1. OnlyKnownFailures'
    BY <1>12 DEF OnlyKnownFailures, RunTaskStarted, RefreshTaskButtons, Asserts, Broken,
       MainInv, PlatformInv, QueueInv, HomeInv, EditorInv
  <2>2. MainInv' /\ PlatformInv'
    BY <1>12 DEF RunTaskStarted, RefreshTaskButtons, MainInv, PlatformInv, QueueInv
  <2>3. QueueInv'
    BY <1>12 DEF RunTaskStarted, RefreshTaskButtons, MainInv, PlatformInv, QueueInv,
       HomeInv, HasItems
  <2>4. HomeInv'
    BY <1>12 DEF RunTaskStarted, RefreshTaskButtons, MainInv, PlatformInv, QueueInv,
       HomeInv, HasItems
  <2>5. EditorInv'
    BY <1>12 DEF RunTaskStarted, RefreshTaskButtons, MainInv, QueueInv, EditorInv, Editors
  <2> QED BY <2>1, <2>2, <2>3, <2>4, <2>5
<1>13. CASE SmsSent
  <2>1. OnlyKnownFailures'
    BY <1>13 DEF OnlyKnownFailures, SmsSent, Asserts, Broken, MainInv, PlatformInv,
       QueueInv, HomeInv, EditorInv
  <2>2. MainInv' /\ PlatformInv'
    BY <1>13 DEF SmsSent, MainInv, PlatformInv, QueueInv
  <2>3. QueueInv'
    BY <1>13 DEF SmsSent, QueueInv, HasItems
  <2>4. HomeInv'
    BY <1>13 DEF SmsSent, MainInv, PlatformInv, QueueInv, HomeInv, HasItems
  <2>5. EditorInv'
    BY <1>13 DEF SmsSent, MainInv, QueueInv, EditorInv, Editors
  <2> QED BY <2>1, <2>2, <2>3, <2>4, <2>5
<1>14. CASE SendTimerRefresh
  <2>1. OnlyKnownFailures'
    BY <1>14 DEF OnlyKnownFailures, SendTimerRefresh, RefreshHistory,
       RefreshTaskButtons, Asserts, Broken, MainInv, PlatformInv, QueueInv, HomeInv,
       EditorInv
  <2>2. MainInv' /\ PlatformInv'
    BY <1>14 DEF SendTimerRefresh, RefreshHistory, RefreshTaskButtons, MainInv,
       PlatformInv, QueueInv
  <2>3. QueueInv'
    BY <1>14 DEF SendTimerRefresh, RefreshHistory, RefreshTaskButtons, MainInv,
       PlatformInv, QueueInv, HomeInv, HasItems
  <2>4. HomeInv'
    BY <1>14, ButtonsTell DEF SendTimerRefresh, RefreshHistory, QueueInv, HomeInv
  <2>5. EditorInv'
    BY <1>14 DEF SendTimerRefresh, RefreshHistory, RefreshTaskButtons, MainInv,
       QueueInv, EditorInv, Editors
  <2> QED BY <2>1, <2>2, <2>3, <2>4, <2>5
<1>15. CASE SendTimerHandler
  <2>1. OnlyKnownFailures'
    BY <1>15 DEF OnlyKnownFailures, SendTimerHandler, HandOver, Asserts, Broken,
       MainInv, PlatformInv, QueueInv, HomeInv, EditorInv
  <2>2. (alive' => MainInv') /\ PlatformInv'
    BY <1>15 DEF SendTimerHandler, HandOver, Asserts, Broken, MainInv, PlatformInv
  <2>3. QueueInv'
    BY <1>15 DEF SendTimerHandler, HandOver, MainInv, PlatformInv, QueueInv, HomeInv,
       HasItems
  <2>4. HomeInv'
    BY <1>15 DEF SendTimerHandler, HandOver, MainInv, PlatformInv, QueueInv, HomeInv,
       HasItems
  <2>5. EditorInv'
    BY <1>15 DEF SendTimerHandler, HandOver, MainInv, QueueInv, EditorInv, Editors
  <2> QED BY <2>1, <2>2, <2>3, <2>4, <2>5
<1>16. CASE EraseCallback
  <2>1. OnlyKnownFailures'
    BY <1>16 DEF OnlyKnownFailures, EraseCallback, Iterate, Asserts, Broken, MainInv,
       PlatformInv, QueueInv, HomeInv, EditorInv
  <2>2. alive' => MainInv' /\ PlatformInv'
    BY <1>16 DEF EraseCallback, Iterate, Asserts, MainInv, PlatformInv, QueueInv
  <2>3. QueueInv'
    BY <1>16 DEF EraseCallback, Iterate, Asserts, MainInv, PlatformInv, QueueInv,
       HomeInv, HasItems
  <2>4. HomeInv'
    BY <1>16 DEF EraseCallback, Iterate, Asserts, MainInv, PlatformInv, QueueInv,
       HomeInv, HasItems
  <2>5. EditorInv'
    BY <1>16 DEF EraseCallback, Iterate, MainInv, QueueInv, EditorInv, Editors
  <2> QED BY <2>1, <2>2, <2>3, <2>4, <2>5
<1>17. CASE DidBackground
  <2>1. OnlyKnownFailures'
    BY <1>17 DEF OnlyKnownFailures, DidBackground, HandOver, Asserts, Broken, MainInv,
       PlatformInv, QueueInv, HomeInv, EditorInv
  <2>2. alive' => MainInv' /\ PlatformInv'
    BY <1>17 DEF DidBackground, HandOver, Asserts, Broken, MainInv, PlatformInv
  <2>3. QueueInv'
    BY <1>17 DEF DidBackground, HandOver, MainInv, PlatformInv, QueueInv, HomeInv,
       HasItems
  <2>4. HomeInv'
    BY <1>17 DEF DidBackground, HandOver, MainInv, PlatformInv, QueueInv, HomeInv,
       HasItems
  <2>5. EditorInv'
    BY <1>17 DEF DidBackground, HandOver, MainInv, QueueInv, EditorInv, Editors
  <2> QED BY <2>1, <2>2, <2>3, <2>4, <2>5
<1>18. CASE EnterBackground
  <2>1. OnlyKnownFailures'
    BY <1>18 DEF OnlyKnownFailures, EnterBackground, Asserts, Broken, MainInv,
       PlatformInv, QueueInv, HomeInv, EditorInv
  <2>2. MainInv' /\ PlatformInv'
    BY <1>18 DEF EnterBackground, MainInv, PlatformInv, QueueInv
  <2>3. QueueInv'
    BY <1>18 DEF EnterBackground, MainInv, PlatformInv, QueueInv, HomeInv, HasItems
  <2>4. HomeInv'
    BY <1>18 DEF EnterBackground, MainInv, PlatformInv, QueueInv, HomeInv, HasItems
  <2>5. EditorInv'
    BY <1>18 DEF EnterBackground, MainInv, QueueInv, EditorInv, Editors
  <2> QED BY <2>1, <2>2, <2>3, <2>4, <2>5
<1>19. CASE BackgroundConnect
  <2>1. OnlyKnownFailures'
    BY <1>19 DEF OnlyKnownFailures, BackgroundConnect, Asserts, Broken, MainInv,
       PlatformInv, QueueInv, HomeInv, EditorInv
  <2>2. MainInv' /\ PlatformInv'
    BY <1>19 DEF BackgroundConnect, MainInv, PlatformInv, QueueInv
  <2>3. QueueInv'
    BY <1>19 DEF BackgroundConnect, MainInv, PlatformInv, QueueInv, HomeInv, HasItems
  <2>4. HomeInv'
    BY <1>19 DEF BackgroundConnect, MainInv, PlatformInv, QueueInv, HomeInv, HasItems
  <2>5. EditorInv'
    BY <1>19 DEF BackgroundConnect, MainInv, QueueInv, EditorInv, Editors
  <2> QED BY <2>1, <2>2, <2>3, <2>4, <2>5
<1>20. CASE DidEnterBackground
  <2>1. OnlyKnownFailures'
    BY <1>20 DEF OnlyKnownFailures, DidEnterBackground, Asserts, Broken, MainInv,
       PlatformInv, QueueInv, HomeInv, EditorInv
  <2>2. MainInv' /\ PlatformInv'
    BY <1>20 DEF DidEnterBackground, MainInv, PlatformInv, QueueInv
  <2>3. QueueInv'
    BY <1>20 DEF DidEnterBackground, MainInv, PlatformInv, QueueInv, HomeInv, HasItems
  <2>4. HomeInv'
    BY <1>20 DEF DidEnterBackground, MainInv, PlatformInv, QueueInv, HomeInv, HasItems
  <2>5. EditorInv'
    BY <1>20 DEF DidEnterBackground, MainInv, QueueInv, EditorInv, Editors
  <2> QED BY <2>1, <2>2, <2>3, <2>4, <2>5
<1>21. CASE EnterForeground
  <2>1. OnlyKnownFailures'
    BY <1>21 DEF OnlyKnownFailures, EnterForeground, Asserts, Broken, MainInv,
       PlatformInv, QueueInv, HomeInv, EditorInv
  <2>2. MainInv' /\ PlatformInv'
    BY <1>21 DEF EnterForeground, MainInv, PlatformInv, QueueInv
  <2>3. QueueInv'
    BY <1>21 DEF EnterForeground, MainInv, PlatformInv, QueueInv, HomeInv, HasItems
  <2>4. HomeInv'
    BY <1>21 DEF EnterForeground, MainInv, PlatformInv, QueueInv, HomeInv, HasItems
  <2>5. EditorInv'
    BY <1>21 DEF EnterForeground, MainInv, QueueInv, EditorInv, Editors
  <2> QED BY <2>1, <2>2, <2>3, <2>4, <2>5
<1>22. CASE Elapse
  <2>1. OnlyKnownFailures'
    BY <1>22 DEF OnlyKnownFailures, Elapse, Asserts, Broken, MainInv, PlatformInv,
       QueueInv, HomeInv, EditorInv
  <2>2. MainInv' /\ PlatformInv'
    BY <1>22 DEF Elapse, MainInv, PlatformInv, QueueInv
  <2>3. QueueInv'
    BY <1>22 DEF Elapse, MainInv, PlatformInv, QueueInv, HomeInv, HasItems
  <2>4. HomeInv'
    BY <1>22 DEF Elapse, MainInv, PlatformInv, QueueInv, HomeInv, HasItems
  <2>5. EditorInv'
    BY <1>22 DEF Elapse, MainInv, QueueInv, EditorInv, Editors
  <2> QED BY <2>1, <2>2, <2>3, <2>4, <2>5
<1>24. ASSUME NEW l \in Layers, SelectLayer(l)
       PROVE  OnlyKnownFailures' /\ (alive' => LivingInv')
  <2>1. OnlyKnownFailures'
    BY <1>24 DEF OnlyKnownFailures, SelectLayer, Asserts, Broken, MainInv, PlatformInv,
       QueueInv, HomeInv, EditorInv
  <2>2. MainInv' /\ PlatformInv'
    BY <1>24 DEF SelectLayer, MainInv, PlatformInv, QueueInv
  <2>3. QueueInv'
    BY <1>24 DEF SelectLayer, MainInv, PlatformInv, QueueInv, HomeInv, HasItems
  <2>4. HomeInv'
    BY <1>24 DEF SelectLayer, MainInv, PlatformInv, QueueInv, HomeInv, HasItems
  <2>5. EditorInv'
    BY <1>24 DEF SelectLayer, MainInv, QueueInv, EditorInv, Editors
  <2> QED BY <2>1, <2>2, <2>3, <2>4, <2>5
<1>25. ASSUME NEW s \in Strategies, SelectSimStrategy(s)
       PROVE  OnlyKnownFailures' /\ (alive' => LivingInv')
  <2>0. /\ GenerateSendQueue /\ RefreshTaskButtons /\ CanEdit
        /\ rows' = (IF strategy' # "none" THEN Len(records') ELSE 0)
    BY <1>25 DEF SelectSimStrategy, WritePreferences, ReloadSmsLayer, HomeInv
  <2>a. /\ Len(records') \in Nat
        /\ strategy' = "none" => records' = <<>> /\ Len(records') = 0
    BY <2>0, <1>25, GenerateType, EmptySeq DEF TypeOK, DataOK, SelectSimStrategy,
       WritePreferences
  <2>1. OnlyKnownFailures'
    BY <1>25 DEF OnlyKnownFailures, SelectSimStrategy, WritePreferences, ReloadSmsLayer,
       GenerateSendQueue, RefreshTaskButtons, Asserts, Broken, MainInv, PlatformInv,
       QueueInv, HomeInv, EditorInv
  <2>2. MainInv' /\ PlatformInv'
    BY <1>25 DEF SelectSimStrategy, WritePreferences, ReloadSmsLayer, GenerateSendQueue,
       RefreshTaskButtons, MainInv, PlatformInv, QueueInv
  <2>3. QueueInv'
    BY <1>25, <2>0, <2>a DEF SelectSimStrategy, WritePreferences, MainInv, QueueInv,
       HasItems
  <2>4. HomeInv'
    BY <1>25, <2>0, <2>a, ButtonsTell DEF SelectSimStrategy, WritePreferences, MainInv,
       QueueInv, HomeInv
  <2>5. EditorInv'
    BY <1>25 DEF SelectSimStrategy, WritePreferences, ReloadSmsLayer, GenerateSendQueue,
       RefreshTaskButtons, MainInv, QueueInv, EditorInv, Editors
  <2> QED BY <2>1, <2>2, <2>3, <2>4, <2>5
<1>26. ASSUME NEW k \in Kinds, NEW i \in 1 .. MaxItems[k], RequireSend(k, i)
       PROVE  OnlyKnownFailures' /\ (alive' => LivingInv')
  <2>1. OnlyKnownFailures'
    BY <1>26 DEF OnlyKnownFailures, RequireSend, WritePb, Asserts, Broken, MainInv,
       PlatformInv, QueueInv, HomeInv, EditorInv
  <2>2. MainInv' /\ PlatformInv'
    BY <1>26 DEF RequireSend, WritePb, MainInv, PlatformInv, QueueInv
  <2>3. QueueInv'
    BY <1>26 DEF RequireSend, WritePb, MainInv, PlatformInv, QueueInv, HomeInv, HasItems
  <2>4. HomeInv'
    BY <1>26 DEF RequireSend, WritePb, MainInv, PlatformInv, QueueInv, HomeInv, LayerOf
  <2>5. EditorInv'
    BY <1>26 DEF RequireSend, WritePb, MainInv, QueueInv, EditorInv, Editors
  <2> QED BY <2>1, <2>2, <2>3, <2>4, <2>5
<1>27. ASSUME NEW k \in Kinds, NEW i \in 1 .. MaxItems[k], CloneItem(k, i)
       PROVE  OnlyKnownFailures' /\ (alive' => LivingInv')
  <2>0. HasItems => HasItems'
    <3>1. Append(memory[k], memory[k][i]) # <<>>
      <4>1. memory[k] \in Seq(Items(k)) /\ i \in 1 .. Len(memory[k])
        BY <1>27, ListsApply DEF CloneItem, TypeOK, DataOK
      <4> QED BY <4>1, AppendProperties, ElementOfSeq
    <3> QED BY <1>27, <3>1, ItemsKept DEF CloneItem, TypeOK, DataOK
  <2>1. OnlyKnownFailures'
    BY <1>27 DEF OnlyKnownFailures, CloneItem, WritePb, Asserts, Broken, MainInv,
       PlatformInv, QueueInv, HomeInv, EditorInv
  <2>2. MainInv' /\ PlatformInv'
    BY <1>27 DEF CloneItem, WritePb, MainInv, PlatformInv, QueueInv
  <2>3. QueueInv'
    BY <1>27, <2>0 DEF CloneItem, WritePb, QueueInv
  <2>4. HomeInv'
    BY <1>27, <2>0 DEF CloneItem, MainInv, QueueInv, HomeInv
  <2>5. EditorInv'
    BY <1>27 DEF CloneItem, WritePb, MainInv, QueueInv, EditorInv, Editors
  <2> QED BY <2>1, <2>2, <2>3, <2>4, <2>5
<1>28. ASSUME NEW k \in Kinds, NEW i \in 1 .. MaxItems[k], EraseItem(k, i)
       PROVE  OnlyKnownFailures' /\ (alive' => LivingInv')
  <2>0. HasItems /\ i # 1 => HasItems'
    <3>1. i # 1 => Len(Without(memory[k], i)) # 0
      BY <1>28, WithoutType, ListsApply DEF EraseItem, TypeOK, DataOK
    <3>2. i # 1 => Without(memory[k], i) # <<>>
      BY <3>1, EmptySeq
    <3> QED BY <1>28, <3>2, ItemsKept DEF EraseItem, TypeOK, DataOK
  <2>1. OnlyKnownFailures'
    BY <1>28 DEF OnlyKnownFailures, EraseItem, WritePb, Asserts, Broken, MainInv,
       PlatformInv, QueueInv, HomeInv, EditorInv
  <2>2. MainInv' /\ PlatformInv'
    BY <1>28 DEF EraseItem, WritePb, MainInv, PlatformInv, QueueInv
  <2>3. QueueInv'
    BY <1>28, <2>0 DEF EraseItem, WritePb, QueueInv
  <2>4. HomeInv'
    BY <1>28, <2>0 DEF EraseItem, QueueInv, HomeInv, LayerOf
  <2>5. EditorInv'
    BY <1>28 DEF EraseItem, WritePb, MainInv, QueueInv, EditorInv, Editors
  <2> QED BY <2>1, <2>2, <2>3, <2>4, <2>5
<1>29. ASSUME NEW k \in Kinds, NEW i \in 1 .. MaxItems[k], OpenEditor(k, i)
       PROVE  OnlyKnownFailures' /\ (alive' => LivingInv')
  <2>1. OnlyKnownFailures'
    BY <1>29 DEF OnlyKnownFailures, OpenEditor, HomeClosed, Editor, Asserts, Broken,
       MainInv, PlatformInv, QueueInv, HomeInv, EditorInv
  <2>2. MainInv' /\ PlatformInv'
    BY <1>29 DEF OpenEditor, HomeClosed, Editor, MainInv, PlatformInv, QueueInv
  <2>3. QueueInv'
    BY <1>29 DEF OpenEditor, HomeClosed, Editor, MainInv, PlatformInv, QueueInv,
       HomeInv, HasItems
  <2>4. HomeInv'
    BY <1>29 DEF OpenEditor, HomeClosed, Editor, MainInv, PlatformInv, QueueInv,
       HomeInv, HasItems
  <2>5. EditorInv'
    <3>1. ~CanEdit => Len(memory[k]) >= 1
      <4>1. ~CanEdit => memory[k] # <<>>
        BY DEF QueueInv, HasItems
      <4> QED BY <4>1, ListsApply, EmptySeq DEF TypeOK, DataOK
    <3>2. edit'.at = 1 /\ ~edit'.readOnly => CanEdit
      BY <1>29, <3>1 DEF OpenEditor
    <3>3. ~edit'.changed /\ UNCHANGED <<running, nextSendAt>>
      BY <1>29 DEF OpenEditor
    <3> QED BY <3>2, <3>3 DEF EditorInv
  <2> QED BY <2>1, <2>2, <2>3, <2>4, <2>5
<1>30. ASSUME NEW g \in Groups, SavePerson(g)
       PROVE  OnlyKnownFailures' /\ (alive' => LivingInv')
  <2>0. HasItems => HasItems'
    <3>1. Store(memory["contacts"], edit.at, g) # <<>>
      BY StoreType, ListsApply DEF TypeOK, DataOK, Edits, Items
    <3> QED BY <1>30, <3>1, ItemsKept DEF SavePerson, TypeOK, DataOK
  <2>1. OnlyKnownFailures'
    BY <1>30 DEF OnlyKnownFailures, SavePerson, WritePb, Asserts, Broken, MainInv,
       PlatformInv, QueueInv, HomeInv, EditorInv
  <2>2. MainInv' /\ PlatformInv'
    BY <1>30 DEF SavePerson, WritePb, MainInv, PlatformInv, QueueInv
  <2>3. QueueInv'
    BY <1>30, <2>0 DEF SavePerson, WritePb, MainInv, QueueInv
  <2>4. HomeInv'
    BY <1>30 DEF SavePerson, WritePb, MainInv, PlatformInv, QueueInv, HomeInv, HasItems
  <2>5. EditorInv'
    BY <1>30 DEF SavePerson, WritePb, MainInv, QueueInv, EditorInv, Editors
  <2> QED BY <2>1, <2>2, <2>3, <2>4, <2>5
<1>31. ASSUME NEW k \in Kinds, NEW item \in Items(k), SaveItem(k, item)
       PROVE  OnlyKnownFailures' /\ (alive' => LivingInv')
  <2>0. HasItems => HasItems'
    <3>1. Store(memory[k], edit.at, item) # <<>>
      BY StoreType, ListsApply DEF TypeOK, DataOK, Edits, Items
    <3>2. CASE Differs(k, item)
      BY <1>31, <3>1, <3>2, ItemsKept DEF SaveItem, TypeOK, DataOK
    <3>3. CASE ~Differs(k, item)
      BY <1>31, <3>3 DEF SaveItem, HasItems
    <3> QED BY <3>2, <3>3
  <2> DEFINE wanted == (Differs(k, item) \/ edit.changed) /\ Valid /\ edit.at = 1
  <2>a. wanted => CanEdit
    BY <1>31 DEF SaveItem, EditorInv, Editor, Editors, TypeOK, DataOK, Edits
  <2>b. wanted => Len(records') \in Nat
    BY <1>31, GenerateType DEF SaveItem, Regenerate, TypeOK, DataOK
  <2>c. wanted => ~running' /\ nextSendAt' = 0
    BY <1>31, <2>a DEF SaveItem
  <2>d. ~wanted => UNCHANGED records
    BY <1>31 DEF SaveItem, Regenerate
  <2>e. main' # "starting" /\ UNCHANGED <<running, nextSendAt, strategy, prefs>>
    BY <1>31 DEF SaveItem, WritePb
  <2>1. OnlyKnownFailures'
    BY <1>31, <2>a DEF OnlyKnownFailures, SaveItem, Regenerate, GenerateSendQueue,
       Asserts, Broken
  <2>2. MainInv' /\ PlatformInv'
    BY <1>31 DEF SaveItem, WritePb, Regenerate, GenerateSendQueue, NoEdit, MainInv,
       PlatformInv, QueueInv
  <2>3. QueueInv'
    BY <2>0, <2>a, <2>b, <2>c, <2>d, <2>e DEF QueueInv
  <2>4. HomeInv'
    BY <1>31 DEF SaveItem, HomeInv, Editor
  <2>5. EditorInv'
    BY <1>31 DEF SaveItem, WritePb, Regenerate, GenerateSendQueue, NoEdit, MainInv,
       QueueInv, EditorInv, Editors
  <2> QED BY <2>1, <2>2, <2>3, <2>4, <2>5
<1>32. ASSUME NEW k \in Kinds, NEW content \in Content(k), NEW ok \in BOOLEAN, Download(k, content, ok)
       PROVE  OnlyKnownFailures' /\ (alive' => LivingInv')
  <2>1. OnlyKnownFailures'
    BY <1>32 DEF OnlyKnownFailures, Download, Asserts, Broken, MainInv, PlatformInv,
       QueueInv, HomeInv, EditorInv
  <2>2. MainInv' /\ PlatformInv'
    BY <1>32 DEF Download, MainInv, PlatformInv, QueueInv
  <2>3. QueueInv'
    BY <1>32 DEF Download, MainInv, PlatformInv, QueueInv, HomeInv, HasItems
  <2>4. HomeInv'
    BY <1>32 DEF Download, MainInv, PlatformInv, QueueInv, HomeInv, HasItems
  <2>5. EditorInv'
    BY <1>32 DEF Download, MainInv, QueueInv, EditorInv, Editors
  <2> QED BY <2>1, <2>2, <2>3, <2>4, <2>5
<1>40. CASE SaveSetting
  <2>1. OnlyKnownFailures'
    BY <1>40 DEF OnlyKnownFailures, SaveSetting, WritePreferences, Asserts, Broken,
       PlatformInv
  <2>2. MainInv' /\ PlatformInv'
    BY <1>40 DEF SaveSetting, WritePreferences, Asserts, Broken, MainInv, PlatformInv
  <2>3. QueueInv'
    BY <1>40 DEF SaveSetting, WritePreferences, QueueInv, HasItems
  <2>4. HomeInv'
    BY <1>40 DEF SaveSetting, WritePreferences, HomeInv, HasItems
  <2>5. EditorInv'
    BY <1>40 DEF SaveSetting, WritePreferences, EditorInv, Editors
  <2> QED BY <2>1, <2>2, <2>3, <2>4, <2>5
<1>41. CASE FinishPreferences
  <2>1. OnlyKnownFailures'
    BY <1>41 DEF OnlyKnownFailures, FinishPreferences, SavePosition, Asserts, Broken,
       PlatformInv
  <2>2. MainInv' /\ PlatformInv'
    BY <1>41 DEF FinishPreferences, SavePosition, Asserts, Broken, MainInv, PlatformInv
  <2>3. QueueInv'
    BY <1>41 DEF FinishPreferences, SavePosition, QueueInv, HasItems
  <2>4. HomeInv'
    BY <1>41 DEF FinishPreferences, SavePosition, HomeInv, HasItems
  <2>5. EditorInv'
    BY <1>41 DEF FinishPreferences, SavePosition, EditorInv, Editors
  <2> QED BY <2>1, <2>2, <2>3, <2>4, <2>5
<1>42. CASE SmsCounted
  <2>0. running /\ Valid /\ HasItems /\ nextSendAt < Len(records)
    BY <1>42 DEF SmsCounted, MainInv, QueueInv
  <2>a. /\ nextSendAt' = nextSendAt + 1 /\ main' \in {"idle", "returning"}
        /\ UNCHANGED <<records, memory, strategy>>
    BY <1>42 DEF SmsCounted
  <2>1. OnlyKnownFailures'
    BY <1>42 DEF OnlyKnownFailures, SmsCounted, Asserts, Broken, MainInv, HomeInv
  <2>2. MainInv' /\ PlatformInv'
    BY <1>42, <2>0 DEF SmsCounted, MainInv, PlatformInv
  <2>3. QueueInv'
    BY <2>0, <2>a DEF QueueInv, HasItems, TypeOK, DataOK
  <2>4. HomeInv'
    BY <1>42, <2>0, <2>a, ButtonsTell DEF SmsCounted, QueueInv, HomeInv, HasItems
  <2>5. EditorInv'
    BY <1>42, <2>0 DEF SmsCounted, EditorInv, Editors
  <2> QED BY <2>1, <2>2, <2>3, <2>4, <2>5
<1>43. CASE ClearCallbacks
  <2>1. OnlyKnownFailures'
    BY <1>43 DEF OnlyKnownFailures, ClearCallbacks, Asserts, Broken, PlatformInv
  <2>2. alive' => MainInv' /\ PlatformInv'
    BY <1>43 DEF ClearCallbacks, Asserts, Broken, MainInv, PlatformInv
  <2>3. QueueInv'
    BY <1>43 DEF ClearCallbacks, QueueInv, HasItems
  <2>4. HomeInv'
    BY <1>43 DEF ClearCallbacks, HomeInv, HasItems
  <2>5. EditorInv'
    BY <1>43 DEF ClearCallbacks, EditorInv, Editors
  <2> QED BY <2>1, <2>2, <2>3, <2>4, <2>5
<1>44. CASE DidEnterForeground
  <2>1. OnlyKnownFailures'
    BY <1>44 DEF OnlyKnownFailures, DidEnterForeground, Asserts, Broken, PlatformInv
  <2>2. MainInv' /\ PlatformInv'
    BY <1>44 DEF DidEnterForeground, Asserts, Broken, MainInv, PlatformInv
  <2>3. QueueInv'
    BY <1>44 DEF DidEnterForeground, QueueInv, HasItems
  <2>4. HomeInv'
    BY <1>44 DEF DidEnterForeground, HomeInv, HasItems
  <2>5. EditorInv'
    BY <1>44 DEF DidEnterForeground, EditorInv, Editors
  <2> QED BY <2>1, <2>2, <2>3, <2>4, <2>5
<1>45. CASE HandleBackground
  <2>1. OnlyKnownFailures'
    BY <1>45 DEF OnlyKnownFailures, HandleBackground, Asserts, Broken, PlatformInv
  <2>2. MainInv' /\ PlatformInv'
    BY <1>45 DEF HandleBackground, Asserts, Broken, MainInv, PlatformInv
  <2>3. QueueInv'
    BY <1>45 DEF HandleBackground, QueueInv, HasItems
  <2>4. HomeInv'
    BY <1>45 DEF HandleBackground, HomeInv, HasItems
  <2>5. EditorInv'
    BY <1>45 DEF HandleBackground, EditorInv, Editors
  <2> QED BY <2>1, <2>2, <2>3, <2>4, <2>5
<1>46. CASE DidBackgroundEarly
  <2>1. OnlyKnownFailures'
    BY <1>46 DEF OnlyKnownFailures, DidBackgroundEarly, Asserts, Broken, PlatformInv
  <2>2. alive' => MainInv' /\ PlatformInv'
    BY <1>46 DEF DidBackgroundEarly, Asserts, Broken, MainInv, PlatformInv
  <2>3. QueueInv'
    BY <1>46 DEF DidBackgroundEarly, QueueInv, HasItems
  <2>4. HomeInv'
    BY <1>46 DEF DidBackgroundEarly, HomeInv, HasItems
  <2>5. EditorInv'
    BY <1>46 DEF DidBackgroundEarly, EditorInv, Editors
  <2> QED BY <2>1, <2>2, <2>3, <2>4, <2>5
<1>47. CASE BackgroundDisconnect
  <2>1. OnlyKnownFailures'
    BY <1>47 DEF OnlyKnownFailures, BackgroundDisconnect, Asserts, Broken, PlatformInv
  <2>2. alive' => MainInv' /\ PlatformInv'
    BY <1>47 DEF BackgroundDisconnect, Asserts, Broken, MainInv, PlatformInv
  <2>3. QueueInv'
    BY <1>47 DEF BackgroundDisconnect, QueueInv, HasItems
  <2>4. HomeInv'
    BY <1>47 DEF BackgroundDisconnect, HomeInv, HasItems
  <2>5. EditorInv'
    BY <1>47 DEF BackgroundDisconnect, EditorInv, Editors
  <2> QED BY <2>1, <2>2, <2>3, <2>4, <2>5
<1>48. CASE BackgroundHandled
  <2>1. OnlyKnownFailures'
    BY <1>48 DEF OnlyKnownFailures, BackgroundHandled, Iterate, Asserts, Broken,
       PlatformInv
  <2>2. alive' => MainInv' /\ PlatformInv'
    BY <1>48 DEF BackgroundHandled, Iterate, Asserts, Broken, MainInv, PlatformInv
  <2>3. QueueInv'
    BY <1>48 DEF BackgroundHandled, Iterate, QueueInv, HasItems
  <2>4. HomeInv'
    BY <1>48 DEF BackgroundHandled, Iterate, HomeInv, HasItems
  <2>5. EditorInv'
    BY <1>48 DEF BackgroundHandled, Iterate, EditorInv, Editors
  <2> QED BY <2>1, <2>2, <2>3, <2>4, <2>5
<1>33. CASE UNCHANGED vars
  BY <1>33 DEF OnlyKnownFailures, vars, MainInv, PlatformInv, QueueInv, HomeInv,
     EditorInv, HasItems
<1> QED
  BY <1>1, <1>2, <1>3, <1>4, <1>5, <1>6, <1>7, <1>8, <1>9, <1>10, <1>11, <1>12, <1>13,
     <1>14, <1>15, <1>16, <1>17, <1>18, <1>19, <1>20, <1>21, <1>22, <1>24, <1>25, <1>26,
     <1>27, <1>28, <1>29, <1>30, <1>31, <1>32, <1>33, <1>40, <1>41, <1>42, <1>43, <1>44,
     <1>45, <1>46, <1>47, <1>48
     DEF Next, User, MainThread, Continue, AppEvents, EventContinues


(* The first start satisfies it.                                           *)
LEMMA RaceInit == Init => RaceInv
<1> SUFFICES ASSUME Init PROVE RaceInv
  OBVIOUS
<1>1. Len(records) = 0
  BY EmptySeq DEF Init
<1> QED BY <1>1, TypeInit
  DEF Init, RaceInv, OnlyKnownFailures, LivingInv, MainInv, PlatformInv, QueueInv,
     HomeInv,
      EditorInv, NoEdit, Editors, Sending, Counting, Saving, Handling,
      PersistedPosition, NoPrefs, HomeShown, Valid, CanEdit

(* A process that is no longer alive only starts again.                    *)
LEMMA DeadStep ==
  ASSUME ~alive, [Next]_vars
  PROVE  Restart \/ UNCHANGED <<failed, alive>>
BY DEF Next, User, MainThread, Continue, AppEvents, EventContinues, UserReady, AtHome,
   vars, process, ShowHome, SelectLayer,
   SelectSmsLayerReload, SelectSimStrategy, SelectInterval, RunTask, StopTask, ResetTask,
   RequireSend, CloneItem, EraseItem, OpenEditor, SavePerson, SaveItem, CancelEditor,
   LeaveHome, OpenNotification, Download, CloseNotification, FinishWrite, RunTaskStarted,
   SmsSent, SmsCounted, SaveSetting, FinishPreferences, SendTimerRefresh, SendTimerHandler, EraseCallback, DidBackground,
   EnterBackground, BackgroundConnect, DidEnterBackground, ClearCallbacks, DidEnterForeground,
   EnterForeground, HandleBackground, DidBackgroundEarly, BackgroundDisconnect,
   BackgroundHandled, Elapse

(* A process that starts takes both from the file and writes a position    *)
(* that it had to correct.                                                 *)
LEMMA PersistedRestart ==
  ASSUME TypeOK, Restart
  PROVE  PersistedPosition'
BY DEF Restart, ProcessStarts, PersistedPosition, TypeOK, DataOK, Saving, Counting

(* The preferences hold strategy and position, or are being written.       *)
LEMMA PersistedStep ==
  ASSUME TypeOK, PersistedPosition, alive, [Next]_vars
  PROVE  PersistedPosition'
<1> USE DEF TypeOK, DataOK, PersistedPosition, disk, lists, task
<1> USE DEF Saving, Counting, Sending, Kinds
<1>1. CASE User
  <2>1. \/ main' = "settings" /\ prefs' = NoPrefs
        \/ main' \in Kinds \cup {"idle", "starting"} /\ UNCHANGED <<prefs, strategy, nextSendAt>>
    BY <1>1 DEF User, UserReady, AtHome, ShowHome, SelectLayer, SelectSmsLayerReload,
       SelectSimStrategy, SelectInterval, SaveSetting, WritePreferences, RunTask, StopTask,
       ResetTask, RequireSend, CloneItem, EraseItem, OpenEditor, SavePerson, SaveItem,
       WritePb, CancelEditor, LeaveHome, OpenNotification, Download, CloseNotification
  <2>2. main = "idle"
    BY <1>1 DEF User, UserReady, AtHome, ShowHome, SelectLayer, SelectSmsLayerReload,
       SelectSimStrategy, SelectInterval, SaveSetting, RunTask, StopTask, ResetTask,
       RequireSend, CloneItem, EraseItem, OpenEditor, SavePerson, SaveItem, CancelEditor,
       LeaveHome, OpenNotification, Download, CloseNotification
  <2> QED BY <2>1, <2>2
<1>2. CASE SmsSent
  BY <1>2 DEF SmsSent
<1>3. CASE SmsCounted \/ FinishPreferences
  BY <1>3 DEF SmsCounted, FinishPreferences, SavePosition
<1>4. CASE MainThread /\ ~(SmsSent \/ SmsCounted \/ FinishPreferences)
  BY <1>4 DEF MainThread, Continue, FinishWrite, RunTaskStarted, SendTimerRefresh,
     SendTimerHandler, HandOver, HandleBackground, DidBackground, DidBackgroundEarly,
     BackgroundDisconnect, BackgroundHandled, EraseCallback, Iterate
<1>5. CASE AppEvents \/ Elapse
  BY <1>5 DEF AppEvents, EventContinues, EnterBackground, ClearCallbacks,
     BackgroundConnect,
     DidEnterBackground, DidEnterForeground, EnterForeground, Elapse
<1>6. CASE Restart
  BY <1>6, PersistedRestart
<1>7. CASE UNCHANGED vars
  BY <1>7 DEF vars, process
<1> QED BY <1>1, <1>2, <1>3, <1>4, <1>5, <1>6, <1>7 DEF Next

LEMMA RaceStays == RaceInv /\ [Next]_vars => RaceInv'
<1> SUFFICES ASSUME RaceInv, [Next]_vars PROVE RaceInv'
  OBVIOUS
<1>1. TypeOK /\ TypeOK' /\ OnlyKnownFailures /\ PersistedPosition
  BY DataStep, FlagsStep DEF RaceInv, TypeOK
<1>2. CASE Restart
  BY <1>1, <1>2, RaceRestart, PersistedRestart DEF RaceInv, Restart, OnlyKnownFailures
<1>3. CASE alive /\ ~Restart
  BY <1>1, <1>3, RaceStep, PersistedStep DEF RaceInv
<1>4. CASE ~alive /\ ~Restart
  <2>1. failed' = failed /\ alive' = alive
    BY <1>4, DeadStep
  <2> QED BY <1>1, <1>4, <2>1 DEF RaceInv, OnlyKnownFailures, PersistedPosition
<1> QED BY <1>2, <1>3, <1>4

-----------------------------------------------------------------------------
(* The theorems                                                            *)

(* RaceInv is an invariant, with application events on a thread of their   *)
(* own and a user who clicks at any time.                                  *)
THEOREM RaceInvariance == Spec => []RaceInv
BY RaceInit, RaceStays, PTL DEF Spec

(* Whatever interleaves, no assertion on these paths fails but the six     *)
(* that OnlyKnownFailures names.                                           *)
THEOREM FailuresKnown == Spec => []OnlyKnownFailures
<1>1. RaceInv => OnlyKnownFailures
  BY DEF RaceInv
<1> QED BY RaceInvariance, <1>1, PTL

(* The position stays in the queue; the preferences file holds it with its *)
(* strategy, or neither of them while it is truncated and not yet written. *)
THEOREM PositionSafety == Spec => [](PositionInBounds /\ PersistedPosition)
<1>1. RaceInv => PositionInBounds /\ PersistedPosition
  BY DEF RaceInv, LivingInv, QueueInv, PositionInBounds, PersistedPosition
<1> QED BY RaceInvariance, <1>1, PTL

-----------------------------------------------------------------------------
(* A task in the background                                                *)

(* However the two threads interleave, a running task that is provided for *)
(* in the background stays so until it has ended: only the end of a click  *)
(* on "start", which began before the event, leaves one that nobody serves *)
(* (app_didenterbackground, handle_app_event, handle_background).          *)
THEOREM KeepsServing == Spec => ServedUntilStart
<1> DEFINE Kept == Served => Served' \/ main = "starting"
<1>1. ASSUME RaceInv, [Next]_vars PROVE Kept
  <2>1. CASE User
    <3>1. UNCHANGED <<app, callback, audioLock>> /\ (running' => running)
      BY <2>1 DEF User, ShowHome, SelectLayer, SelectSmsLayerReload, SelectSimStrategy,
         SelectInterval, SaveSetting, RunTask, StopTask, ResetTask, RequireSend, CloneItem,
         EraseItem, OpenEditor, SavePerson, SaveItem, CancelEditor, LeaveHome,
         OpenNotification, Download, CloseNotification, task, platform
    <3> QED BY <3>1 DEF Served
  <2>2. CASE MainThread
    <3>1. CASE RunTaskStarted
      BY <3>1 DEF RunTaskStarted
    <3>2. CASE BackgroundDisconnect \/ EraseCallback
      BY <1>1, <3>2 DEF BackgroundDisconnect, EraseCallback, Served, task, RaceInv,
         LivingInv, MainInv
    <3>3. CASE SmsCounted
      BY <1>1, <3>3 DEF SmsCounted, Served, RaceInv, LivingInv, MainInv
    <3>4. CASE ~(RunTaskStarted \/ BackgroundDisconnect \/ EraseCallback \/ SmsCounted)
      <4>1. UNCHANGED <<app, callback, audioLock, running>>
        BY <2>2, <3>4 DEF MainThread, Continue, FinishWrite, FinishPreferences, SmsSent,
           SendTimerRefresh, SendTimerHandler, HandOver, HandleBackground, DidBackground,
           DidBackgroundEarly, BackgroundHandled, task, platform
      <4> QED BY <4>1 DEF Served
    <3> QED BY <3>1, <3>2, <3>3, <3>4
  <2>3. CASE AppEvents
    BY <2>3 DEF AppEvents, EventContinues, EnterBackground, ClearCallbacks,
       BackgroundConnect, DidEnterBackground, DidEnterForeground, EnterForeground, Served,
       task
  <2>4. CASE Restart
    BY <2>4 DEF Restart, ProcessStarts, Served
  <2>5. CASE Elapse \/ UNCHANGED vars
    BY <2>5 DEF Elapse, vars, task, platform, Served
  <2> QED BY <1>1, <2>1, <2>2, <2>3, <2>4, <2>5 DEF Next
<1>2. RaceInv /\ [Next]_vars => [Kept]_vars
  BY <1>1
<1> QED BY RaceInvariance, <1>2, PTL DEF Spec, ServedUntilStart

-----------------------------------------------------------------------------
(* No edit under a task                                                    *)

(* Storing a working copy behind the first place keeps the first item.     *)
LEMMA StoreFirst ==
  ASSUME NEW S, NEW s \in Seq(S), NEW i \in Nat \ {0, 1}, NEW item \in S, Len(s) > 0
  PROVE  Len(Store(s, i, item)) > 0 /\ Store(s, i, item)[1] = s[1]
<1>1. CASE i <= Len(s)
  BY <1>1, ExceptSeq, LenProperties DEF Store
<1>2. CASE ~(i <= Len(s))
  BY <1>2, AppendProperties, LenProperties DEF Store
<1> QED BY <1>1, <1>2

(* No step replaces the queue, or the item it came from, under a task.     *)
LEMMA LockedStep ==
  ASSUME TypeOK, LivingInv, [Next]_vars
  PROVE  FirstItemsKept
<1> USE DEF FirstItemsKept, LivingInv, UserReady, AtHome, HomeShown, CanEdit, SameFirst,
            lists, task
<1>1. CASE ShowHome
  BY <1>1 DEF ShowHome
<1>2. CASE SelectSmsLayerReload
  BY <1>2 DEF SelectSmsLayerReload, HomeInv
<1>3. CASE SelectInterval
  BY <1>3 DEF SelectInterval
<1>4. CASE RunTask
  BY <1>4 DEF RunTask
<1>5. CASE StopTask
  BY <1>5 DEF StopTask
<1>6. CASE ResetTask
  BY <1>6 DEF ResetTask
<1>7. CASE CancelEditor
  BY <1>7 DEF CancelEditor
<1>8. CASE LeaveHome
  BY <1>8 DEF LeaveHome
<1>9. CASE OpenNotification
  BY <1>9 DEF OpenNotification
<1>10. CASE CloseNotification
  BY <1>10 DEF CloseNotification, Regenerate
<1>11. CASE FinishWrite
  BY <1>11 DEF FinishWrite
<1>12. CASE RunTaskStarted
  BY <1>12 DEF RunTaskStarted
<1>13. CASE SmsSent
  BY <1>13 DEF SmsSent
<1>14. CASE SendTimerRefresh
  BY <1>14 DEF SendTimerRefresh
<1>15. CASE SendTimerHandler
  BY <1>15 DEF SendTimerHandler, HandOver
<1>16. CASE EraseCallback
  BY <1>16 DEF EraseCallback
<1>17. CASE DidBackground
  BY <1>17 DEF DidBackground, HandOver
<1>18. CASE EnterBackground
  BY <1>18 DEF EnterBackground
<1>19. CASE BackgroundConnect
  BY <1>19 DEF BackgroundConnect
<1>20. CASE DidEnterBackground
  BY <1>20 DEF DidEnterBackground
<1>21. CASE EnterForeground
  BY <1>21 DEF EnterForeground
<1>22. CASE Elapse
  BY <1>22 DEF Elapse
<1>23. CASE Restart
  BY <1>23 DEF Restart, TypeOK, DataOK
<1>24. ASSUME NEW l \in Layers, SelectLayer(l)
       PROVE  FirstItemsKept
  BY <1>24 DEF SelectLayer
<1>25. ASSUME NEW s \in Strategies, SelectSimStrategy(s)
       PROVE  FirstItemsKept
  BY <1>25 DEF SelectSimStrategy
<1>26. ASSUME NEW k \in Kinds, NEW i \in 1 .. MaxItems[k], RequireSend(k, i)
       PROVE  FirstItemsKept
  BY <1>26 DEF RequireSend
<1>27. ASSUME NEW k \in Kinds, NEW i \in 1 .. MaxItems[k], CloneItem(k, i)
       PROVE  FirstItemsKept
  <2>1. memory[k] \in Seq(Items(k)) /\ i \in 1 .. Len(memory[k])
    BY <1>27, ListsApply DEF CloneItem, TypeOK, DataOK
  <2>2. /\ Len(Append(memory[k], memory[k][i])) > 0
        /\ Append(memory[k], memory[k][i])[1] = memory[k][1]
    BY <2>1, AppendProperties, ElementOfSeq
  <2>3. SameFirst(k)
    BY <1>27, <2>2 DEF CloneItem, TypeOK, DataOK, Lists
  <2> QED BY <1>27, <2>3 DEF CloneItem, TypeOK, DataOK, Lists
<1>28. ASSUME NEW k \in Kinds, NEW i \in 1 .. MaxItems[k], EraseItem(k, i)
       PROVE  FirstItemsKept
  <2> SUFFICES ASSUME ~CanEdit PROVE FirstItemsKept
    BY DEF FirstItemsKept
  <2>1. memory[k] \in Seq(Items(k)) /\ i \in 2 .. Len(memory[k])
    BY <1>28, ListsApply DEF EraseItem, TypeOK, DataOK
  <2>2. Len(Without(memory[k], i)) > 0 /\ Without(memory[k], i)[1] = memory[k][1]
    BY <2>1, WithoutType DEF Without
  <2>3. SameFirst(k)
    BY <1>28, <2>2 DEF EraseItem, TypeOK, DataOK, Lists
  <2> QED BY <1>28, <2>3 DEF EraseItem, TypeOK, DataOK, Lists
<1>29. ASSUME NEW k \in Kinds, NEW i \in 1 .. MaxItems[k], OpenEditor(k, i)
       PROVE  FirstItemsKept
  BY <1>29 DEF OpenEditor
<1>30. ASSUME NEW g \in Groups, SavePerson(g)
       PROVE  FirstItemsKept
  <2> SUFFICES ASSUME ~CanEdit PROVE FirstItemsKept
    BY DEF FirstItemsKept
  <2> DEFINE k == "contacts"
  <2>1. edit.at \in Nat \ {0, 1} /\ k \in Kinds /\ g \in Items(k)
    BY <1>30 DEF SavePerson, EditorInv, Editors, TypeOK, DataOK, Edits, Kinds, Items
  <2>2. Len(memory[k]) > 0 =>
          /\ Len(Store(memory[k], edit.at, g)) > 0
          /\ Store(memory[k], edit.at, g)[1] = memory[k][1]
    <3>1. memory[k] \in Seq(Items(k))
      BY <2>1, ListsApply DEF TypeOK, DataOK
    <3> HIDE DEF k
    <3> QED BY <2>1, <3>1, StoreFirst
  <2>3. SameFirst(k)
    BY <1>30, <2>1, <2>2 DEF SavePerson, TypeOK, DataOK, Lists
  <2> QED BY <1>30, <2>3 DEF SavePerson, TypeOK, DataOK, Lists
<1>31. ASSUME NEW k \in Kinds, NEW item \in Items(k), SaveItem(k, item)
       PROVE  FirstItemsKept
  <2> SUFFICES ASSUME ~CanEdit PROVE FirstItemsKept
    BY DEF FirstItemsKept
  <2>1. CASE ~Differs(k, item)
    <3>1. UNCHANGED <<memory, records>>
      BY <1>31, <2>1 DEF SaveItem, Regenerate, EditorInv, Editors, Editor
    <3> QED BY <3>1
  <2>2. CASE Differs(k, item)
    <3>1. edit.at \in Nat \ {0, 1}
      BY <1>31, <2>2 DEF SaveItem, EditorInv, Editors, Editor, TypeOK, DataOK, Edits
    <3>2. Len(memory[k]) > 0 =>
            /\ Len(Store(memory[k], edit.at, item)) > 0
            /\ Store(memory[k], edit.at, item)[1] = memory[k][1]
      <4>1. memory[k] \in Seq(Items(k))
        BY ListsApply DEF TypeOK, DataOK
      <4> QED BY <3>1, <4>1, StoreFirst
    <3>3. SameFirst(k) /\ UNCHANGED records
      BY <1>31, <2>2, <3>1, <3>2 DEF SaveItem, Regenerate, TypeOK, DataOK, Lists
    <3> QED BY <1>31, <2>2, <3>3 DEF SaveItem, TypeOK, DataOK, Lists
  <2> QED BY <2>1, <2>2
<1>32. ASSUME NEW k \in Kinds, NEW content \in Content(k), NEW ok \in BOOLEAN, Download(k, content, ok)
       PROVE  FirstItemsKept
  BY <1>32 DEF Download
<1>40. CASE SaveSetting
  BY <1>40 DEF SaveSetting
<1>41. CASE FinishPreferences
  BY <1>41 DEF FinishPreferences
<1>42. CASE SmsCounted
  BY <1>42 DEF SmsCounted
<1>43. CASE ClearCallbacks
  BY <1>43 DEF ClearCallbacks
<1>44. CASE DidEnterForeground
  BY <1>44 DEF DidEnterForeground
<1>45. CASE HandleBackground
  BY <1>45 DEF HandleBackground
<1>46. CASE DidBackgroundEarly
  BY <1>46 DEF DidBackgroundEarly
<1>47. CASE BackgroundDisconnect
  BY <1>47 DEF BackgroundDisconnect
<1>48. CASE BackgroundHandled
  BY <1>48 DEF BackgroundHandled
<1>33. CASE UNCHANGED vars
  BY <1>33 DEF vars
<1> QED
  BY <1>1, <1>2, <1>3, <1>4, <1>5, <1>6, <1>7, <1>8, <1>9, <1>10, <1>11, <1>12, <1>13,
     <1>14, <1>15, <1>16, <1>17, <1>18, <1>19, <1>20, <1>21, <1>22, <1>23, <1>24, <1>25,
     <1>26, <1>27, <1>28, <1>29, <1>30, <1>31, <1>32, <1>33, <1>40, <1>41, <1>42, <1>43,
     <1>44,
     <1>45, <1>46, <1>47, <1>48
     DEF Next, User, MainThread, Continue, AppEvents, EventContinues

(* No step of the living process changes the queue of an unfinished run,   *)
(* or the first group and template (can_edit_contacts_or_templates).       *)
THEOREM LockSafety == Spec => TaskLocked
<1>1. RaceInv /\ [Next]_vars => [FirstItemsKept]_vars
  BY LockedStep DEF RaceInv, FirstItemsKept
<1> QED BY RaceInvariance, <1>1, PTL DEF Spec, TaskLocked, FirstItemsKept

-----------------------------------------------------------------------------
(* What a restart does with the position                                   *)

(* A restart goes on where the run was: the preferences hold the position, *)
(* which lies in a queue of the same length.  If the last process died     *)
(* while it wrote them there is no strategy and the queue is empty.        *)
LEMMA RestartInPlace ==
  ASSUME TypeOK, PersistedPosition, alive => LivingInv, Restart, alive,
         Len(records') = Len(records)
  PROVE  nextSendAt' = nextSendAt
<1>1. nextSendAt \in Nat /\ nextSendAt <= Len(records) /\ Len(records) \in Nat
  BY LenProperties DEF LivingInv, QueueInv, TypeOK, DataOK
<1>2. CASE strategy' = "none"
  <2>1. records' = <<>> /\ nextSendAt' = 0
    BY <1>2 DEF Restart, Generated
  <2>2. Len(records) = 0
    BY <2>1, EmptySeq
  <2> QED BY <1>1, <2>1, <2>2
<1>3. CASE strategy' # "none"
  <2>1. prefs.nextSendAt = nextSendAt
    BY <1>3 DEF Restart, PersistedPosition, NoPrefs
  <2> QED BY <1>1, <1>3, <2>1 DEF Restart, ResumedAt
<1> QED BY <1>2, <1>3

(* After a death the next process goes on where the run was, also when it  *)
(* was finished, if it finds a queue of the same length (load_pb).         *)
THEOREM ResumesSafely == Spec => ResumesInPlace
<1> DEFINE InPlace == crashes' # crashes /\ Len(records') = Len(records) =>
                        nextSendAt' = nextSendAt
<1>1. ASSUME RaceInv, [Next]_vars PROVE InPlace
  <2>1. CASE Restart
    BY <1>1, <2>1, RestartInPlace DEF Restart, RaceInv
  <2>2. CASE User
    BY <2>2 DEF User, ShowHome, SelectLayer, SelectSmsLayerReload, SelectSimStrategy,
       SelectInterval, SaveSetting, RunTask, StopTask, ResetTask, RequireSend, CloneItem,
       EraseItem, OpenEditor, SavePerson, SaveItem, CancelEditor, LeaveHome,
       OpenNotification, Download, CloseNotification
  <2>3. CASE MainThread
    BY <2>3 DEF MainThread, Continue, FinishWrite, FinishPreferences, RunTaskStarted,
       SmsSent, SmsCounted, SendTimerRefresh, SendTimerHandler, HandOver, HandleBackground,
       DidBackground, DidBackgroundEarly, BackgroundDisconnect, BackgroundHandled,
       EraseCallback
  <2>4. CASE AppEvents
    BY <2>4 DEF AppEvents, EventContinues, EnterBackground, ClearCallbacks,
       BackgroundConnect, DidEnterBackground, DidEnterForeground, EnterForeground
  <2>5. CASE Elapse \/ UNCHANGED vars
    BY <2>5 DEF Elapse, vars
  <2> QED BY <1>1, <2>1, <2>2, <2>3, <2>4, <2>5 DEF Next
<1>2. RaceInv /\ [Next]_vars => [InPlace]_vars
  BY <1>1
<1> QED BY RaceInvariance, <1>2, PTL DEF Spec, ResumesInPlace

-----------------------------------------------------------------------------
(* The buttons of the home screen                                          *)

(* A handler that refreshes the buttons leaves them right.                 *)
LEMMA RefreshRight ==
  ASSUME RefreshTaskButtons PROVE ButtonsRight'
BY DEF RefreshTaskButtons, ButtonsRight, Valid

(* One that keeps what they depend on leaves them as right as they were.   *)
LEMMA KeptRight ==
  ASSUME ButtonsInv, Ready(memory') = Ready(memory), InFront' => InFront,
         UNCHANGED <<screen, requireRefresh, reloadSms, strategy,
                     running, nextSendAt, records, runButton, resetButton>>
  PROVE  ButtonsInv'
BY DEF ButtonsInv, ButtonsRight, HomeShown, Valid

(* Whether a task can be made depends on the first items alone.            *)
LEMMA ReadyByFirst ==
  ASSUME NEW m \in Lists, NEW k \in Kinds, NEW s \in Seq(Items(k)),
         Len(m[k]) > 0, Len(s) > 0, s[1] = m[k][1]
  PROVE  Ready([m EXCEPT ![k] = s]) = Ready(m)
<1>1. m[k] # <<>> /\ s # <<>>
  BY ListsApply, EmptySeq
<1>2. CASE k = "contacts"
  BY <1>1, <1>2 DEF Ready, Lists, Kinds
<1>3. CASE k = "templates"
  BY <1>1, <1>3 DEF Ready, Lists, Kinds
<1> QED BY <1>2, <1>3 DEF Kinds

(* A record that is counted leaves the buttons right: nothing to be done  *)
(* while the task goes on, a refresh when it ends in the foreground.       *)
LEMMA SmsCountedRight ==
  ASSUME TypeOK, LivingInv, ButtonsInv, SmsCounted
  PROVE  ButtonsInv'
<1> DEFINE finished == nextSendAt + 1 = Len(records)
           refresh == main = "counted_by_timer" /\ HomeShown /\ requireRefresh
<1>1. CASE refresh \/ (finished /\ HomeShown /\ foreground)
  <2>1. RefreshTaskButtons
    BY <1>1 DEF SmsCounted
  <2> QED BY <2>1, RefreshRight DEF ButtonsInv
<1>2. CASE ~(refresh \/ (finished /\ HomeShown /\ foreground))
  <2> SUFFICES ASSUME HomeShown', InFront', ~requireRefresh', ~reloadSms'
               PROVE  ButtonsRight'
    BY DEF ButtonsInv
  <2>1. /\ UNCHANGED <<runButton, resetButton, memory, strategy, screen, foreground, app, reloadSms>>
        /\ requireRefresh' = (requireRefresh /\ ~refresh)
        /\ running' = ~finished
    BY <1>2 DEF SmsCounted, lists
  <2>2. HomeShown /\ InFront /\ ~reloadSms
    BY <2>1 DEF HomeShown, InFront
  <2>3. ~requireRefresh /\ running'
    BY <1>2, <2>1, <2>2 DEF InFront, SmsCounted, LivingInv, PlatformInv, Counting
  <2>4. running
    BY DEF SmsCounted, LivingInv, MainInv
  <2>5. ButtonsRight
    BY <2>2, <2>3 DEF ButtonsInv
  <2>6. (runButton <=> Valid /\ Ready(memory)) /\ ~resetButton
    <3>1. runButton \in BOOLEAN /\ resetButton \in BOOLEAN
      BY DEF TypeOK, FlagsOK
    <3>2. /\ runButton <=> Valid /\ Ready(memory) /\ (running \/ nextSendAt # Len(records))
          /\ resetButton <=> Valid /\ Ready(memory) /\ ~running /\ nextSendAt # 0
      BY <2>5, <3>1 DEF ButtonsRight
    <3> QED BY <2>4, <3>2
  <2>7. /\ runButton' <=> Valid' /\ Ready(memory') /\ (running' \/ nextSendAt' # Len(records'))
        /\ ~resetButton' /\ ~(Valid' /\ Ready(memory') /\ ~running' /\ nextSendAt' # 0)
    BY <2>1, <2>3, <2>6 DEF Valid
  <2>8. runButton' \in BOOLEAN /\ resetButton' \in BOOLEAN
    BY <2>1 DEF TypeOK, FlagsOK
  <2> QED BY <2>7, <2>8, Zenon DEF ButtonsRight
<1> QED BY <1>1, <1>2

(* Resetting the task leaves the buttons right: the task was usable, and   *)
(* the queue is not empty since the position was in it.                    *)
LEMMA ResetTaskRight ==
  ASSUME TypeOK, LivingInv, ButtonsInv, ResetTask
  PROVE  ButtonsInv'
<1>1. AtHome("sms") /\ resetButton /\ ~reloadSms /\ nextSendAt # 0 /\ ~running
  BY DEF ResetTask, AtHome, LivingInv, HomeInv
<1>2. /\ nextSendAt' = 0 /\ resetButton' = FALSE /\ runButton' = TRUE
      /\ UNCHANGED <<memory, strategy, records, running, screen, foreground,
                     app, requireRefresh, reloadSms>>
  BY DEF ResetTask, lists, platform
<1> SUFFICES ASSUME HomeShown', InFront', ~requireRefresh', ~reloadSms'
             PROVE  ButtonsRight'
  BY DEF ButtonsInv
<1>3. ButtonsRight
  BY <1>2 DEF ButtonsInv, InFront, HomeShown
<1>4. Valid /\ Ready(memory)
  BY <1>1, <1>3 DEF ButtonsRight
<1>5. Len(records) # 0
  BY <1>1 DEF LivingInv, QueueInv, TypeOK, DataOK
<1>6. Valid' /\ Ready(memory') /\ nextSendAt' # Len(records') /\ ~running'
  BY <1>1, <1>2, <1>4, <1>5 DEF Valid
<1> QED BY <1>2, <1>6 DEF ButtonsRight

(* Cloning, and erasing behind the first place, keep the first item; what  *)
(* replaces it asks for a reload.                                          *)
LEMMA ListRight ==
  ASSUME TypeOK, LivingInv, ButtonsInv, NEW k \in Kinds, NEW i \in 1 .. MaxItems[k],
         CloneItem(k, i) \/ EraseItem(k, i) \/ RequireSend(k, i)
  PROVE  ButtonsInv'
<1>1. memory \in Lists /\ memory[k] \in Seq(Items(k)) /\ reloadSms \in BOOLEAN
  BY ListsApply DEF TypeOK, DataOK, FlagsOK
<1>2. CASE CloneItem(k, i)
  <2>1. i \in 1 .. Len(memory[k]) /\ memory' = [memory EXCEPT ![k] = Append(@, @[i])]
    BY <1>2 DEF CloneItem
  <2> DEFINE s == Append(memory[k], memory[k][i])
  <2>2. s \in Seq(Items(k)) /\ Len(memory[k]) > 0 /\ Len(s) > 0 /\ s[1] = memory[k][1]
    BY <1>1, <2>1, AppendProperties, ElementOfSeq
  <2>3. memory' = [memory EXCEPT ![k] = s]
    BY <1>1, <2>1 DEF Lists
  <2> HIDE DEF s
  <2>4. Ready(memory') = Ready(memory)
    BY <1>1, <2>2, <2>3, ReadyByFirst
  <2> QED BY <1>2, <2>4, KeptRight DEF CloneItem, InFront, task, home, platform
<1>3. CASE EraseItem(k, i) /\ i # 1
  <2>1. i \in 2 .. Len(memory[k]) /\ memory' = [memory EXCEPT ![k] = Without(@, i)]
    BY <1>1, <1>3 DEF EraseItem
  <2> DEFINE s == Without(memory[k], i)
  <2>2. s \in Seq(Items(k)) /\ Len(memory[k]) > 0 /\ Len(s) > 0 /\ s[1] = memory[k][1]
    BY <1>1, <2>1, WithoutType DEF Without
  <2>3. memory' = [memory EXCEPT ![k] = s]
    BY <1>1, <2>1 DEF Lists
  <2> HIDE DEF s
  <2>4. Ready(memory') = Ready(memory)
    BY <1>1, <2>2, <2>3, ReadyByFirst
  <2>5. UNCHANGED reloadSms
    BY <1>1, <1>3 DEF EraseItem
  <2> QED BY <1>3, <2>4, <2>5, KeptRight DEF EraseItem, InFront, task, platform
<1>4. CASE EraseItem(k, i) /\ i = 1
  BY <1>4 DEF EraseItem, ButtonsInv
<1>5. CASE RequireSend(k, i)
  BY <1>5 DEF RequireSend, ButtonsInv
<1> QED BY <1>2, <1>3, <1>4, <1>5

(* No step leaves a button wrong that can be clicked before a refresh.     *)
LEMMA ButtonsStep ==
  ASSUME TypeOK, LivingInv, ButtonsInv, [Next]_vars
  PROVE  ButtonsInv'
<1>1. CASE ShowHome
  <2>1. RefreshTaskButtons
    BY <1>1 DEF ShowHome
  <2> QED BY <2>1, RefreshRight DEF ButtonsInv
<1>2. CASE SelectSmsLayerReload
  <2>1. RefreshTaskButtons
    BY <1>2 DEF SelectSmsLayerReload, ReloadSmsLayer
  <2> QED BY <2>1, RefreshRight DEF ButtonsInv
<1>3. CASE SelectInterval
  <2>1. RefreshTaskButtons
    BY <1>3 DEF SelectInterval, ReloadSmsLayer
  <2> QED BY <2>1, RefreshRight DEF ButtonsInv
<1>4. CASE RunTask
  BY <1>4, KeptRight DEF RunTask, lists, task, home, platform, InFront
<1>5. CASE StopTask
  <2>1. RefreshTaskButtons
    BY <1>5 DEF StopTask
  <2> QED BY <2>1, RefreshRight DEF ButtonsInv
<1>6. CASE ResetTask
  BY <1>6, ResetTaskRight
<1>7. CASE CancelEditor
  BY <1>7 DEF CancelEditor, ButtonsInv, HomeShown
<1>8. CASE LeaveHome
  BY <1>8 DEF LeaveHome, ButtonsInv, HomeShown
<1>9. CASE OpenNotification
  BY <1>9 DEF OpenNotification, ButtonsInv, HomeShown
<1>10. CASE CloseNotification
  BY <1>10 DEF CloseNotification, ButtonsInv, HomeShown
<1>11. CASE FinishWrite
  BY <1>11, KeptRight DEF FinishWrite, lists, task, home, platform, InFront
<1>12. CASE RunTaskStarted
  <2>1. RefreshTaskButtons
    BY <1>12 DEF RunTaskStarted
  <2> QED BY <2>1, RefreshRight DEF ButtonsInv
<1>13. CASE SmsSent
  BY <1>13, KeptRight DEF SmsSent, lists, task, home, platform, InFront
<1>14. CASE SendTimerRefresh
  <2>1. RefreshTaskButtons
    BY <1>14 DEF SendTimerRefresh, RefreshHistory
  <2> QED BY <2>1, RefreshRight DEF ButtonsInv
<1>15. CASE SendTimerHandler
  BY <1>15, KeptRight DEF SendTimerHandler, HandOver, lists, task, home, platform, InFront
<1>16. CASE EraseCallback
  BY <1>16, KeptRight DEF EraseCallback, Iterate, lists, task, home, platform, InFront
<1>17. CASE DidBackground
  BY <1>17, KeptRight DEF DidBackground, HandOver, lists, task, home, platform, InFront
<1>18. CASE EnterBackground
  BY <1>18, KeptRight DEF EnterBackground, lists, task, home, platform, InFront
<1>19. CASE BackgroundConnect
  BY <1>19, KeptRight DEF BackgroundConnect, lists, task, home, platform, InFront
<1>20. CASE DidEnterBackground
  BY <1>20 DEF DidEnterBackground, ButtonsInv, InFront
<1>21. CASE EnterForeground
  BY <1>21 DEF EnterForeground, ButtonsInv, ButtonsRight, InFront, HomeShown, Valid,
     lists,
     task, home
<1>22. CASE Elapse
  BY <1>22, KeptRight DEF Elapse, lists, task, home, platform, InFront
<1>23. CASE Restart
  BY <1>23 DEF Restart, ProcessStarts, ButtonsInv, HomeShown
<1>24. CASE \E l \in Layers : SelectLayer(l)
  BY <1>24, KeptRight DEF SelectLayer, lists, task, home, platform, InFront
<1>25. CASE \E s \in Strategies : SelectSimStrategy(s)
  <2>1. RefreshTaskButtons
    BY <1>25 DEF SelectSimStrategy, ReloadSmsLayer
  <2> QED BY <2>1, RefreshRight DEF ButtonsInv
<1>26. ASSUME NEW k \in Kinds, NEW i \in 1 .. MaxItems[k],
             RequireSend(k, i) \/ CloneItem(k, i) \/ EraseItem(k, i)
       PROVE  ButtonsInv'
  BY <1>26, ListRight
<1>27. ASSUME NEW k \in Kinds, NEW i \in 1 .. MaxItems[k], OpenEditor(k, i)
       PROVE  ButtonsInv'
  BY <1>27 DEF OpenEditor, ButtonsInv, HomeShown, Editor
<1>28. CASE \E g \in Groups : SavePerson(g)
  BY <1>28 DEF SavePerson, ButtonsInv, HomeShown
<1>29. ASSUME NEW k \in Kinds, NEW item \in Items(k), SaveItem(k, item)
       PROVE  ButtonsInv'
  BY <1>29 DEF SaveItem, ButtonsInv, HomeShown
<1>30. ASSUME NEW k \in Kinds, NEW content \in Content(k), NEW ok \in BOOLEAN, Download(k, content, ok)
       PROVE  ButtonsInv'
  BY <1>30 DEF Download, ButtonsInv, HomeShown
<1>40. CASE SaveSetting
  BY <1>40, KeptRight DEF SaveSetting, lists, task, home, platform, InFront
<1>41. CASE FinishPreferences
  BY <1>41, KeptRight DEF FinishPreferences, lists, task, home, platform, InFront
<1>42. CASE SmsCounted
  BY <1>42, SmsCountedRight
<1>43. CASE ClearCallbacks
  BY <1>43, KeptRight DEF ClearCallbacks, lists, task, home, platform, InFront
<1>44. CASE DidEnterForeground
  BY <1>44 DEF DidEnterForeground, ButtonsInv
<1>45. CASE HandleBackground
  BY <1>45, KeptRight DEF HandleBackground, lists, task, home, platform, InFront
<1>46. CASE DidBackgroundEarly
  BY <1>46, KeptRight DEF DidBackgroundEarly, lists, task, home, platform, InFront
<1>47. CASE BackgroundDisconnect
  BY <1>47, KeptRight DEF BackgroundDisconnect, lists, task, home, platform, InFront
<1>48. CASE BackgroundHandled
  BY <1>48, KeptRight DEF BackgroundHandled, Iterate, lists, task, home, platform, InFront
<1>31. CASE UNCHANGED vars
  BY <1>31, KeptRight DEF vars, lists, task, home, platform, InFront
<1> QED
  BY <1>1, <1>2, <1>3, <1>4, <1>5, <1>6, <1>7, <1>8, <1>9, <1>10, <1>11, <1>12, <1>13,
     <1>14, <1>15, <1>16, <1>17, <1>18, <1>19, <1>20, <1>21, <1>22, <1>23, <1>24, <1>25,
     <1>26, <1>27, <1>28, <1>29, <1>30, <1>31, <1>40, <1>41, <1>42, <1>43, <1>44,
     <1>45, <1>46, <1>47, <1>48
     DEF Next, User, MainThread, Continue, AppEvents, EventContinues

(* The home screen offers to start, stop and reset exactly what the task   *)
(* can do, though the buttons are set by a dozen handlers and not computed *)
(* when they are clicked (did_refresh_task_buttons).                       *)
THEOREM ButtonsSafety == Spec => []ButtonsFresh
<1> DEFINE Right == alive => ButtonsInv
<1>1. Init => Right
  BY DEF Init, ButtonsInv, HomeShown
<1>2. ASSUME RaceInv, Right, [Next]_vars PROVE Right'
  <2>1. CASE alive
    BY <1>2, <2>1, ButtonsStep DEF RaceInv
  <2>2. CASE Restart
    BY <2>2 DEF Restart, ProcessStarts, ButtonsInv, HomeShown
  <2>3. CASE ~alive /\ ~Restart
    <3>1. alive' = alive
      BY <1>2, <2>3, DeadStep
    <3> QED BY <2>3, <3>1
  <2> QED BY <2>1, <2>2, <2>3
<1>3. RaceInv /\ Right => ButtonsFresh
  BY DEF RaceInv, LivingInv, HomeInv, ButtonsInv, InFront, ButtonsRight, ButtonsFresh
<1>4. RaceInv /\ Right /\ [Next]_vars => Right'
  BY <1>2
<1> QED BY RaceInvariance, <1>1, <1>3, <1>4, PTL DEF Spec
=============================================================================
