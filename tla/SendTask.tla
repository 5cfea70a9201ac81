------------------------------ MODULE SendTask -------------------------------
(***************************************************************************)
(* The send task of the robot with everything that touches it: the home    *)
(* screen and the editors it opens (home.cpp, the loop of main.cpp), the   *)
(* once-a-second timer in the foreground and the background handler that   *)
(* replaces it, the application events that switch between the two on a    *)
(* thread of their own, the preferences and the .pb files, and the death   *)
(* and restart of the process between any two steps.  Every file is        *)
(* truncated in one step and filled in a later one.                        *)
(*                                                                         *)
(* Time is abstracted to one bit, `due': has the interval passed since the *)
(* last message?  A VALIDATE whose condition is false throws out of the    *)
(* program's main loop: the process is no longer alive, and `failed'       *)
(* remembers which assertion it was.                                       *)
(***************************************************************************)
EXTENDS SendQueue, FiniteSets

CONSTANTS
  SimSlots,            \* slots of the SIM cards found at startup
  MaxItems,            \* bounds: groups, and templates, in a list
  MaxCrashes,          \* bound: restarts of a living process
  ConcurrentAppEvents, \* are application events delivered on another thread?
  EagerUser            \* may the user start the task before the first tick
                       \* after a return to the foreground?

ASSUME TaskAssumption ==
  /\ SimSlots \subseteq {0, 1}
  /\ MaxItems \in [Kinds -> Nat] /\ MaxCrashes \in Nat
  /\ ConcurrentAppEvents \in BOOLEAN /\ EagerUser \in BOOLEAN

VARIABLES
  file,           \* contacts.pb and templates.pb
  prefs,          \* the preferences "sim" and "next_send_at"
  memory,         \* contacts_ and templates_
  strategy,       \* send_info_.sim_strategy
  lastUseSlot,    \* send_info_.last_use_slot, never initialised
  records,        \* send_records_
  running,        \* send_info_.running
  nextSendAt,     \* send_info_.next_send_at, an index from 0
  due,            \* interval elapsed since send_info_.last_send_ticks
  screen,         \* which dialog is shown; home_ is set iff it is "home"
  layer,          \* the layer of the home screen
  reloadSms,      \* reload_sms_layer_
  rows,           \* rows of the history list
  runButton,      \* can the run button be clicked?
  resetButton,    \* can the reset button be clicked?
  edit,           \* locals of the editor branch of do_gameloop
  foreground,     \* foreground_
  timer,          \* send_timer_.valid()
  callback,       \* is did_background in background_callbacks_?
  dangling,       \* was that map cleared under the handler that walks it?
  audioLock,      \* is background_persist_xmit_audio_ held?
  requireRefresh, \* require_refresh_history_
  main,           \* what the main thread is in the middle of
  app,            \* where the application event thread is
  alive,          \* does the process run?
  failed,         \* assertions this process found false
  crashes         \* restarts so far

disk == <<file, prefs>>
lists == <<memory, strategy, lastUseSlot>>
task == <<records, running, nextSendAt, due>>
home == <<layer, reloadSms, rows, runButton, resetButton>>
platform == <<foreground, timer, callback, dangling, audioLock, requireRefresh>>
process == <<alive, failed>>

vars == <<disk, lists, task, home, screen, edit, platform, main, app, process,
          crashes>>

(* The layers of the home screen that have a part in this.                 *)
Layers == {"sms", "group", "template"}
LayerOf(k) == IF k = "contacts" THEN "group" ELSE "template"
Editor(k) == IF k = "contacts" THEN "edit_group" ELSE "edit_template"
Editors == {"edit_group", "edit_template"}

(* Where the main thread can be in the middle of a handler: a record is    *)
(* with the modem; it is counted and the preferences are being written;    *)
(* they are written for some other reason; anywhere in handle_background.  *)
Sending == {"sent_by_timer", "sent_in_background"}
Counting == {"counted_by_timer", "counted_in_background"}
Saving == {"settings", "loading"}
Handling == {"handling", "sent_in_background", "counted_in_background",
             "returning", "erasing"}

(* What a process reads from a preferences file that was truncated and not *)
(* written.                                                                *)
NoPrefs == [sim |-> "none", nextSendAt |-> 0]

Edits == [at : Nat \ {0}, readOnly : BOOLEAN, changed : BOOLEAN]
NoEdit == [at |-> 1, readOnly |-> FALSE, changed |-> FALSE]

Valid == strategy # "none"

(* Mutant: a task that is stopped half-way can be edited.                  *)
CanEditPaused == ~running
CanEdit == ~running /\ nextSendAt = 0

HomeShown == screen = "home"

(* The main thread takes the next event: from the user, while the app is   *)
(* in the foreground or, when events come on another thread, on its way to *)
(* the background.                                                         *)
UserReady ==
  /\ alive /\ main = "idle"
  /\ \/ app = "foreground"
     \/ ConcurrentAppEvents /\ app \in {"timer_removed", "connected"}

AtHome(l) == UserReady /\ HomeShown /\ layer = l

-----------------------------------------------------------------------------
(* VALIDATE                                                                *)

Broken(assertion, holds) == IF holds THEN {} ELSE {assertion}

Asserts(broken) ==
  /\ failed' = failed \cup broken
  /\ alive' = (broken = {})

-----------------------------------------------------------------------------
(* Parts of handlers                                                       *)

(* Mutant: the run button stays usable after the last record.              *)
RefreshRunButtonOnly ==
  /\ runButton' = (strategy' # "none" /\ Ready(memory'))
  /\ resetButton' = (runButton' /\ ~running' /\ nextSendAt' # 0)

(* did_refresh_task_buttons                                                *)
RefreshTaskButtons ==
  LET usable == strategy' # "none" /\ Ready(memory')
  IN  /\ runButton' = (usable /\ (running' \/ nextSendAt' # Len(records')))
      /\ resetButton' = (usable /\ ~running' /\ nextSendAt' # 0)

(* generate_send_queue                                                     *)
GenerateSendQueue ==
  /\ Asserts(Broken("generate", CanEdit))
  /\ records' = Generated(memory', strategy', lastUseSlot)

(* reload_sms_layer: new queue, buttons and history                        *)
ReloadSmsLayer ==
  /\ GenerateSendQueue
  /\ RefreshTaskButtons
  /\ rows' = IF strategy' # "none" THEN Len(records') ELSE 0

(* write_pb starts: the file is truncated; FinishWrite fills it.           *)
WritePb(k) ==
  /\ file' = [file EXCEPT ![k] = <<>>]
  /\ main' = k

FinishWrite ==
  /\ alive /\ main \in Kinds
  /\ file' = [file EXCEPT ![main] = memory[main]]
  /\ main' = "idle"
  /\ UNCHANGED <<prefs, lists, task, home, screen, edit, platform, app,
                 process, crashes>>

(* preferences::write_preferences starts: write_file truncates the file,   *)
(* FinishPreferences fills it.  What a handler does after it in memory is  *)
(* seen by the main thread only, and is part of its first step.            *)
WritePreferences ==
  /\ prefs' = NoPrefs
  /\ main' = "settings"

SavePosition(at) == prefs' = [sim |-> strategy, nextSendAt |-> at]

FinishPreferences ==
  /\ alive /\ main \in Saving
  /\ SavePosition(nextSendAt)
  /\ main' = "idle"
  /\ UNCHANGED <<file, lists, task, home, screen, edit, platform, app,
                 process, crashes>>

(* The home dialog is destroyed, and its members with it.                  *)
HomeClosed ==
  /\ layer' = "sms" /\ rows' = 0
  /\ reloadSms' = FALSE /\ runButton' = FALSE /\ resetButton' = FALSE

-----------------------------------------------------------------------------
(* The home screen                                                         *)

(* thome's constructor and pre_show.  Which layer it opens on depends on   *)
(* the dialog just closed and on the login state; any is allowed here.     *)
ShowHome ==
  /\ UserReady /\ screen = "none"
  /\ screen' = "home"
  /\ layer' \in Layers
  /\ reloadSms' = FALSE
  /\ rows' = IF Valid THEN Len(records) ELSE 0
  /\ UNCHANGED <<disk, lists, task, edit, platform, main, app, process, crashes>>
  /\ RefreshTaskButtons

(* did_body_changed, to a layer with nothing pending                       *)
SelectLayer(l) ==
  /\ UserReady /\ HomeShown /\ layer # l
  /\ ~(l = "sms" /\ reloadSms)
  /\ layer' = l
  /\ UNCHANGED <<disk, lists, task, reloadSms, rows, runButton, resetButton,
                 screen, edit, platform, main, app, process, crashes>>

(* did_body_changed to the SMS layer after the first group or template     *)
(* was replaced or erased                                                  *)
SelectSmsLayerReload ==
  /\ UserReady /\ HomeShown /\ layer # "sms" /\ reloadSms
  /\ layer' = "sms"
  /\ reloadSms' = FALSE
  /\ UNCHANGED <<disk, lists, running, nextSendAt, due, screen, edit, platform,
                 main, app, crashes>>
  /\ ReloadSmsLayer

SimOptions ==
  {s \in {"sim0", "sim1", "alternate"} :
     /\ s = "sim0" => 0 \in SimSlots
     /\ s = "sim1" => 1 \in SimSlots
     /\ s = "alternate" => Cardinality(SimSlots) = 2}

SelectSimStrategy(s) ==
  /\ AtHome("sms") /\ CanEdit
  /\ s \in SimOptions \ {strategy}
  /\ WritePreferences
  /\ strategy' = s
  /\ UNCHANGED <<file, memory, lastUseSlot, running, nextSendAt, due, layer,
                 reloadSms, screen, edit, platform, app, crashes>>
  /\ ReloadSmsLayer

(* A new interval may make the next message due at once, or later.         *)
SelectInterval ==
  /\ AtHome("sms") /\ CanEdit
  /\ due' \in BOOLEAN
  /\ WritePreferences
  /\ UNCHANGED <<file, lists, running, nextSendAt, layer, reloadSms, screen,
                 edit, platform, app, crashes>>
  /\ ReloadSmsLayer

(* A setting that is not the task's, the address of the server or the name *)
(* of the user, is saved: the same file is written.                        *)
SaveSetting ==
  /\ UserReady /\ screen \in {"home", "none"}
  /\ WritePreferences
  /\ UNCHANGED <<file, lists, task, home, screen, edit, platform, app, process,
                 crashes>>

(* run_task, the user's click on "start": first the assertions, ...        *)
RunTask ==
  /\ AtHome("sms") /\ runButton /\ ~running
  /\ EagerUser \/ ~requireRefresh
  /\ Asserts(Broken("run_task", timer /\ foreground /\ Valid /\ records # <<>>))
  /\ main' = "starting"
  /\ UNCHANGED <<disk, lists, task, home, screen, edit, platform, app, crashes>>

(* ... then the flag and the buttons.                                      *)
RunTaskStarted ==
  /\ alive /\ main = "starting"
  /\ running' = TRUE
  /\ main' = "idle"
  /\ UNCHANGED <<disk, lists, records, nextSendAt, due, layer, reloadSms, rows,
                 screen, edit, platform, app, process, crashes>>
  /\ RefreshTaskButtons

(* run_task, the click on "stop"                                           *)
StopTask ==
  /\ AtHome("sms") /\ runButton /\ running
  /\ running' = FALSE
  /\ UNCHANGED <<disk, lists, records, nextSendAt, due, layer, reloadSms, rows,
                 screen, edit, platform, main, app, process, crashes>>
  /\ RefreshTaskButtons

(* Mutant: the position is reset in memory only.                           *)
ResetTaskUnsaved ==
  /\ AtHome("sms") /\ resetButton
  /\ nextSendAt' = 0
  /\ resetButton' = FALSE /\ runButton' = TRUE
  /\ UNCHANGED <<disk, lists, records, running, due, layer, reloadSms, rows,
                 screen, edit, platform, main, app, process, crashes>>

ResetTask ==
  /\ AtHome("sms") /\ resetButton
  /\ Asserts(Broken("reset_task", ~running /\ Valid /\ nextSendAt # 0)
             \cup Broken("refresh_queue_list", rows = Len(records)))
  /\ nextSendAt' = 0
  /\ WritePreferences
  /\ resetButton' = FALSE
  /\ runButton' = TRUE
  /\ UNCHANGED <<file, lists, records, running, due, layer, reloadSms, rows,
                 screen, edit, platform, app, crashes>>

(* require_send_group and require_send_template; the button is only shown  *)
(* on rows other than the first, and while the lists can be edited         *)
RequireSend(k, i) ==
  /\ AtHome(LayerOf(k)) /\ CanEdit
  /\ i \in 2 .. Len(memory[k])
  /\ memory' = [memory EXCEPT ![k] = MoveToFront(@, i)]
  /\ reloadSms' = TRUE
  /\ WritePb(k)
  /\ UNCHANGED <<prefs, strategy, lastUseSlot, task, layer, rows, runButton,
                 resetButton, screen, edit, platform, app, process, crashes>>

(* clone_group and clone_template                                          *)
CloneItem(k, i) ==
  /\ AtHome(LayerOf(k))
  /\ i \in 1 .. Len(memory[k]) /\ Len(memory[k]) < MaxItems[k]
  /\ memory' = [memory EXCEPT ![k] = Append(@, @[i])]
  /\ WritePb(k)
  /\ UNCHANGED <<prefs, strategy, lastUseSlot, task, home, screen, edit,
                 platform, app, process, crashes>>

(* Mutant: the first row can be erased at any time.                        *)
EraseAnyItem(k, i) ==
  /\ AtHome(LayerOf(k)) /\ i \in 1 .. Len(memory[k])
  /\ memory' = [memory EXCEPT ![k] = Without(@, i)]
  /\ reloadSms' = (reloadSms \/ i = 1)
  /\ WritePb(k)
  /\ UNCHANGED <<prefs, strategy, lastUseSlot, task, layer, rows, runButton,
                 resetButton, screen, edit, platform, app, process, crashes>>

(* erase_group and erase_template; the button is hidden on the first row   *)
(* while the lists cannot be edited                                        *)
EraseItem(k, i) ==
  /\ AtHome(LayerOf(k))
  /\ i \in 1 .. Len(memory[k])
  /\ i # 1 \/ CanEdit
  /\ memory' = [memory EXCEPT ![k] = Without(@, i)]
  /\ reloadSms' = (reloadSms \/ i = 1)
  /\ WritePb(k)
  /\ UNCHANGED <<prefs, strategy, lastUseSlot, task, layer, rows, runButton,
                 resetButton, screen, edit, platform, app, process, crashes>>

(* Login, logout, change of language, the escape key: the home dialog is   *)
(* closed and the loop of do_gameloop will show a new one.                 *)
LeaveHome ==
  /\ UserReady /\ HomeShown
  /\ screen' = "none"
  /\ HomeClosed
  /\ UNCHANGED <<disk, lists, task, edit, platform, main, app, process, crashes>>

-----------------------------------------------------------------------------
(* The editors and the notification dialog, branches of do_gameloop        *)

(* Mutant: the editors are never opened read-only.                         *)
OpenEditorWritable(k, i) ==
  /\ AtHome(LayerOf(k))
  /\ i \in 1 .. Len(memory[k]) + 1 /\ i <= MaxItems[k]
  /\ screen' = Editor(k)
  /\ edit' = [NoEdit EXCEPT !.at = i]
  /\ HomeClosed
  /\ UNCHANGED <<disk, lists, task, platform, main, app, process, crashes>>

(* new_group, did_edit_group, new_template, did_edit_template and the      *)
(* first lines of the branches they lead to                                *)
OpenEditor(k, i) ==
  /\ AtHome(LayerOf(k))
  /\ i \in 1 .. Len(memory[k]) + 1 /\ i <= MaxItems[k]
  /\ screen' = Editor(k)
  /\ edit' = [at |-> i,
              readOnly |-> i <= Len(memory[k]) /\ ~CanEdit /\ i = 1,
              changed |-> FALSE]
  /\ HomeClosed
  /\ UNCHANGED <<disk, lists, task, platform, main, app, process, crashes>>

Regenerate(wanted) ==
  IF wanted
    THEN GenerateSendQueue
    ELSE UNCHANGED <<records, process>>

(* A person is saved inside the group editor: the group is stored and      *)
(* written at once, the queue is left as it is.                            *)
SavePerson(g) ==
  /\ UserReady /\ screen = "edit_group" /\ ~edit.readOnly
  /\ edit.at <= Len(memory["contacts"]) => g # memory["contacts"][edit.at]
  /\ memory' = [memory EXCEPT !["contacts"] = Store(@, edit.at, g)]
  /\ edit' = [edit EXCEPT !.changed = TRUE]
  /\ WritePb("contacts")
  /\ UNCHANGED <<prefs, strategy, lastUseSlot, task, home, screen, platform,
                 app, process, crashes>>

(* Does saving `item' change the list of kind k?                           *)
Differs(k, item) ==
  edit.at > Len(memory[k]) \/ memory[k][edit.at] # item

(* An editor is closed with OK: the working copy is stored if it differs,  *)
(* the queue is regenerated if it was made from the edited item.           *)
SaveItem(k, item) ==
  /\ UserReady /\ screen = Editor(k)
  /\ edit.readOnly => ~Differs(k, item)
  /\ screen' = "none"
  /\ edit' = NoEdit
  /\ memory' = IF Differs(k, item)
                 THEN [memory EXCEPT ![k] = Store(@, edit.at, item)]
                 ELSE memory
  /\ UNCHANGED <<prefs, strategy, lastUseSlot, running, nextSendAt, due, home,
                 platform, app, crashes>>
  /\ Regenerate((Differs(k, item) \/ edit.changed) /\ Valid /\ edit.at = 1)
  /\ IF Differs(k, item) THEN WritePb(k) ELSE UNCHANGED <<file, main>>

(* The escape key, or the cancel button of the template editor             *)
CancelEditor ==
  /\ UserReady /\ screen \in Editors
  /\ screen' = "none"
  /\ edit' = NoEdit
  /\ UNCHANGED <<disk, lists, task, home, platform, main, app, process, crashes>>

OpenNotification ==
  /\ UserReady /\ HomeShown
  /\ screen' = "notification"
  /\ HomeClosed
  /\ UNCHANGED <<disk, lists, task, edit, platform, main, app, process, crashes>>

(* tnotification::handle for a download row: the file is replaced by what  *)
(* the server holds, the memory only if the answer says all went well.  An *)
(* empty content is also what a death after the truncation leaves.         *)
Download(k, content, ok) ==
  /\ UserReady /\ screen = "notification" /\ CanEdit
  /\ file' = [file EXCEPT ![k] = content]
  /\ memory' = IF ok THEN [memory EXCEPT ![k] = content] ELSE memory
  /\ UNCHANGED <<prefs, strategy, lastUseSlot, task, home, screen, edit,
                 platform, main, app, process, crashes>>

CloseNotification ==
  /\ UserReady /\ screen = "notification"
  /\ screen' = "none"
  /\ UNCHANGED <<disk, lists, running, nextSendAt, due, home, edit, platform,
                 main, app, crashes>>
  /\ Regenerate(Valid /\ CanEdit)

-----------------------------------------------------------------------------
(* Sending                                                                 *)

Elapse ==
  /\ alive /\ running /\ ~due
  /\ due' = TRUE
  /\ UNCHANGED <<disk, lists, records, running, nextSendAt, home, screen, edit,
                 platform, main, app, process, crashes>>

(* The end of send_timer_handler: the first tick after a return to the     *)
(* foreground brings buttons and history up to date.                       *)
RefreshHistory ==
  /\ RefreshTaskButtons
  /\ requireRefresh' = FALSE

(* send_timer_handler when nothing is to be sent                           *)
SendTimerRefresh ==
  /\ alive /\ main = "idle" /\ timer /\ app = "foreground"
  /\ ~(running /\ due)
  /\ HomeShown /\ requireRefresh
  /\ Asserts(Broken("refresh_queue_list", rows = Len(records)))
  /\ UNCHANGED <<disk, lists, task, layer, reloadSms, rows, screen, edit,
                 foreground, timer, callback, dangling, audioLock, main, app, crashes>>
  /\ RefreshHistory

(* send_sms up to the call of sms_smart_.send, which hands the record over *)
HandOver(caller) ==
  /\ running /\ due
  /\ main' = caller
  /\ UNCHANGED <<disk, lists, task, home, screen, edit, platform, app, crashes>>

SendTimerHandler ==
  /\ alive /\ main = "idle" /\ timer /\ app = "foreground"
  /\ HandOver("sent_by_timer")
  /\ Asserts(Broken("send_sms", nextSendAt < Len(records)))

(* send_sms after that call, up to the truncation of the preferences.  The *)
(* home screen is told of the record in the foreground only.               *)
SmsSent ==
  /\ alive /\ main \in Sending
  /\ due' = FALSE
  /\ prefs' = NoPrefs
  /\ main' = IF main = "sent_by_timer" THEN "counted_by_timer"
                                       ELSE "counted_in_background"
  /\ Asserts(Broken("sms_sent", HomeShown /\ foreground => nextSendAt < rows))
  /\ UNCHANGED <<file, lists, records, running, nextSendAt, home, screen, edit,
                 platform, app, crashes>>

(* The rest of it: the preferences are written and the task ends with its  *)
(* last record.  The position, which is counted up just before the file is *)
(* truncated, is counted up here: only the main thread reads it.  A timer  *)
(* handler that finds the refresh requested makes up for what the home     *)
(* screen was not told.                                                    *)
SmsCounted ==
  LET finished == nextSendAt + 1 = Len(records)
      refresh  == main = "counted_by_timer" /\ HomeShown /\ requireRefresh
  IN  /\ alive /\ main \in Counting
      /\ nextSendAt' = nextSendAt + 1
      /\ SavePosition(nextSendAt + 1)
      /\ running' = ~finished
      /\ main' = IF main = "counted_by_timer" THEN "idle" ELSE "returning"
      /\ Asserts(Broken("stop_task", running)
                 \cup Broken("refresh_queue_list",
                             refresh => rows = Len(records)))
      /\ UNCHANGED <<file, lists, records, due, layer, reloadSms, rows, screen, edit,
                     foreground, timer, callback, dangling, audioLock, app, crashes>>
      /\ requireRefresh' = (requireRefresh /\ ~refresh)
      /\ IF refresh \/ (finished /\ HomeShown /\ foreground)
           THEN RefreshTaskButtons
           ELSE UNCHANGED <<runButton, resetButton>>

-----------------------------------------------------------------------------
(* Application events                                                      *)

(* SDL_APP_DIDENTERBACKGROUND.  First the timer is removed, ...  (Events   *)
(* before load_pb is through are left out.)                                *)
EnterBackground ==
  /\ alive /\ app = "foreground" /\ main # "loading"
  /\ ConcurrentAppEvents \/ main = "idle"
  /\ Asserts(Broken("did_enter_background", timer))
  /\ timer' = FALSE
  /\ app' = "timer_removed"
  /\ UNCHANGED <<disk, lists, task, home, screen, edit, foreground, callback,
                 dangling, audioLock, requireRefresh, main, crashes>>

(* Mutant: did_background is not registered.                               *)
BackgroundUnconnected ==
  /\ alive /\ app = "timer_removed"
  /\ app' = "connected"
  /\ UNCHANGED <<disk, lists, task, home, screen, edit, platform, main, process,
                 crashes>>

(* ... then did_background is registered if the task runs, ...             *)
BackgroundConnect ==
  /\ alive /\ app = "timer_removed"
  /\ callback' = (callback \/ running)
  /\ app' = "connected"
  /\ UNCHANGED <<disk, lists, task, home, screen, edit, foreground, timer,
                 dangling, audioLock, requireRefresh, main, process, crashes>>

(* ... and the persistent audio that keeps the process running is started. *)
DidEnterBackground ==
  /\ alive /\ app = "connected"
  /\ foreground' = FALSE
  /\ Asserts(Broken("audio_free", ~audioLock))
  /\ audioLock' = callback
  /\ app' = "background"
  /\ UNCHANGED <<disk, lists, task, home, screen, edit, timer, callback,
                 dangling, requireRefresh, main, crashes>>

(* SDL_APP_DIDENTERFOREGROUND.  First the callbacks are cleared, without   *)
(* regard to a handler that may be walking through them, ...               *)
ClearCallbacks ==
  /\ alive /\ app = "background"
  /\ ConcurrentAppEvents \/ main = "idle"
  /\ Asserts(Broken("audio_held", audioLock <=> callback))
  /\ audioLock' = FALSE
  /\ callback' = FALSE
  /\ dangling' = (dangling \/ (callback /\ main \in Handling))
  /\ app' = "cleared"
  /\ UNCHANGED <<disk, lists, task, home, screen, edit, foreground, timer,
                 requireRefresh, main, crashes>>

(* Mutants: nobody is told that the screen is out of date; the timer is    *)
(* not started again.                                                      *)
ReturnUnrefreshed ==
  /\ alive /\ app = "cleared"
  /\ timer' = TRUE
  /\ app' = "timer_added"
  /\ UNCHANGED <<disk, lists, task, home, screen, edit, foreground, callback,
                 dangling, audioLock, requireRefresh, main, process, crashes>>
ReturnUntimed ==
  /\ alive /\ app = "cleared"
  /\ requireRefresh' = TRUE
  /\ app' = "timer_added"
  /\ UNCHANGED <<disk, lists, task, home, screen, edit, foreground, timer, callback,
                 dangling, audioLock, main, process, crashes>>

(* ... then the timer is added and a refresh of the screen requested, ...  *)
DidEnterForeground ==
  /\ alive /\ app = "cleared"
  /\ Asserts(Broken("did_enter_foreground", ~timer))
  /\ timer' = TRUE
  /\ requireRefresh' = TRUE
  /\ app' = "timer_added"
  /\ UNCHANGED <<disk, lists, task, home, screen, edit, foreground, callback,
                 dangling, audioLock, main, crashes>>

(* ... and the main thread may go on.                                      *)
EnterForeground ==
  /\ alive /\ app = "timer_added"
  /\ foreground' = TRUE
  /\ app' = "foreground"
  /\ UNCHANGED <<disk, lists, task, home, screen, edit, timer, callback,
                 dangling, audioLock, requireRefresh, main, process, crashes>>

-----------------------------------------------------------------------------
(* handle_background.  SDL has the main thread call it, once a second while *)
(* that thread waits for the foreground.                                   *)

HandleBackground ==
  /\ alive /\ main = "idle" /\ app = "background" /\ callback
  /\ main' = "handling"
  /\ UNCHANGED <<disk, lists, task, home, screen, edit, platform, app, process,
                 crashes>>

(* did_background: a running task sends when the interval has passed, ...  *)
DidBackground ==
  /\ alive /\ main = "handling"
  /\ HandOver("sent_in_background")
  /\ Asserts(Broken("did_background", ~timer)
             \cup Broken("send_sms", nextSendAt < Len(records)))

(* ... waits otherwise, ...                                                *)
DidBackgroundEarly ==
  /\ alive /\ main = "handling" /\ running /\ ~due
  /\ main' = "returning"
  /\ Asserts(Broken("did_background", ~timer))
  /\ UNCHANGED <<disk, lists, task, home, screen, edit, platform, app, crashes>>

(* ... and one that has ended is to be erased: background_disconnect_th    *)
(* gives the audio back with the last callback.                            *)
BackgroundDisconnect ==
  /\ alive /\ main = "handling" /\ ~running
  /\ main' = "erasing"
  /\ Asserts(Broken("disconnect", foreground \/ audioLock))
  /\ audioLock' = (audioLock /\ (foreground \/ ~callback))
  /\ UNCHANGED <<disk, lists, task, home, screen, edit, foreground, timer,
                 callback, dangling, requireRefresh, app, crashes>>

(* The loop of handle_background moves its iterator on.  If the map was    *)
(* cleared meanwhile the iterator points nowhere: the loop may happen to   *)
(* end, or the process dies.                                               *)
Iterate ==
  /\ main' = "idle" /\ dangling' = FALSE
  /\ \/ Asserts({})
     \/ dangling /\ Asserts({"handle_background"})

BackgroundHandled ==
  /\ alive /\ main = "returning"
  /\ Iterate
  /\ UNCHANGED <<disk, lists, task, home, screen, edit, foreground, timer,
                 callback, audioLock, requireRefresh, app, crashes>>

EraseCallback ==
  /\ alive /\ main = "erasing"
  /\ callback' = (callback /\ dangling)
  /\ Iterate
  /\ UNCHANGED <<disk, lists, task, home, screen, edit, foreground, timer,
                 audioLock, requireRefresh, app, crashes>>

-----------------------------------------------------------------------------
(* Death and restart                                                       *)

(* What a process starts with: members as constructed, the timer added by  *)
(* load_pb.  The constructor leaves last_use_slot as memory was.           *)
ProcessStarts ==
  /\ running' = FALSE /\ due' = FALSE
  /\ lastUseSlot' \in {0, 1}
  /\ screen' = "none" /\ edit' = NoEdit
  /\ HomeClosed
  /\ foreground' = TRUE /\ timer' = TRUE
  /\ callback' = FALSE /\ dangling' = FALSE
  /\ audioLock' = FALSE /\ requireRefresh' = FALSE
  /\ app' = "foreground" /\ alive' = TRUE

(* Mutants: the saved position is taken as it is; a finished run starts    *)
(* again from its first record.                                            *)
ResumedUnchecked(saved, queue) == saved
ResumedShort(saved, queue) == IF saved < Len(queue) THEN saved ELSE 0

(* load_pb: lists from the files, the queue made anew, the position from   *)
(* the preferences unless it lies beyond that queue.                       *)
ResumedAt(saved, queue) == IF saved <= Len(queue) THEN saved ELSE 0

(* The process is killed between two steps, or has thrown; it starts       *)
(* again.  A position that had to be corrected is written.                 *)
Restart ==
  /\ ~alive \/ crashes < MaxCrashes
  /\ crashes' = IF alive THEN crashes + 1 ELSE crashes
  /\ memory' = file
  /\ strategy' = prefs.sim
  /\ ProcessStarts
  /\ records' = Generated(memory', strategy', lastUseSlot')
  /\ nextSendAt' = IF strategy' = "none" THEN 0
                   ELSE ResumedAt(prefs.nextSendAt, records')
  /\ IF nextSendAt' = prefs.nextSendAt
       THEN main' = "idle" /\ UNCHANGED prefs
       ELSE main' = "loading" /\ prefs' = NoPrefs
  /\ failed' = {}
  /\ UNCHANGED file

(* The first start after the installation: no files, default preferences.  *)
Init ==
  /\ file = NoItems
  /\ prefs = NoPrefs
  /\ memory = NoItems /\ strategy = "none"
  /\ lastUseSlot \in {0, 1}
  /\ records = <<>> /\ nextSendAt = 0 /\ running = FALSE /\ due = FALSE
  /\ screen = "none" /\ edit = NoEdit /\ layer = "sms" /\ rows = 0
  /\ reloadSms = FALSE /\ runButton = FALSE /\ resetButton = FALSE
  /\ foreground = TRUE /\ timer = TRUE
  /\ callback = FALSE /\ dangling = FALSE
  /\ audioLock = FALSE /\ requireRefresh = FALSE
  /\ main = "idle" /\ app = "foreground"
  /\ alive = TRUE /\ failed = {} /\ crashes = 0

-----------------------------------------------------------------------------

Content(k) == UNION {[1 .. n -> Items(k)] : n \in 0 .. MaxItems[k]}

User ==
  \/ ShowHome
  \/ \E l \in Layers : SelectLayer(l)
  \/ SelectSmsLayerReload
  \/ \E s \in Strategies : SelectSimStrategy(s)
  \/ SelectInterval \/ SaveSetting
  \/ RunTask \/ StopTask \/ ResetTask
  \/ \E k \in Kinds : \E i \in 1 .. MaxItems[k] :
       RequireSend(k, i) \/ CloneItem(k, i) \/ EraseItem(k, i) \/ OpenEditor(k, i)
  \/ \E g \in Groups : SavePerson(g)
  \/ \E k \in Kinds : \E item \in Items(k) : SaveItem(k, item)
  \/ CancelEditor
  \/ LeaveHome
  \/ OpenNotification
  \/ \E k \in Kinds : \E content \in Content(k), ok \in BOOLEAN :
       Download(k, content, ok)
  \/ CloseNotification

(* What the main thread has begun                                          *)
Continue ==
  \/ FinishWrite \/ FinishPreferences \/ RunTaskStarted \/ SmsSent \/ SmsCounted
  \/ DidBackground \/ DidBackgroundEarly \/ BackgroundDisconnect
  \/ BackgroundHandled \/ EraseCallback

MainThread ==
  Continue \/ SendTimerRefresh \/ SendTimerHandler \/ HandleBackground

(* What the event thread has begun                                         *)
EventContinues ==
  BackgroundConnect \/ DidEnterBackground \/ DidEnterForeground \/ EnterForeground

AppEvents == EnterBackground \/ ClearCallbacks \/ EventContinues

Next == User \/ MainThread \/ AppEvents \/ Elapse \/ Restart

Spec == Init /\ [][Next]_vars

(* The main thread and the event thread finish what they began; time       *)
(* passes; a handler that is called every second, the timer's in the       *)
(* foreground or the background's, is called again, however often the user *)
(* hides and shows the app or saves a list in between.                     *)
Fairness ==
  /\ WF_vars(Continue) /\ WF_vars(EventContinues)
  /\ WF_vars(Elapse)
  /\ SF_vars(SendTimerHandler \/ HandleBackground)

FairSpec == Spec /\ Fairness
-----------------------------------------------------------------------------
(* Properties                                                              *)

DataOK ==
  /\ file \in Lists /\ memory \in Lists
  /\ prefs \in [sim : Strategies, nextSendAt : Nat]
  /\ strategy \in Strategies /\ lastUseSlot \in {0, 1}
  /\ records \in Seq(Record) /\ nextSendAt \in Nat
  /\ screen \in {"none", "home", "notification"} \cup Editors
  /\ layer \in Layers /\ rows \in Nat /\ edit \in Edits
  /\ main \in {"idle", "starting"} \cup Kinds \cup Saving \cup Sending
             \cup Counting \cup Handling
  /\ app \in {"foreground", "timer_removed", "connected", "background",
              "cleared", "timer_added"}
  /\ crashes \in 0 .. MaxCrashes

FlagsOK ==
  /\ running \in BOOLEAN /\ due \in BOOLEAN
  /\ reloadSms \in BOOLEAN /\ runButton \in BOOLEAN /\ resetButton \in BOOLEAN
  /\ foreground \in BOOLEAN /\ timer \in BOOLEAN
  /\ callback \in BOOLEAN /\ dangling \in BOOLEAN
  /\ audioLock \in BOOLEAN /\ requireRefresh \in BOOLEAN /\ alive \in BOOLEAN

(* The types of all variables; in particular every record of the queue     *)
(* names one of the two SIM slots and a known receiver and template.       *)
TypeOK == DataOK /\ FlagsOK

(* Every VALIDATE on these paths holds: no order of clicks, ticks, events  *)
(* and restarts makes the program throw out of its main loop.              *)
AssertionsHold == failed = {}

(* With events on another thread and an eager user some of them can fail:  *)
(* those of run_task and send_sms by a click that the events or the last   *)
(* record overtook (the run eager_start shows one), the others when the    *)
(* app comes back to the foreground during a call of handle_background.    *)
(* The rest hold all the same.                                             *)
OnlyKnownFailures ==
  failed \subseteq {"run_task", "send_sms", "did_background", "disconnect",
                    "audio_held", "handle_background"}

(* The position never lies beyond the queue, although the two are changed  *)
(* by different handlers and only the position is saved (load_pb).         *)
PositionInBounds == alive => nextSendAt <= Len(records)

(* A running task always has a next record, and SIM strategy to send it:   *)
(* send_sms indexes the queue with the position (main.cpp:506).            *)
RunningInBounds == alive /\ running => Valid /\ nextSendAt < Len(records)

(* The preferences file holds the strategy and the position of the task,   *)
(* or, while the main thread is between truncating and filling it, neither *)
(* of them: a death at any point costs the count of one record or, in that *)
(* moment, both values; it never leaves a position without its strategy or *)
(* a position the task was not at (send_sms, reset_task, load_pb and the   *)
(* setters of game_config.cpp).                                            *)
PersistedPosition ==
  alive =>
    prefs = IF main \in Saving \cup Counting
              THEN NoPrefs
              ELSE [sim |-> strategy, nextSendAt |-> nextSendAt]

(* What the SMS layer offers is what the state allows, unless a refresh is *)
(* already asked for: the buttons are set by half a dozen handlers and not *)
(* computed when they are clicked (did_refresh_task_buttons).              *)
ButtonsFresh ==
  alive /\ HomeShown /\ layer = "sms" /\ foreground /\ ~requireRefresh =>
    LET usable == Valid /\ Ready(memory)
    IN  /\ runButton = (usable /\ (running \/ nextSendAt # Len(records)))
        /\ resetButton = (usable /\ ~running /\ nextSendAt # 0)

SameFirst(k) ==
  Len(memory[k]) > 0 => Len(memory'[k]) > 0 /\ memory'[k][1] = memory[k][1]

FirstItemsKept ==
  alive /\ alive' /\ crashes' = crashes /\ ~CanEdit =>
    records' = records /\ \A k \in Kinds : SameFirst(k)

(* While a run is not finished, or not reset, no step of the living        *)
(* process changes the queue or the group and template it was made from,   *)
(* whatever editor was open when it started (can_edit_contacts_or_templates). *)
TaskLocked == [][FirstItemsKept]_vars

(* A restart that finds a queue of the same length goes on where the run   *)
(* was, also when it was finished ("maybe equal", main.cpp:377).           *)
ResumesInPlace ==
  [][crashes' # crashes /\ Len(records') = Len(records) =>
       nextSendAt' = nextSendAt]_vars

Served ==
  app \in {"connected", "background"} /\ running =>
    callback /\ (app = "background" => audioLock)

(* A running task that handle_app_event has provided for stays provided    *)
(* for in the background, with did_background registered and the audio     *)
(* that keeps the process awake, whatever the main thread is in the middle *)
(* of: the one step after which nobody serves it is the end of a click on  *)
(* "start" that the event overtook (app_didenterbackground,                *)
(* handle_app_event, handle_background).                                   *)
ServedUntilStart == [][Served => Served' \/ main = "starting"]_vars

AtRest == main = "idle" /\ app \in {"foreground", "background"}

(* A task that is started ends, by its last record or by the user, in the  *)
(* foreground and in the background, on whatever thread the events come;   *)
(* or else the app is in the background with nobody to serve the task, and *)
(* how it gets there ServedUntilStart says (send_sms, did_background).     *)
(* The user may hide and show the app for ever, but not so that each event *)
(* catches the main thread in the middle of something.                     *)
RunEnds ==
  []<>AtRest =>
    ((alive /\ running) ~>
       (~(alive /\ running) \/ (app = "background" /\ ~callback)))

(* The task does what Campaign promises.                                   *)
Promise == INSTANCE Campaign WITH
  queue <- records, at <- nextSendAt, active <- running,
  handed <- main \in Sending \cup Counting, lives <- crashes
ImplementsCampaign == Promise!Spec

-----------------------------------------------------------------------------
(* Claims of the code's own texts that the runs refute                     *)

(* "Alternate use SIM1 and SIM2" (home.cpp:196): a queue of two or more    *)
(* messages uses both SIM cards.                                           *)
AlternateUsesBothSims ==
  strategy = "alternate" /\ Len(records) >= 2 =>
    {records[i].slot : i \in 1 .. Len(records)} = {0, 1}

(* The queue is generated from the first group and the first template      *)
(* (home.cpp:285): what a task sends is what they say when it is started.  *)
RunsCurrentQueue ==
  [][~running /\ running' => records = Generated(memory, strategy, lastUseSlot)]_vars

(* "app require insert callback in app_didenterbackground"                 *)
(* (base_instance.cpp:455): in the background a running task has its       *)
(* callback, and the audio that keeps the process awake.                   *)
BackgroundServed ==
  alive /\ app = "background" /\ running => callback /\ audioLock

(* The assertion of send_sms (main.cpp:505)                                *)
SendSmsAsserted == "send_sms" \notin failed
=============================================================================
