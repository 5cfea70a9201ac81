# A model of the SMS robot

TLA+ modules, TLC instances and TLAPS proofs for the program under
`src/smsrobot-src/smsrobot`: an application that sends a personalised text
message to every mobile number of a group, one after the other, at an interval,
in the foreground and in the background. Paths below are relative to that
directory.

## The system

| Part | State it keeps | Operations | Talks to |
|---|---|---|---|
| Send task (`smsrobot/main.cpp`, `game_config.hpp`) | `send_info_` (running, strategy, interval, `next_send_at`, ticks), `send_records_` | `generate_send_queue`, `run_task`, `send_sms`, `send_timer_handler`, `did_background`, `load_pb` | home screen (buttons, history), timer, background handler, preferences, modem |
| Home screen (`gui/dialogs/home.cpp`) | current layer, `reload_sms_layer_`, history rows, visibility of the run and reset buttons | choose SIM and interval, start, stop, reset; move to front, clone, erase, new, edit for groups and templates | send task by callback; `write_pb` |
| Editors (`edit_group`, `edit_person`, `edit_template`, `edit_field`, and the branches of `do_gameloop`) | a working copy, read-only flag, dirty flags | edit, save, cancel; a person is saved at once | lists, files, queue |
| Notification dialog (`notification.cpp`) | rows: upload or download | upload, download, jump to login | HTTP agent, files, lists |
| Lists and files (`main.cpp`: `load_pb`, `write_pb`) | `contacts_`, `templates_`; `contacts.pb`, `templates.pb` | load, truncate, write | everyone |
| Preferences (`game_config.cpp`) | `sim`, `interval`, `next_send_at`, account | get, set | send task, login |
| Application events (`librose/base_instance.cpp`) | `foreground_`, `background_callbacks_`, `background_persist_xmit_audio_` | enter background or foreground, `handle_background`, connect, disconnect | send task, SDL thread |
| Timers (`librose/gui/widgets/timer.cpp`) | map of timers, the executing id, whether its removal is postponed | add, remove, execute | SDL thread, event queue, owners |
| HTTP agent (`network.cpp`), session, login and registration dialogs | `current_user`: uid, session id, time stamps | login, logout, register, upload, download | server |
| Template text (`template_*` in `main.cpp`, `edit_template.cpp`) | none | text to markers and back, fill in a person | editor, queue |
| Modem bridge (`sms_smart_android.cpp`, `SmsSmart.java`) | SIM slots | send | Android |
| Lobby sockets, Bluetooth, OCR, GUI toolkit, vendored code | their own | | not used by the task |

What is hard here: two callers of `send_sms` (the timer and the background
handler) that must take over from each other; application events that the code
says come on another thread (`librose/base_instance.cpp:427`); a process that
may be killed between any two steps, with the position saved in one place and
the lists it refers to in another; a queue that is derived from the first group
and template and made anew in eight places under different conditions; buttons
and read-only flags that are computed at one moment and used at a later one.

What makes each part correct:

- send task: every record is handed over in order, one at a time, and counted
  before the next; the position stays within the queue; the queue of an
  unfinished run does not change; a restart goes on where the run was; a run
  ends;
- home screen: its buttons offer exactly what the task can do; the rows match
  the queue; what is locked for editing cannot be edited;
- editors: read-only if and only if the item is in use, until they are closed;
  a person is saved as shown, only with numbers that can be sent to, and at once;
  an erase button erases its own row;
- template text: an addressee receives what the text meant when it was saved, and
  the editor opens with that text;
- timers: an owner is called for the timer it holds now and for no other, a
  callback survives the removal of its own timer, a timer goes on;
- application events: a running task has one caller, never two, and in the
  background the process is kept awake; what the event thread has provided for
  stays provided for;
- files and preferences: the saved position is the position, or the file is being
  written; a file that was truncated and not written does no more harm than an empty
  list, or than preferences never set;
- synchronisation: no copy replaces a newer one, in either direction; what needs
  no notification is the same on both sides.

## Modules

- `SendQueue` - the lists and the pure operators on them: `Generated` is
  `generate_send_queue`, `Ready` is `group_and_template_ready`, `MoveToFront`,
  `Without` and `Store` are the list operations of the home screen and of
  `do_gameloop`. A group is the sequence of its numbers (`Mobiles`), a template
  matters by its message being empty or not, and a record keeps receiver, slot
  and template (these determine the text).
- `Campaign` - the abstract promise of a bulk send: a queue, the number of
  records counted, whether the task is active, whether a record has been handed
  over and not been counted, and the lives of the process. Only `Restart` may
  take the position back, and only to where it was or to the start.
- `SendTask` - the state machine. Each variable names the member it stands for;
  each action is one handler, with the assignments its callees make. It EXTENDS
  `SendQueue` and instantiates `Campaign` as `Promise` with the refinement
  mapping queue <- `records`, at <- `nextSendAt`, active <- `running`,
  handed <- (`main` is in the middle of `send_sms`: `Sending` or `Counting`),
  lives <- `crashes`.
- `Sync` - the account and the synchronisation of the two files: HTTP agent,
  notification dialog, login and registration, the login at startup, preferences
  in memory and in the file, with the server and another device around them. It is
  independent of `SendTask`, which has the consequences for the task (`Download`,
  `CloseNotification`): what either needs of the other is one nondeterministic step.
- `TimerPromise` - what the timers promise their owners: which id an owner holds,
  and that it is called only for that one.
- `Timers` - the map of timers, the SDL thread that looks an id up and pushes an
  event, the event queue and the owners on the main thread. It instantiates
  `TimerPromise` with held <- `timerId`, calling <- `executing`, last <- the last id
  that add_timer has finished with. `SendTask`'s variable `timer` is
  `timerId[send] # 0`.
- `TemplateText` - a text as a sequence of characters and field items, the
  conversions of `main.cpp` and `edit_template.cpp` as functions under their own
  names, and a state machine that types, saves and reopens a text and makes and
  erases fields.
- `PersonEditor` - the dialog of one person: boxes, number rows with the index
  stored in each erase button, the save button. `GroupEditor` EXTENDS it with the
  dialog of the group and the loop of `do_gameloop` that joins the two.
- `SendTaskInv`, `SyncInv`, `TimersInv`, `GroupEditorInv` - the inductive invariants.
- `SendTaskProofs` (in spite of all races) and `SendTaskTurnProofs` (with events in
  turn, or a user who waits, or both), `SyncProofs` (what the client knows) and
  `SyncDataProofs` (what the files hold), `TimersProofs`, `TemplateTextProofs`,
  `GroupEditorProofs` - the theorems.
- `MCSendTask`, `MCSync`, `MCTimers`, `MCTemplateText`, `MCGroupEditor` - instances
  for TLC.

How code and model correspond in `SendTask`:

- `Asserts(Broken(label, condition))` is a `VALIDATE`. A false one throws
  `twml_exception` out of `do_gameloop`; the process is then no longer `alive`
  and only `Restart` is enabled. `failed` collects the labels. What a handler
  would have assigned after the throw is assigned all the same; it is lost with
  the process. No handler writes a file after an assertion that fails in any run.
- `main` is what the main thread is in the middle of. Handlers are split where
  another actor, or a death, can come between their parts: `RunTask`/`RunTaskStarted`
  (the assertions of `run_task`, then its assignments), `WritePb`/`FinishWrite`
  (truncation of a list's file, then content, `main.cpp:402-414`),
  `WritePreferences`/`FinishPreferences` (the same of the preferences,
  `librose/filesystem.cpp:638-647`), `SendTimerHandler` or `DidBackground`, then
  `SmsSent`, then `SmsCounted` (the hand-over to the modem, `main.cpp:508`; up to the
  truncation of the preferences, in `set_next_send_at`; the rest of `send_sms`).
- The preferences are one file. A setter writes all of it, so between truncation and
  content a death loses strategy and position: `Restart` then finds `NoPrefs`.
  `SaveSetting` is a setter of a value the task does not use, which has the same
  effect. `Restart` writes the position when `load_pb` had to correct it
  (`main.cpp:384`; `main` is `"loading"`); a setter that finds the value unchanged
  writes nothing (`game_config.cpp:126`).
- `app` is where the application event is. `EnterBackground` resets the timer,
  `BackgroundConnect` registers `did_background` when the task runs,
  `DidEnterBackground` clears `foreground_` and takes the audio lock;
  `ClearCallbacks` gives back the audio and clears the callbacks,
  `DidEnterForeground` adds the timer and asks for a refresh, `EnterForeground` sets
  `foreground_`. With `ConcurrentAppEvents` each of these may fall between any two
  steps of the main thread. Events before `load_pb` is through are left out, though
  the handler is installed before (`librose/base_instance.cpp:286`, `:865`): one
  that comes then fails the assertion of `app_didenterbackground` (`main.cpp:455`).
- `HandleBackground`, then `DidBackground`, `DidBackgroundEarly` or
  `BackgroundDisconnect`, then `BackgroundHandled` or `EraseCallback` are one turn of
  the loop of `handle_background`. `dangling` says that `background_callbacks_` was
  cleared under that loop; `Iterate` is then either the end of the loop or the death
  of the process (the assertion `"handle_background"`, which is the outcome of a use
  of a freed node, not a `VALIDATE`). What else two threads in one `std::map` can do
  is not modelled.
- `due` abstracts `now - last_send_ticks >= interval * 1000`. Choosing an
  interval may set it either way.
- `Restart` is a kill at any point followed by the constructor and `load_pb`;
  `lastUseSlot` is the member no code initialises, so it is 0 or 1 arbitrarily
  for the life of a process (only its being 0 or not is tested).
- `ShowHome` opens on any layer: which one (`start_layer`) depends on the dialog
  just closed and on the login, neither of which is modelled.
- The buttons behind a dragged row are decided when the drag starts
  (`did_group_can_drag`). `CanEdit` can become false only by starting the task
  on the SMS layer, and a click elsewhere ends the drag, so the guard is
  evaluated at the click.
- The group editor has no cancel button; it is left without saving by the escape
  key (`librose/gui/widgets/window.cpp:1704-1714`).
- A partly written file is an empty one: the parse of a prefix is not modelled.
  A file that a download left empty does not change the memory
  (`main.cpp:254-257`); that is among the outcomes of `Download` with `ok` false.
- In the background the main thread waits in SDL and calls `handle_background`
  meanwhile: an assumption, since the source of SDL is not in the repository. Its header
  says only that application events are urgent and handled at once
  (`../linker/include/SDL2/SDL_events.h:719-722`).

How code and model correspond in `Sync`:

- A list is its time stamp, 0 for one that was never saved. `write_pb` stamps with
  the second (`main.cpp:394`); the stamps of different saves are taken to be
  different, so `clock` counts saves on all devices.
- `main` is `"waiting"` from `do_prepare` to the return of the agent's function:
  the dialogs are modal and the agent blocks, so nothing else of the program runs.
  `request` is what was asked, `reply` the answer; `RequestDone` ends the call.
- `Returned` is the set of answers after which `upload_pb`, `download_pb` and
  `do_logout` return true. They look at an answer only if it has a header and a
  body (`network.cpp:440`): one without (`"blank"`) counts as success.
- `download_pb` writes the file if the answer has `results`, before its code
  decides what is returned (`network.cpp:579`): `DownloadTruncates` and
  `DownloadWrites`, between which the process may die. `handle` then loads the
  file (`Loaded`; an empty one leaves the list alone).
- `RowOf` is computed when the notification dialog opens and used when a row is
  clicked; `EraseRow` after each success.
- `prefs` and `savedPrefs` are the preferences in memory and in the file. A
  setting that is written writes all of them (`ChangeSetting`), so does `set_hero`
  in the middle of `post_login` (`LoginAnswer`), and an orderly end (`Quit`); a death
  does not (`Kill`). Each truncates the file first; `FinishPreferences` writes it and
  goes on in the handler. `register2` and `logout` set preferences in memory only.
- `NextScreen`: `do_gameloop` shows the login dialog before home whenever nobody is
  logged in.
- The server is not in the repository. `Serve` is what the agent expects of it: one
  session per account, a login that returns the stamps, an upload that replaces
  file and stamp, and -2 for a session that another login has ended. `ServerFaults`
  adds answers without a body and answers with both an error and results. Requests
  that arrive after the client has given up are left out.
- `ProgressShown` is an assumption, not a fact: at this commit only `ocr_controller`
  shows the progress dialog that `network_connect_dialog` asserts
  (`librose/lobby.cpp:2052`), so that the first request ends the program. The run
  `login_asserts` shows that, with the constant false. `sync` and `accounts` take it
  as true: they are about the agent as it is written for such a dialog, behind the
  assertion, and so is `Download` in `SendTask`; the proofs hold either way.

How code and model correspond in `Timers`:

- `add_timer` is `AddTimer` (SDL has the timer) and `TimerAdded` (the map has it):
  the SDL thread may fire in between. `timer_callback` is `TimerCallback` (lookup)
  and `PushEvent`, `execute_timer` is `ExecuteTimer` and, after whatever the callback
  does, `CallbackReturns`, which has the destructor of `texecutor`.
- Callbacks are not nested: no timer handler of this program opens a dialog or
  pumps events. The library would not support it: `texecutor` does not restore an
  outer `executing_id`.
- `MaxQueue` makes the SDL thread wait where the real queue is longer. Events
  that are dropped because no window has a dispatcher (`handler.cpp:318`) are left
  out, and so is the removal of the send timer by the application event
  (`main.cpp:456`), which `SendTask` has.
- The map is read by the SDL thread without a lock; a read in the middle of an
  insertion is undefined and is not modelled.
- Ids are not reused below `MaxId`: the code reuses one only after `size_t` wraps.

How code and model correspond in `TemplateText`:

- A text in the editor is a sequence of characters and field items; a message is
  characters only. Digits are in base two in the instance, so that a two-digit marker
  takes three characters of a short text; the only other character is "%", since a lone one
  plays the part of any letter.
- `Pieces` is the scan of `template_generate_message`, which skips over a marker
  once it has been replaced. `ParamIndex` is the loop that skips indices whose
  marker the user typed (`fade_param`).
- One template is enough: nothing in the conversions looks at another. `UseTemplate`
  is the send task being started and reset.
- `typed` is history: what was on the screen when the template was saved.
- The name of a template is left out, and the name of a field too: one that contains a
  marker shifts what is highlighted, not what is sent. The branch of `save` for an
  item whose field does not exist cannot be reached while the editor is modal; `Save`
  has it.

How code and model correspond in `PersonEditor` and `GroupEditor`:

- A number is one that can be sent to, a text that is as long but not a number, or
  a shorter one: that is all `mobile_number_ok`, `did_number_changed` and `save`
  tell apart. A row has its text and the cookie of its erase button.
- `kept` is the part of `temp_person_` that `can_save` assigns on its way: the
  name before it is checked, the sum only after. `shown` is what the boxes show.
- `longErased` is history: has a row been erased from the long-press menu?
- `Named` is the constructor of `tedit_group`, run each time the dialog is shown.
- `WritePb`/`FinishWrite` are the truncation of the contacts file and its content
  (`main.cpp:402`, `main.cpp:414`); the next handler comes when it is written.
- `LeaveGroup` and `LeavePerson` are the escape key, `Restart` a death at any point,
  also between those two steps, and the load that follows it. The list has at most one group, the one that is edited.
- A person's values for the user's own fields and a group's choice of fields are left
  out: they follow the same path as the sum.

## Runs

Groups: one without a number and one (or two) with two numbers; templates with
and without a message. That is enough for an empty queue, a first, a last and a
middle position, a first item that is ready or not, and two different queues of
the same length. Bounds of `SendTask`: `MaxItems` items per list, `MaxCrashes` deaths of a
living process (a failed one always starts again).

| Run | Configuration | Shows |
|---|---|---|
| `core` | two groups, one template, one SIM, two deaths; events in turn, a user who waits | all other safety and action properties of `SendTask`, `IInv`, and that `Spec` implements `Campaign` |
| `races` | one group, one template, one SIM, one death; event thread, eager user, `Fairness` | `OnlyKnownFailures`, `ServedUntilStart`, `RunEnds` |
| `sync` | both lists, one account, three saves, both server faults, one death | all safety and action properties of `Sync` but the next, and `SyncIInv` |
| `accounts` | one list, two accounts of which one is to be registered, two saves, one death, one orderly end | `QuietMeansSynced` |
| `timers` | two owners, four timers, two waiting events | all properties of `Timers`, and that it implements `TimerPromise` |
| `templates` | texts of up to five tokens, the name and two fields of the user's, three persons | all properties of `TemplateText` |
| `editing` | one person of up to two numbers (three rows), texts of each kind, two group names | all properties of `GroupEditor` |
| `alternate`, `stale_queue`, `event_thread`, `eager_start`, `login_asserts` | see Findings | violations |

For `Sync`, three saves are enough for a version on each side and one on the other
device made after the login, and two accounts for every change of account. One
death is enough because nothing is kept of the time before it but two files.
`accounts` takes a server that answers with a body: with `"blank"` answers
`QuietMeansSynced` does not hold, since the client believes in an upload that never
happened (`network.cpp:440`). `StampsTrue` is checked for one account: with two, an
error with results leaves the file of one account under the stamp of the other.

In `timers`, four ids are enough for each owner to replace its timer inside a
callback while the event of the former one waits. In `templates`, five tokens hold a
typed marker (three) and two fields, or a field in the middle of a marker; the persons
hold values that are markers, parts of one, or empty. In `editing`, three rows hold a person with two
numbers and the empty row below them, and let rows move up past one another. One
person is enough for new, changed, erased and read-only ones; several persons of one
group are what the theorems cover and TLC does not.

Deadlock is checked in all of them but `timers`, where nothing happens once nobody
holds a timer and the last id is given out. Two constants separate what the code
guarantees by itself from what it takes from its environment:
`ConcurrentAppEvents` (are application events delivered on another thread, as the
comment in `librose/base_instance.cpp:427` says, or by the event pump of the main
thread, as SDL does on some platforms?) and `EagerUser` (can the user click within the
second between a return to the foreground and the first tick?). `races` takes both
as true. `core` takes both as false, because what it adds to `races` does not hold
otherwise or (`PositionInBounds`, `PersistedPosition`, `ButtonsFresh`, `TaskLocked`,
`ResumesInPlace`) is proved without them. With them the assertion of `send_sms` fails (finding 4),
that of `run_task` (`main.cpp:490`) when a click on start is handled between the reset
of the timer and `foreground_ = false`, and four in the background when the app
returns to the foreground during a call of `handle_background`.

The properties:

- `AssertionsHold`: no `VALIDATE` fails. `OnlyKnownFailures` is what is left of
  it without the two assumptions: all but the six named above.
- `PositionInBounds`, `RunningInBounds`: position and queue, which different
  handlers change, stay together.
- `PersistedPosition`, `ResumesInPlace`: what a restart finds and does with it. A
  death costs the count of one record; in the middle of a write of the preferences
  it costs strategy and position, which are then lost together.
- `ServedUntilStart`: a running task that has callback and audio in the background
  keeps them, whatever the two threads do; the one step that leaves a task without is
  the end of a click on start. `BackgroundServed`, which forbids that too, is finding 3.
- `ButtonsFresh`: the buttons are right whenever no refresh is pending.
- `TaskLocked`: nothing replaces the queue of an unfinished run, nor the first
  group and template, whatever was open when it started.
- `ImplementsCampaign`: order, one at a time, counted once.
- `RunEnds`: a started task ends, on whatever thread the events come, or the app is in
  the background with no callback, in the way of finding 3. It is about behaviours in
  which main thread and event thread are again and again both at rest (`AtRest`): a
  user who hides and shows the app for ever, each time before the handler that was
  interrupted is done, can keep a task from its ticks.
- `RowsTrue`: a row of the notification dialog is right as long as it is there.
- `ServerForward`, `MemoryForward`: no upload and no download replaces a newer
  version.
- `StampsTrue`: the version the server announces is the one it has.
- `QuietMeansSynced`: what needs no notification is the same on both sides.
- `ProgressAsserted`: finding 5.
- `ImplementsPromise`, `NoOrphan`, `ValidIsRegistered`, `CallbackKept`: whatever
  callbacks remove and replace and whatever waits in the queue, owner and map agree.
- `KeepsFiring`: a timer that SDL has when its owner holds it calls again and again.
- `SendsWhatWasTyped`, `ReopensAsTyped`, `ChangesWithTheText`: the conversions are
  inverse for what can be typed, and is_template_equal sees every edit and no other.
- `ShownWhileSent`: no field of the text of a task in use disappears.
- `SavesWhatIsShown`, `AddresseesValid`: what the person editor stores.
- `PersonsSaved`, `FileCurrent`: what a death or the escape key leaves: all that home
  shows, or an empty list if the file was just being written.
- `EraseButtonsTrue`, `OnlyEraseRowFails`: what stale erase buttons can do.
- `NameKept`, `ReadOnlyChangesNothing`: what a visit to a person may not change.

`Fairness`: weak fairness of the second halves of handlers and events (they have
begun and nothing blocks them) and of time; strong fairness of the tick that
sends, because the user can disable each caller again and again by hiding and
showing the application or by saving a list, but both callers run every second
and a user does not outrun them for ever. No fairness is assumed of the user, of
application events or of deaths. In `Timers`, weak fairness of the main thread and of
the push, and strong fairness of each timer of SDL's list, since its thread serves
all that are due and no timer can take the turn of another for ever; none of owners.

## Findings

1. `alternate`: with "Alternate use SIM1 and SIM2" all messages take the same
   SIM; `generate_send_queue` tests the member `last_use_slot`, which nothing
   assigns, instead of the local variable (`main.cpp:227`).
2. `stale_queue`: erasing the first group, or moving another one to the front,
   and closing the home screen before the SMS layer is shown loses
   `reload_sms_layer_`: the task sends to the former group (`home.cpp:529`,
   `home.cpp:575`). Saving a person of the first group and leaving the editor by
   escape has the same effect (`main.cpp:837`).
3. `event_thread`: application events are "not in main thread"
   (`librose/base_instance.cpp:427`). A click on start passes the assertions of
   `run_task`; the event thread finds `running` still false and registers no callback
   (`main.cpp:457`), so that no audio is started; then `running` is set
   (`main.cpp:494`). The task runs and nobody sends its messages until the app comes
   back to the foreground.
4. `eager_start`: a run that ends in the background leaves the run button; a
   click before the first tick starts a finished task and `send_sms` fails its
   assertion (`main.cpp:505`).
5. `login_asserts`: `network_connect_dialog` asserts a progress dialog
   (`librose/lobby.cpp:2052`) that none of the agent's callers shows: the first login,
   registration or login at startup ends the program.

Observations without a run, each a behaviour of the models or of the lines named:

- Every setter of a preference truncates the file that has the position of the task
  (`librose/filesystem.cpp:641`): a death before it is written again loses strategy
  and position, and at each message counted there is such a moment.
- In the same way `write_pb` loses all groups, or all templates (`main.cpp:402`).
- If the app comes back to the foreground during a call of `handle_background`, its
  callbacks are cleared under the loop that walks through them
  (`librose/base_instance.cpp:413`, `:475`), and the assertions of `did_background`
  (`main.cpp:435`) and `background_disconnect_th` can fail.
- `register2` sets `startup_login` but neither name nor password (`register.cpp:197`):
  after a logout and a registration the next start would log in the account that was
  logged out. So would one after a logout and a kill, because the preference is only
  set in memory (`home.cpp:1093`). Both are behaviours of `Sync` with the progress
  dialog; without it (finding 5) nobody gets that far.
- Erasing a number from the long-press menu leaves the indices of the other erase
  buttons as they were (`edit_person.cpp:347`): a later click erases another row, or
  fails the assertion of `erase_row` (`librose/gui/widgets/listbox.cpp:356`).
- When all rows are erased there is no way to enter a number again.
- The name typed for a new group is "Untitled group" again after a visit to a
  person or to the OCR (`edit_group.cpp:33`).
- A person saved while the name box of the group is empty writes a group without a
  name. Erasing persons and leaving by escape undoes it, unless another person
  was saved after the erasure, which stores the whole group.
- The values of an erased field are still sent by the templates that use it, though
  the preview no longer shows the field (`home.cpp:915`).
- A timer that fires between `SDL_AddTimer` and its insertion into the map never
  fires again (`timer.cpp:120`), though `valid()` is true.

## Proofs

### The send task

All theorems hold for every set of groups, templates and numbers, every SIM
equipment and every bound, from the named assumptions of `SendQueue` and
`SendTask`, which only type the constants.

None of the safety properties is inductive. A running task has a
next record because the run button is only usable when the position is not the
end; that is so because the button is refreshed by every handler that moves the
position, or a refresh is pending; the button is also the reason why the lists
are not empty when a task starts, unless a reload is pending, which keeps the SMS
layer out of reach. An editor may replace the first item only if it was opened
while the lists could be edited, and no task starts while it is open.

What of this holds in spite of races is `RaceInv`: `OnlyKnownFailures` and, in a
living process, `MainInv` (what the main thread relies on in the middle of a
handler), `PlatformInv` (timer, callback and audio follow the state of the
application), `QueueInv`, `HomeInv` and `EditorInv`. `SendTaskProofs` proves it
without any assumption on events and user, with one step per action and in it one
per part; a process that has thrown only starts again.

- `TypeCorrect`, `RaceInvariance`, `FailuresKnown` (`OnlyKnownFailures`) and
  `PositionSafety` (`PositionInBounds`, `PersistedPosition`): directly.
- `KeepsServing`: `ServedUntilStart`, by a case per action; while a handler is in the
  background's loop and nothing was cleared, the callback is there, and the audio with
  it as long as the task runs.
- `LockSafety`: `TaskLocked`, by a case per action; cloning, storing behind and
  erasing behind the first item keep the first item.
- `ResumesSafely`: `ResumesInPlace`; the preferences hold the position, and without a
  SIM strategy the queue is empty and the position 0.
- `ButtonsSafety`: `ButtonsFresh`, from `ButtonsInv`, which says the same of every
  layer as long as no refresh and no reload is pending; a second induction on top of
  `RaceInv`. Handlers that do not refresh keep the first items or ask for a reload; a
  record that is counted changes nothing the buttons show while the task goes on.

So neither the event thread nor the eager user endangers the position, the lock, the
restart or the buttons. `SendTaskTurnProofs` has what does depend on them:

- with `~EagerUser`, `StartInv` is an invariant (`StartInvariance`): a task that runs
  has a next record, and one that can be started would have one. `RunningSafety`
  (`RunningInBounds`) follows, and `SendSmsSafety`: the assertion that finding 4 is
  about fails through an early start and through nothing else;
- with `~EagerUser` and `~ConcurrentAppEvents`, an event finds no handler half done
  (the lemma `TurnInvariance`) and no step fails in an assertion, so that `IInv`,
  the conjunction of all of it, is an invariant
  (`Invariance`), and with it `AssertionSafety` (`AssertionsHold`) and
  `Implementation`: initial states map to initial states and every step to a step of
  `Campaign` or a stutter.

### The synchronisation

The theorems of `SyncProofs` hold for every set of lists and accounts, every bound,
whatever the server gets wrong, and with or without the progress dialog; they use
only `SyncAssumption`, which types the constants and keeps the names of lists apart
from those of states.

`ServerForward` is about two devices, but a client sees the server only at login.
It holds because of what the client knows while its session is the open one
(`KnownInv`): the server has nothing newer than what was announced at login, or than
what is in memory, which a lost answer to an upload may have left there. That is
kept by a download only because its row was right (`RowsTrue`), by a save only
because no stamp is from the future (`ClockInv`), and an upload that is under way
carries the stamp of the list in memory because dialogs are modal (`RequestInv`).
`ScreenInv` says that the screens that log in are shown when nobody is logged in.
Together they are `AgentInv`.

- `AgentInvariance`: `AgentInv` is an invariant; one lemma per part, in it one step
  per action or group of actions that leave the part's variables alone.
- `SyncTyped`, `RowsStayTrue`: follow from it.
- `UploadsForward`: `ServerForward`, from `UploadForward` for the one step that
  stores an upload.

`SyncDataProofs` adds what the files hold. The file is written before the answer's
code is looked at, so it need not be the list in memory; but it is never older
(`FilesNewer`), and what the client has been told of is on the server or in memory
(`ToldInv`). `SyncIInv` is the conjunction, with two parts under hypotheses on the
constants:

- `SyncInvariance`: `SyncIInv` is an invariant. Effect lemmas say once what a step does
  to each group of variables; each part then needs a few cases.
- `DownloadsForward`: `MemoryForward`, without further assumptions.
- `StampsStayTrue`: `StampsTrue`, assuming `OneVersion` (one account, or no results
  with an error). `FilesTrue` is the reason: a file that differs from the list in memory
  is one the server has a newer version of, so the row offers a download and it
  is not uploaded under the wrong stamp. Without `OneVersion` TLC finds a trace of 27
  states: a failed download leaves a newer file, the user logs out, registers
  another account and uploads that file under the stamp of the list in memory.
- `QuietIsSynced`: `QuietMeansSynced`, assuming moreover that every answer has a body
  (`"blank"` is not among the faults). With `"blank"` TLC refutes it: an upload
  answered without a body counts as done and its row goes.

### The timers

For any owners and bounds, from `TimersAssumption`, which types the constants.
Owner and map must agree, but for one entry: a callback that gives back its own timer
leaves it registered until it returns. `NoOrphan` and `ValidIsRegistered` say this from
the map's and from the owner's side, and both are needed for each other; `FreshInv`
adds that an id not given out, or given out and not yet inserted, is in nobody's
hands, so that an event or a firing that comes too early finds nothing.

- `TimersInvariance`: `TimersIInv` is an invariant; one lemma per action.
- `TimersSafety`: the three properties that are parts of it.
- `TimersImplementation`: every step is one of `TimerPromise` or a stutter. That the
  queue holds events of timers long gone does not matter, because `ExecuteTimer`
  looks the id up and ids are not given out twice.

### The editors

For any names, numbers and texts and any number of rows and persons, from the
assumptions that type the constants. `SavesWhatIsShown` needs that `can_save` ran after
every change (`ScreenInv`), also after a row was erased. `PersonsSaved` follows from
`FileCurrent` and from what holds also while the file is being written: every person
shown is in `contacts_` (`PersonsStored`). That needs to know where
the loop stands (`LoopInv`): a group that is shown and not in the list is new, one
that may only be looked at is the stored one. That the numbers of a saved person are those
of the rows that are not empty, in their order, rests on lemmas that give the places
of those rows in increasing order.

- `EditorInvariance`: `EditorIInv` is an invariant; one lemma per action.
- `EditorSafety`: six properties that follow from it.
- `ReadOnlyHolds`, `NameStays`: the two action properties, by a case per action.

### The template text

For any letters, fields and persons, any two or more digits and texts of any length,
from `TextAssumption`: digits, "%" and letters are characters, fields are not, "%" is not
a digit, and a person has a text for every field. `TextInv` says that the template is
what `save` made of the text last typed (`Stored`), whatever fields were made or erased
since; it is inductive because an editor opens with a text of existing fields only
(`PreviewType`), for which `Save` does not depend on later changes (`SaveIsStored`).
All else is about the conversions, which recur over texts.

- Induction over texts is induction over their lengths. A lemma of the library that
  takes a predicate cannot be used, so `Induction` takes a set of numbers and uses
  that "<" is well founded (`WFMin`).
- A recursive function is a CHOOSE; that its equations have a solution is proved first
  (`FlatteningExists`, `CuttingExists`). What is used afterwards are the equations of
  `FlattenSeq` (`ThroughFront`: a text is written token by token) and of `Pieces`
  (`PiecesStep`: the first piece, then those of what is behind it).
- `MarkerShort`: an index below `Base * Base` is written as three characters and read
  back as itself. `ParamIndexFacts`: the k-th free index exists, is not the marker of
  anything typed, and differs from the other ones.
- `Translation` puts these together: cutting the stored text gives the marker of a
  field where the field was typed, and elsewhere the pieces of what was typed, also
  where a typed "%" or digit stands next to a marker. So replacing the markers
  (`StoredMeans`) gives back the typed text with every field replaced.

Then:

- `TextInvariance`, `TypeCorrect`: `TextInv` and the types.
- `MessagesMeanWhatWasTyped` (`SendsWhatWasTyped`): the markers replaced by a person's values.
- `PreviewsAreWhatWasTyped` (`ReopensAsTyped`): the markers replaced by the fields themselves.
- `EditsAreSeen` (`ChangesWithTheText`): the same, so that two texts are never stored alike.
- `NothingVanishesWhileSent` (`ShownWhileSent`): by a case per action.

What is said of messages, previews and edits assumes that two digits are enough for
the markers (`Fits`): index 100 is printed with three digits, of which two are read.
`TwoDigitsAreEnough` proves it for every text whose fields and typed markers
(different ones) together are no more than the indices of two digits, 100 in the program:
the k-th free index is at most k - 1 plus the number of typed ones.

### What is not proved

Only model-checked: `RunEnds` and `KeepsFiring`, since liveness under fairness is out
of the prover's reach.

## Plan

Done: the send task with its promise and proofs, the synchronisation with its proofs,
the timers with their promise and proofs, the template text, the group and person
editors, each with its proofs.

1. `SendInterval`: 32-bit ticks and the interval; `due` as its abstraction.
2. `Background`: callbacks in general (several, ids that wrap), of which
   `SendTask` uses one.
3. `Http` (lobby sockets), as far as its state machine stands alone.

## Not modelled

The GUI toolkit (layout, drawing, widgets), OCR and camera, the IRC chat (disabled
by `do_gameloop`), sound but for the audio lock, translations, resources,
generated protocol buffers and everything under `external` and `linker`. These are
nearly all of the repository: the program's own files (`smsrobot/smsrobot`) are a few
thousand lines, of which the state machines above take most; the rest is the librose
library, whose widgets, sockets, Bluetooth tasks, chat and
JSON reader the program does not drive or drives through the few calls that are
modelled, and third-party headers (OpenGL, OpenCV, SDL), which hold declarations and no
behaviour of this program. Of the program's own code, what is left out is checking of
what is typed at login, the choice of a server, the colour and layout of rows, and the
field values of persons.

Bluetooth (`ble.cpp`) is instantiated without tasks of its own, so that its task
machine never leaves its initial state here. The
modem bridge ignores nothing the program looks at: the result of a send is
dropped (`main.cpp:508`).
