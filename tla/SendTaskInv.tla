---------------------------- MODULE SendTaskInv ------------------------------
(***************************************************************************)
(* The inductive invariants of SendTask.  RaceInv holds however the events *)
(* and the user interleave with the main thread.  IInv adds why all the    *)
(* assertions hold when the application events are delivered by the main   *)
(* thread and the user does not start a task before the screen is up to    *)
(* date.                                                                   *)
(***************************************************************************)
EXTENDS SendTask

HasItems == memory["contacts"] # <<>> /\ memory["templates"] # <<>>

(* What the main thread relies on in the middle of a handler               *)
MainInv ==
  /\ main = "starting" => HomeShown /\ layer = "sms" /\ ~running /\ Valid
  /\ main \in Sending \cup Counting => running /\ nextSendAt < Len(records)
  /\ main = "erasing" => ~running

(* Timer, background callback and audio follow the state of the app; what  *)
(* the handler walks through is there until the event thread clears it; a  *)
(* record on its way when the app comes back is one a refresh will show.   *)
PlatformInv ==
  /\ foreground <=> app \notin {"background", "cleared", "timer_added"}
  /\ timer <=> app \in {"foreground", "timer_added"}
  /\ callback => app \in {"connected", "background"}
  /\ audioLock => app = "background" /\ callback
  /\ dangling => main \in Handling
  /\ main \in Handling /\ ~dangling => app = "background" /\ callback
  /\ main = "erasing" /\ ~dangling => ~audioLock
  /\ app = "background" /\ callback /\ (running \/ main = "starting") => audioLock
  /\ app = "timer_added" /\ main \in Sending \cup Counting => requireRefresh

(* The queue, the position in it, and the lists it came from               *)
QueueInv ==
  /\ nextSendAt <= Len(records)
  /\ running => Valid
  /\ ~Valid => records = <<>>
  /\ ~CanEdit \/ main = "starting" => HasItems

(* What the home screen shows, and what it has still to reload             *)
HomeInv ==
  /\ ~HomeShown => ~runButton /\ ~resetButton /\ ~reloadSms
  /\ HomeShown => rows = Len(records)
  /\ layer = "sms" => ~reloadSms
  /\ reloadSms => CanEdit
  /\ runButton => Valid /\ (reloadSms \/ HasItems)
  /\ resetButton => Valid /\ ~running /\ nextSendAt # 0

(* A writable editor of the first group or template is only open while the *)
(* lists can be edited.                                                    *)
EditorInv ==
  /\ edit.readOnly => ~edit.changed
  /\ screen \in Editors /\ edit.at = 1 /\ ~edit.readOnly => CanEdit

LivingInv == MainInv /\ PlatformInv /\ QueueInv /\ HomeInv /\ EditorInv

(* What holds in spite of races: all of this in a living process, the file *)
(* as it should be, and no assertion but the known ones has failed.        *)
RaceInv ==
  TypeOK /\ OnlyKnownFailures /\ PersistedPosition /\ (alive => LivingInv)

(* Events come in turn: which step of the main thread is under way in      *)
(* which state of the app, and whom the background handler serves          *)
TurnInv ==
  /\ app # "foreground" /\ main # "idle" => app = "background" /\ main \in Handling
  /\ ~dangling
  /\ app = "connected" => (callback <=> running)
  /\ app = "background" => (running => callback)
  /\ app = "background" /\ main # "erasing" => (callback <=> audioLock)

(* The app is, or is about to be, in the foreground.                       *)
InFront == foreground \/ app = "timer_added"

(* The user waits for the screen: a task that is or can be started has     *)
(* something to send.                                                      *)
StartInv ==
  /\ running \/ main = "starting" => nextSendAt < Len(records)
  /\ runButton /\ ~running /\ InFront /\ ~requireRefresh =>
       nextSendAt # Len(records)

(* All of it, and every assertion held so far                              *)
IInv == RaceInv /\ failed = {} /\ alive /\ TurnInv /\ StartInv

(* What the two buttons should show                                        *)
ButtonsRight ==
  LET usable == Valid /\ Ready(memory)
  IN  /\ runButton = (usable /\ (running \/ nextSendAt # Len(records)))
      /\ resetButton = (usable /\ ~running /\ nextSendAt # 0)

(* They do, on every layer of the home screen, when the app is or is about *)
(* to be in the foreground, unless something is pending that will refresh  *)
(* them before they can be clicked.                                        *)
ButtonsInv ==
  HomeShown /\ InFront /\ ~requireRefresh /\ ~reloadSms => ButtonsRight
=============================================================================
