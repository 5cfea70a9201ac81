------------------------------ MODULE Campaign -------------------------------
(***************************************************************************)
(* What a bulk send promises, without screens, timers, threads or files: a *)
(* queue of records is handed to the modem one at a time and in order, a   *)
(* record is counted before the next is handed over, the queue is only     *)
(* replaced while nothing of it has been counted, and a restart goes on    *)
(* after the last record counted or starts from the beginning.             *)
(***************************************************************************)
EXTENDS Naturals, Sequences

CONSTANT Record

VARIABLES
  queue,    \* the records to send
  at,       \* how many of them are counted as sent
  active,   \* is the task running?
  handed,   \* has record at + 1 been handed over and not been counted?
  lives     \* how often the process has been started again

vars == <<queue, at, active, handed, lives>>

Init == queue = <<>> /\ at = 0 /\ active = FALSE /\ handed = FALSE /\ lives = 0

Requeue ==
  /\ ~active /\ at = 0
  /\ queue' \in Seq(Record)
  /\ UNCHANGED <<at, active, handed, lives>>

Start ==
  /\ ~active /\ at < Len(queue)
  /\ active' = TRUE
  /\ UNCHANGED <<queue, at, handed, lives>>

Stop ==
  /\ active /\ ~handed
  /\ active' = FALSE
  /\ UNCHANGED <<queue, at, handed, lives>>

Handover ==
  /\ active /\ ~handed /\ at < Len(queue)
  /\ handed' = TRUE
  /\ UNCHANGED <<queue, at, active, lives>>

Count ==
  /\ handed
  /\ at' = at + 1
  /\ active' = (at + 1 # Len(queue))
  /\ handed' = FALSE
  /\ UNCHANGED <<queue, lives>>

Reset ==
  /\ ~active /\ at # 0
  /\ at' = 0
  /\ UNCHANGED <<queue, active, handed, lives>>

(* The process dies and starts again: it goes on where it was, or from the *)
(* beginning, never further on.                                            *)
Restart ==
  /\ queue' \in Seq(Record)
  /\ at' \in {0, at}
  /\ at' <= Len(queue')
  /\ active' = FALSE
  /\ handed' = FALSE
  /\ lives' = lives + 1

Next == Requeue \/ Start \/ Stop \/ Handover \/ Count \/ Reset \/ Restart

Spec == Init /\ [][Next]_vars
=============================================================================
