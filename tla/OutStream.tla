----------------------------- MODULE OutStream -----------------------------
(***************************************************************************)
(* What soundio.h promises of an output stream, in frames.  Its callback   *)
(* runs between start and destroy only, is asked for at least one frame    *)
(* and never for more than there is room for.  Frames that were committed  *)
(* leave the buffer in three ways: the device plays as many as are due,    *)
(* they are dropped by a clear that was asked for, or they are lost with a *)
(* device that stops on its own.                                           *)
(*                                                                         *)
(* due and broken are the device's; any step may come with a change of     *)
(* them, so that they are no part of vars.                                 *)
(***************************************************************************)
EXTENDS Integers

CONSTANT Room  \* the frames the buffer holds

VARIABLES
  stream,     \* "created", "opened", "started" or "destroyed"
  clear,      \* whether a clear of the buffer is requested
  callback,   \* whether write_callback is running
  allowance,  \* the frames it may still write
  granted,    \* the frames of begin_write, until end_write
  buffered,   \* the frames committed and not yet played
  due,        \* the frames that the device may play now
  broken      \* the device has failed, or was suspended

vars == <<stream, clear, callback, allowance, granted, buffered>>

Init ==
  /\ stream = "created"
  /\ clear = FALSE /\ callback = FALSE
  /\ allowance = 0 /\ granted = 0 /\ buffered = 0

Open ==
  /\ stream = "created" /\ stream' = "opened"
  /\ UNCHANGED <<clear, callback, allowance, granted, buffered>>

Start ==
  /\ stream = "opened" /\ stream' = "started"
  /\ UNCHANGED <<clear, callback, allowance, granted, buffered>>

RequestClear ==
  /\ stream \in {"opened", "started"}
  /\ clear' = TRUE
  /\ UNCHANGED <<stream, callback, allowance, granted, buffered>>

Clear ==
  /\ stream = "started" /\ clear /\ ~callback
  /\ clear' = FALSE
  /\ buffered' = 0
  /\ UNCHANGED <<stream, callback, allowance, granted>>

Play ==
  /\ stream = "started"
  /\ \E n \in 1..due : n <= buffered /\ buffered' = buffered - n
  /\ UNCHANGED <<stream, clear, callback, allowance, granted>>

\* With the step in which the device fails, or by what brings it back.
Lose ==
  /\ stream = "started"
  /\ broken \/ broken'
  /\ buffered' = 0
  /\ UNCHANGED <<stream, clear, callback, allowance, granted>>

Call ==
  /\ stream = "started" /\ ~callback
  /\ \E n \in 1..(Room - buffered) : allowance' = n
  /\ callback' = TRUE
  /\ UNCHANGED <<stream, clear, granted, buffered>>

Begin ==
  /\ callback /\ granted = 0
  /\ \E n \in 1..allowance : granted' = n
  /\ UNCHANGED <<stream, clear, callback, allowance, buffered>>

End ==
  /\ callback /\ granted > 0
  /\ buffered' = buffered + granted
  /\ allowance' = allowance - granted
  /\ granted' = 0
  /\ UNCHANGED <<stream, clear, callback>>

\* The frames take the place of those that shall be cleared.
EndCleared ==
  /\ callback /\ granted > 0 /\ clear
  /\ clear' = FALSE
  /\ buffered' = granted
  /\ allowance' = allowance - granted
  /\ granted' = 0
  /\ UNCHANGED <<stream, callback>>

\* An error of the device: nothing is committed.
Fail ==
  /\ callback
  /\ allowance' = 0 /\ granted' = 0
  /\ clear' \in {clear, FALSE}
  /\ UNCHANGED <<stream, callback, buffered>>

Return ==
  /\ callback /\ granted = 0
  /\ callback' = FALSE /\ allowance' = 0
  /\ UNCHANGED <<stream, clear, granted, buffered>>

Destroy ==
  /\ stream # "destroyed" /\ ~callback
  /\ stream' = "destroyed"
  /\ clear' = FALSE /\ buffered' = 0
  /\ UNCHANGED <<callback, allowance, granted>>

Next ==
  \/ Open \/ Start \/ RequestClear \/ Clear \/ Play \/ Lose \/ Call \/ Begin
  \/ End \/ EndCleared \/ Fail \/ Return \/ Destroy

Spec == Init /\ [][Next]_vars
=============================================================================
