------------------------------ MODULE InStream ------------------------------
(***************************************************************************)
(* What soundio.h promises of an input stream, in frames.  Its callback    *)
(* runs between start and destroy only and is told of at least one frame;  *)
(* begin_read grants frames that the device captured, end_read removes     *)
(* those that were granted, so that none is read twice and none that       *)
(* arrived meanwhile is lost, unless the device overran or stopped.        *)
(*                                                                         *)
(* broken is the device's; any step may come with a change of it, so that  *)
(* it is no part of vars.                                                  *)
(***************************************************************************)
EXTENDS Integers

VARIABLES
  stream,     \* "created", "opened", "started" or "destroyed"
  callback,   \* whether read_callback is running
  allowance,  \* the frames it may still read
  granted,    \* the frames of begin_read, until end_read
  captured,   \* the frames captured and not yet removed
  broken      \* the device has overrun or failed, or was suspended

vars == <<stream, callback, allowance, granted, captured>>

Init ==
  /\ stream = "created" /\ callback = FALSE
  /\ allowance = 0 /\ granted = 0 /\ captured = 0

Open ==
  /\ stream = "created" /\ stream' = "opened"
  /\ UNCHANGED <<callback, allowance, granted, captured>>

Start ==
  /\ stream = "opened" /\ stream' = "started"
  /\ UNCHANGED <<callback, allowance, granted, captured>>

Capture ==
  /\ stream = "started"
  /\ captured' > captured
  /\ UNCHANGED <<stream, callback, allowance, granted>>

\* With the step in which the device fails, or by what brings it back: it starts
\* with an empty buffer.
Lose ==
  /\ stream = "started"
  /\ broken \/ broken'
  /\ captured' = 0
  /\ allowance' \in 0..allowance /\ granted' = 0
  /\ UNCHANGED <<stream, callback>>

Call ==
  /\ stream = "started" /\ ~callback /\ callback' = TRUE
  /\ allowance' > 0
  /\ UNCHANGED <<stream, granted, captured>>

Begin ==
  /\ callback /\ granted = 0
  /\ granted' > 0 /\ granted' <= allowance /\ granted' <= captured
  /\ UNCHANGED <<stream, callback, allowance, captured>>

End ==
  /\ callback /\ granted > 0
  /\ captured' = captured - granted
  /\ allowance' = allowance - granted
  /\ granted' = 0
  /\ UNCHANGED <<stream, callback>>

\* An error of the device: nothing is removed.  A callback that was granted
\* frames gives up.
Fail ==
  /\ callback
  /\ allowance' \in 0..allowance
  /\ granted > 0 => allowance' = 0
  /\ granted' = 0
  /\ UNCHANGED <<stream, callback, captured>>

Return ==
  /\ callback /\ granted = 0
  /\ callback' = FALSE /\ allowance' = 0
  /\ UNCHANGED <<stream, granted, captured>>

Destroy ==
  /\ stream # "destroyed" /\ ~callback
  /\ stream' = "destroyed"
  /\ captured' = 0
  /\ UNCHANGED <<callback, allowance, granted>>

Next ==
  \/ Open \/ Start \/ Capture \/ Lose \/ Call \/ Begin \/ End \/ Fail
  \/ Return \/ Destroy

Spec == Init /\ [][Next]_vars
=============================================================================
