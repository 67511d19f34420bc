------------------------------ MODULE StreamLoop ------------------------------
(***************************************************************************)
(* What the streams of all backends of libsoundio have in common: the      *)
(* client, which opens, starts and destroys a stream, and its              *)
(* write_callback or read_callback, which runs on a thread of the backend  *)
(* and calls begin_write and end_write, or begin_read and end_read.        *)
(*                                                                         *)
(* Sound is counted in frames.  The client of a stream writes or reads at  *)
(* most as many frames in a callback as it was told, and after an error    *)
(* returns from the callback.                                              *)
(***************************************************************************)
EXTENDS Integers, Sequences

CONSTANTS
  Room,       \* the frames that the buffer of a stream holds
  PeriodSize  \* the frames that the device handles at a time

ASSUME StreamLoopAssumption == Room \in Nat \ {0} /\ PeriodSize \in 1..Room

VARIABLES
  direction,   \* "out" or "in"
  stream,      \* "created", "failed", "opening", "timing", "opened", "starting",
               \* "started", "closing" or "joining" (in a call of destroy, of a stream
               \* that was not, or was, started) or "destroyed"
  pc,          \* where the thread is that calls the callback
  buffered,    \* frames written and not yet played, or captured and not yet read
  frames_left, \* frames that the callback may still write or read
  granted,     \* frames of begin_write or begin_read, until the end
  clear_buffer_flag  \* clear: the buffer shall be cleared

callback_vars == <<frames_left, granted>>
loop_vars == <<direction, stream, pc, buffered, callback_vars, clear_buffer_flag>>

LoopInit ==
  /\ direction \in {"out", "in"} /\ stream = "created" /\ pc = "none"
  /\ buffered = 0 /\ frames_left = 0 /\ granted = 0
  /\ clear_buffer_flag = FALSE

Opened == stream \in {"opened", "started"}

Min2(a, b) == IF a <= b THEN a ELSE b

\* The callback is called, and what follows it in the thread is at "at".
CallBack(at, frames) ==
  /\ pc' = at
  /\ frames_left' = frames
  /\ UNCHANGED granted

NoCallBack(at) ==
  /\ pc' = at
  /\ UNCHANGED callback_vars

Grants(frames) == granted' = frames /\ UNCHANGED frames_left

Ends ==
  /\ frames_left' = frames_left - granted
  /\ granted' = 0

\* An error code for the client, which gives up for this time.
ReturnsError == frames_left' = 0 /\ granted' = 0

\* soundio_outstream_clear_buffer, from any thread.
RequestClear ==
  /\ direction = "out" /\ Opened
  /\ clear_buffer_flag' = FALSE
  /\ UNCHANGED <<direction, stream, pc, buffered, callback_vars>>
=============================================================================
