----------------------------- MODULE JackStreams -----------------------------
(***************************************************************************)
(* The streams of lib/libsoundio/jack.c.  Each is a client of JACK with    *)
(* callbacks of its own; in every cycle of the server its process callback *)
(* writes or reads exactly one period.                                     *)
(***************************************************************************)
EXTENDS StreamLoop

VARIABLES
  jack_client,  \* "none", "open", "active" or "shut down"
  nframes,      \* the server's buffer size
  is_shutdown   \* the backend's connection is shut down

jack_vars == <<jack_client, nframes, is_shutdown>>
vars == <<loop_vars, jack_vars>>

JackInit == jack_client = "none" /\ nframes = PeriodSize /\ is_shutdown = FALSE

-----------------------------------------------------------------------------
(* The server *)

FlowVars == <<buffered, callback_vars>>

\* What was written is played; what was captured and not read is gone.
CycleEnds ==
  /\ pc = "none" /\ buffered > 0
  /\ buffered' = 0
  /\ UNCHANGED <<direction, stream, pc, callback_vars, clear_buffer_flag, jack_vars>>

CycleBegins ==
  /\ jack_client = "active" /\ pc = "none" /\ buffered = 0
  /\ buffered' = IF direction = "in" THEN nframes ELSE 0
  /\ NoCallBack("process")
  /\ UNCHANGED <<direction, stream, clear_buffer_flag, jack_vars>>

\* buffer_size_callback calls error_callback; the next cycles have the new size.
BufferSize ==
  /\ jack_client \in {"open", "active"} /\ pc = "none"
  /\ nframes' \in 1..Room
  /\ UNCHANGED <<loop_vars, jack_client, is_shutdown>>

\* The backend's shutdown_callback, which sets is_shutdown,
BackendShutdown ==
  /\ is_shutdown' = TRUE
  /\ UNCHANGED <<loop_vars, jack_client, nframes>>

\* and the stream's, which calls error_callback.
StreamShutdown ==
  /\ jack_client \in {"open", "active"} /\ pc = "none"
  /\ jack_client' = "shut down"
  /\ UNCHANGED <<loop_vars, nframes, is_shutdown>>

Process ==
  /\ pc = "process" /\ CallBack("callback", nframes)
  /\ UNCHANGED <<direction, stream, buffered, clear_buffer_flag, jack_vars>>

outstream_process_callback == direction = "out" /\ Process
instream_process_callback == direction = "in" /\ Process

-----------------------------------------------------------------------------
(* The client *)

ClientVars == <<direction, pc, FlowVars, clear_buffer_flag, nframes, is_shutdown>>

\* A failure closes the client again; the ports are connected in start.
Open ==
  /\ stream = "created"
  /\ \/ stream' = "failed" /\ UNCHANGED jack_client
     \/ ~is_shutdown /\ stream' = "opened" /\ jack_client' = "open"
  /\ UNCHANGED ClientVars

outstream_open == direction = "out" /\ Open
instream_open == direction = "in" /\ Open

\* A port that cannot be connected is an error, but the client is active.
Start ==
  /\ stream = "opened" /\ ~is_shutdown
  /\ \/ /\ jack_client = "open" /\ jack_client' = "active"
        /\ stream' = "started"
     \/ UNCHANGED <<stream, jack_client>>
  /\ UNCHANGED ClientVars

outstream_start == direction = "out" /\ Start
instream_start == direction = "in" /\ Start

Destroy ==
  \/ /\ stream = "started" /\ stream' = "joining"
     /\ UNCHANGED <<ClientVars, jack_client>>
  \/ /\ stream \in {"created", "failed", "opened"} /\ stream' = "destroyed"
     /\ jack_client' = "none"
     /\ UNCHANGED ClientVars

outstream_destroy == direction = "out" /\ Destroy
instream_destroy == direction = "in" /\ Destroy

\* jack_client_close: no cycle runs, and none will.
ClientClosed ==
  /\ stream = "joining" /\ pc = "none"
  /\ stream' = "destroyed" /\ jack_client' = "none"
  /\ buffered' = 0
  /\ UNCHANGED <<direction, pc, callback_vars, clear_buffer_flag, nframes, is_shutdown>>

-----------------------------------------------------------------------------
(* The callback: any other frame_count is an error. *)

BeginAll ==
  /\ pc = "callback" /\ granted = 0 /\ frames_left > 0
  /\ Grants(frames_left)
  /\ UNCHANGED <<direction, stream, pc, buffered, clear_buffer_flag, jack_vars>>

EndAll(new_buffered) ==
  /\ pc = "callback" /\ granted > 0
  /\ buffered' = new_buffered
  /\ Ends
  /\ UNCHANGED <<direction, stream, pc, clear_buffer_flag, jack_vars>>

outstream_begin_write == direction = "out" /\ BeginAll
outstream_end_write == direction = "out" /\ EndAll(buffered + granted)
instream_begin_read == direction = "in" /\ BeginAll
instream_end_read == direction = "in" /\ EndAll(buffered - granted)

CallbackReturns ==
  /\ pc = "callback" /\ granted = 0
  /\ CallBack("none", 0)
  /\ UNCHANGED <<direction, stream, buffered, clear_buffer_flag, jack_vars>>

-----------------------------------------------------------------------------
Callback ==
  \/ outstream_process_callback \/ instream_process_callback
  \/ outstream_begin_write \/ outstream_end_write
  \/ instream_begin_read \/ instream_end_read \/ CallbackReturns

Server == CycleEnds \/ CycleBegins \/ BufferSize \/ BackendShutdown \/ StreamShutdown

Client ==
  \/ outstream_open \/ instream_open \/ outstream_start \/ instream_start
  \/ outstream_destroy \/ instream_destroy

Next == Callback \/ Server \/ Client \/ ClientClosed
=============================================================================
