----------------------------- MODULE AlsaEvents -----------------------------
(***************************************************************************)
(* lib/libsoundio/alsa.c: the thread of device_thread_run, which watches   *)
(* /dev/snd with inotify and scans the cards, and the client's thread in   *)
(* my_flush_events.  A card's control file is created, and closed for the  *)
(* first time once udev has set its permissions.                           *)
(***************************************************************************)
EXTENDS EventLoop, SequencesExt

VARIABLES
  inotify,        \* the events not yet read
  closing,        \* how often each file was created and not yet closed
  pipe,           \* whether the pipe can be read
  abort_flag,     \* clear: the thread shall end
  thread,         \* "poll", "events", "scan", "open" or "ended"
  revents,        \* what poll said can be read
  rescan,         \* got_rescan_event
  pending_files,
  card_index

kernel == <<inotify, closing>>
thread_vars == <<thread, revents, rescan, pending_files, card_index>>
alsa_vars == <<kernel, pipe, abort_flag, thread_vars>>
vars == <<loop_vars, alsa_vars>>

\* soundio_alsa_init wakes the thread for its first scan.
Connected == safe = {}

\* udev may still have a file open that was created before.  Bound: that of the
\* first card, where it is the only one.
OpenBefore ==
  /\ closing \in [Devices -> {0, 1}]
  /\ \A c \in Devices : closing[c] = 1 => c = 1 /\ devices = {c}

ThreadInit ==
  /\ inotify = <<>> /\ OpenBefore
  /\ pipe = TRUE /\ abort_flag = TRUE
  /\ thread = "poll" /\ revents = {} /\ rescan = FALSE
  /\ pending_files = <<>> /\ card_index = 0

Init == LoopInit /\ Connected /\ ThreadInit

-----------------------------------------------------------------------------
(* The kernel and udev *)

Plug ==
  /\ DevicesChange
  /\ \E c \in Devices \ devices :
       /\ devices' = devices \cup {c}
       /\ closing' = [closing EXCEPT ![c] = @ + 1]
       /\ inotify' = Append(inotify, <<"create", c>>)
  /\ UNCHANGED <<calling, lists, errors, pipe, abort_flag, thread_vars>>

CloseFile ==
  /\ \E c \in Devices :
       /\ closing[c] > 0
       /\ closing' = [closing EXCEPT ![c] = @ - 1]
       /\ inotify' = Append(inotify, <<"close", c>>)
  /\ UNCHANGED <<loop_vars, pipe, abort_flag, thread_vars>>

Unplug ==
  /\ DevicesChange
  /\ \E c \in devices :
       /\ devices' = devices \ {c}
       /\ inotify' = Append(inotify, <<"delete", c>>)
  /\ UNCHANGED <<calling, lists, errors, closing, pipe, abort_flag, thread_vars>>

-----------------------------------------------------------------------------
(* The device thread *)

\* shutdown_backend, after which the thread returns.
Shutdown ==
  /\ err' = TRUE
  /\ failed' = TRUE
  /\ Signal
  /\ thread' = "ended"
  /\ UNCHANGED <<devices, changes, emitted, ready, safe>>

Poll ==
  /\ thread = "poll"
  /\ inotify # <<>> \/ pipe
  /\ abort_flag' = TRUE
  /\ IF ~abort_flag
     THEN /\ thread' = "ended"
          /\ UNCHANGED <<loop_vars, revents>>
     ELSE \/ /\ thread' = "events"
             /\ revents' = (IF inotify # <<>> THEN {"inotify"} ELSE {})
                             \cup IF pipe THEN {"pipe"} ELSE {}
             /\ UNCHANGED loop_vars
          \/ Shutdown /\ UNCHANGED <<found, revents>>  \* no memory for poll
  /\ rescan' = FALSE
  /\ UNCHANGED <<kernel, pipe, pending_files, card_index>>

Reading == thread = "events" /\ "inotify" \in revents /\ inotify # <<>>

Create(c) ==
  \/ /\ pending_files' = Append(pending_files, c)
     /\ UNCHANGED <<loop_vars, thread, rescan>>
  \/ Shutdown /\ UNCHANGED <<found, rescan, pending_files>>  \* no memory

SwapRemove(s, i) ==
  [j \in 1..(Len(s) - 1) |-> IF j = i THEN Last(s) ELSE s[j]]

\* Only a close, and only of a file that was created since.
WhilePending(kind, c) ==
  IF kind = "close" /\ Contains(pending_files, c)
  THEN LET i == SelectInSeq(pending_files, LAMBDA f : f = c)
       IN  /\ pending_files' = SwapRemove(pending_files, i)
           /\ rescan' = (rescan \/ Len(pending_files) = 1)
  ELSE UNCHANGED <<pending_files, rescan>>

ReadEvent ==
  /\ Reading
  /\ inotify' = Tail(inotify)
  /\ LET kind == Head(inotify)[1]
         c == Head(inotify)[2]
     IN  \/ kind = "create" /\ Create(c)
         \/ /\ kind # "create" /\ pending_files # <<>>
            /\ WhilePending(kind, c)
            /\ UNCHANGED <<loop_vars, thread>>
         \/ /\ kind # "create" /\ pending_files = <<>>
            /\ rescan' = (rescan \/ kind = "delete")
            /\ UNCHANGED <<loop_vars, thread, pending_files>>
  /\ UNCHANGED <<closing, pipe, abort_flag, revents, card_index>>

\* The pipe is drained and refresh_devices called if there is a reason.
EventsRead ==
  /\ thread = "events" /\ ~Reading
  /\ pipe' = (pipe /\ "pipe" \notin revents)
  /\ IF rescan \/ "pipe" \in revents
     THEN thread' = "scan" /\ card_index' = 0 /\ found' = {{}}
     ELSE thread' = "poll" /\ UNCHANGED <<card_index, found>>
  /\ UNCHANGED <<world, calling, ready, safe, errors, kernel, abort_flag, revents,
                 rescan, pending_files>>

\* snd_card_next finds another card.
ScanNext ==
  /\ thread = "scan"
  /\ \E c \in devices :
       /\ c > card_index /\ \A d \in devices : d > card_index => c <= d
       /\ card_index' = c
  /\ thread' = "open"
  /\ UNCHANGED <<loop_vars, kernel, pipe, abort_flag, revents, rescan, pending_files>>

\* A card that has gone ends the loop over the cards.
ScanOpen ==
  /\ thread = "open"
  /\ IF card_index \in devices
     THEN found' = {(UNION found) \cup {card_index}} /\ UNCHANGED card_index
     ELSE card_index' = NDevices /\ UNCHANGED found
  /\ thread' = "scan"
  /\ UNCHANGED <<world, calling, ready, safe, errors, kernel, pipe, abort_flag,
                 revents, rescan, pending_files>>

\* Any call of ALSA, and any allocation; a card whose file is not yet closed.
ScanFails ==
  /\ thread \in {"scan", "open"}
  /\ found' = {}
  /\ Shutdown
  /\ UNCHANGED <<kernel, pipe, abort_flag, revents, rescan, pending_files, card_index>>

ScanPublishes ==
  /\ thread = "scan"
  /\ \A c \in devices : c <= card_index
  /\ ready' = found /\ found' = {}
  /\ Signal
  /\ thread' = "poll"
  /\ UNCHANGED <<world, safe, errors, kernel, pipe, abort_flag, revents, rescan,
                 pending_files, card_index>>

-----------------------------------------------------------------------------
(* The client's thread.  have_devices_flag is set with the first list.     *)

have_devices_flag == ready # {} \/ safe # {}

\* Mutant: the wait for the first list does not end with an error.
MustWaitForDevices ==
  \/ client = "enter" /\ Head(waits)
  \/ ~have_devices_flag

MustWait ==
  \/ client = "enter" /\ Head(waits)
  \/ ~have_devices_flag /\ ~err

FlushWaits ==
  /\ client \in {"enter", "awake"} /\ MustWait
  /\ client' = "asleep"
  /\ UNCHANGED <<waits, callback, world, lists, errors, alsa_vars>>

Flush ==
  /\ client \in {"enter", "awake"} /\ ~MustWait
  /\ Emit(err, ready)
  /\ UNCHANGED <<world, found, err, alsa_vars>>

Client ==
  \/ Call /\ UNCHANGED <<world, lists, errors, alsa_vars>>
  \/ FlushWaits
  \/ Flush
  \/ CallbackReturns /\ UNCHANGED <<world, lists, errors, alsa_vars>>

\* soundio_wakeup, from another thread of the client; a spurious wakeup.
Wakeup ==
  /\ client = "asleep" /\ Signal
  /\ UNCHANGED <<world, lists, errors, alsa_vars>>

force_device_scan ==
  /\ client = "idle" /\ changes < MaxChanges
  /\ changes' = changes + 1
  /\ pipe' = TRUE
  /\ UNCHANGED <<devices, failed, calling, lists, errors, kernel, abort_flag,
                 thread_vars>>

Destroy ==
  /\ client = "idle" /\ client' = "joining"
  /\ abort_flag' = FALSE /\ pipe' = TRUE
  /\ UNCHANGED <<world, waits, callback, lists, errors, kernel, thread_vars>>

Join ==
  /\ client = "joining" /\ thread = "ended"
  /\ client' = "gone"
  /\ ready' = {} /\ safe' = {}
  /\ UNCHANGED <<world, waits, callback, found, errors, alsa_vars>>

-----------------------------------------------------------------------------
Thread ==
  \/ Poll \/ ReadEvent \/ EventsRead \/ ScanNext \/ ScanOpen \/ ScanFails
  \/ ScanPublishes

Next ==
  \/ Plug \/ CloseFile \/ Unplug \/ Thread \/ Client \/ Wakeup
  \/ force_device_scan \/ Destroy \/ Join
=============================================================================
