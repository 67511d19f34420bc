# A TLA+ verification of opma

opma is a command-line player for VGM and VGZ files: a Zig program (`src/src/`,
about 1300 lines) that interprets the commands of a song, emulates two sound
chips and hands the samples to libsoundio (`src/lib/libsoundio/`, about 13000
lines of C), which is built with it. The repository carries the description of
the file format it follows, `src/vgmspec171.txt`.

This directory holds TLA+ modules that model the player, its chips and
libsoundio with all six of its backends, TLC configurations that check them on
small instances, and theorems that TLAPS proves for every value of the
constants. Paths below are relative to the repository, as `src/src/player.zig:183`,
or give the name of the file alone.

Contents: [1 The system](#1-the-system) - [2 Plan](#2-plan) -
[3 Modules](#3-modules-and-the-code-they-model) - [4 Runs](#4-runs) -
[5 Proofs](#5-proofs) - [6 Findings](#6-findings) -
[7 What is not modelled](#7-what-is-not-modelled) - [8 Running](#8-running)

## 1 The system

```
 main.zig --names, loop count--> player.zig start()      main thread
                                     |  opens the stream, loads the first song,
                                     |  starts the stream, waits for events
                                     v
                         libsoundio (soundio.c, one backend)
                                     |  threads of its own: write_callback whenever
                                     |  the device has room; lists of devices
                                     v
                         player.zig writeCallback        audio thread
                           nextStep: one command ---> psg.zig, scc.zig registers
                           one frame             <--- psg.zig, scc.zig samples
                           end of a song: nextVGM ---> vgz.zig, vgm.zig
```

The main thread of the player does everything up to `soundio_outstream_start` and
then only waits for events. After that the whole player runs inside
`writeCallback` on libsoundio's thread, the loading of the next file and the exit
of the process included. The state that `start` initialised is handed over by the
start of the stream and is not locked; nothing on the main thread touches it
afterwards.

Inside libsoundio a connection has up to four kinds of threads: the client's,
which calls the functions and is called back for events; one that looks for
devices (ALSA, CoreAudio, WASAPI) or the main loop or notification thread of a
sound server's library (PulseAudio, JACK, CoreAudio, Windows); and one per stream
that calls its callback.

| component | state | operations | talks to |
|---|---|---|---|
| command line `main.zig` | position in the arguments, files, options | one argument at a time | starts the player |
| player `player.zig`, `bitview.zig` | play list, song, position, wait, loop count, chips | start, nextVGM, nextStep, writeCallback | libsoundio by callback; the chips by calls |
| VGM and GD3 parser `vgm.zig` | counters of two passes over the tags | VGM.init | called by nextVGM |
| VGZ reader `vgz.zig` | position in the file | openAndInflate | called by nextVGM |
| PSG `psg.zig` | 14 registers, 3 tones, noise, envelope, interpolator, FIR filter, DC filter | writeRegister, process | called for each write and each frame |
| SCC `scc.zig` | 5 voices, mixer table | writeRegister, process | as the PSG |
| OPM, PCM | none (stubs) | | |
| libsoundio core `soundio.c` | backend, its functions, reference-counted devices, lists of them, streams | connect, disconnect, device and stream lifecycle, events | dispatches to a backend |
| channel layouts, capabilities `channel_layout.c`, `soundio.c` | tables | what a device supports, the nearest rate | opening a stream |
| ring buffer `ring_buffer.c` | two atomic offsets, mirrored memory | free/fill count, pointers, advance, clear | a writer's and a reader's thread |
| threads `os.c` | conditions, mutexes, threads, mirrored memory | wait, timed wait, signal, join | every backend |
| ALSA `alsa.c` | inotify, a pipe, scans; a PCM, its thread and flags per stream | events; open, start, pause, clear, destroy, begin/end of writes and reads | kernel, alsa-lib |
| PulseAudio `pulseaudio.c` | context, queued scan, operations; pa_stream, chunk | as ALSA | the server, under the main loop's lock |
| JACK `jack.c` | refresh flag; client, ports | as ALSA without pause and clear | the server's notification and process threads |
| CoreAudio `coreaudio.c` | four flags, three conditions; an audio unit | as ALSA without clear | CoreAudio's threads |
| WASAPI `wasapi.c` | queued scan; audio client, pause and clear flags, packet | as ALSA | Windows' notifications, events, audio clients |
| dummy `dummy.c` | stream state, atomic flags, clock | as ALSA | ring buffer |
| lists `list.h`, build | none of a protocol | | |

What is hard about them:

* *Cutting.* Sound is a sequence of commands, samples and register writes. The
  device cuts it at arbitrary places, into callbacks, the partial grants of
  `soundio_outstream_begin_write`, and frames (`player.zig:165-211`). No sample
  or write may be lost, doubled or moved by a cut, and songs change in the
  middle of a grant.
* *A byte stream without framing.* A command of the wrong length turns operands
  into opcodes for the rest of the song (`player.zig:100-160`).
* *Real-time callbacks that loop.* Commands that do not wait are executed in a
  loop inside the callback. A song must not be able to keep it there.
* *Lock-free sharing.* The ring buffer's counts are differences of two atomics
  that two threads change and that wrap.
* *Lists handed from thread to thread.* Devices are counted by plain integers
  (`soundio.c:393`); one thread builds and publishes a list, another fetches,
  shows and frees it, and what changes meanwhile must lead to another scan.
* *Waits without a predicate.* `wait_events` of every backend waits whatever has
  happened since it looked (`alsa.c:972`), flags are tested outside a lock
  (`alsa.c:815`, `coreaudio.c:804`), conditions lose signals (`os.c` with kqueue).
* *A device that changes under a call.* Between any two calls of alsa-lib the
  device may starve, overrun, be suspended or unplugged, and each call then
  fails in its own way, with recovery in the middle of a callback.
* *Requests between threads.* Clear, pause and destroy are atomic flags set at
  any moment and looked at in a fixed order once per period
  (`dummy.c:30-77`, `alsa.c:1144-1188`, `wasapi.c:1432-1468`).
* *Partial failure.* Every init and open function fails at each of its steps and
  must free what it has; `soundio_connect` then tries the next backend.
* *Boundaries.* Most indices of the chips come from the file or from counters
  that overshoot by one before they are corrected (`psg.zig:269`).

Builds: `src/build.zig` takes Zig's default mode, Debug, in which an overflow,
an index out of bounds and a narrowing that loses bits end the process. They are
modelled as a panic: an outcome of its own, never as undefined behaviour.

The properties that make each component correct are in section 4, beside the run
that checks them. `PROJECT.json` lists the hazards with the properties that would
catch each, and says where a property had to leave a case out because the code
fails it.

## 2 Plan

In the order of what matters most to somebody who listens. Abstract
specifications are in italics.

| step | modules | implements | states and proves | |
|---|---|---|---|---|
| 1 | Player | *Playback* | the player implements the play list; no bytes hang it; proved except the liveness | done |
| 2 | RingBuffer | *ByteQueue* | a queue, assertions, stale estimates; all proved | done |
| 3 | DummyOutStream | *OutStream* | grants fit, promises of soundio.h, requests are served; all proved except the liveness | done |
| 4 | Psg, PsgFilters | *DelayLine* | envelope, noise, pacing, sliding window, mean; proved | done |
| 5 | Scc | | mixer index, frequency changes; proved | done |
| 6 | VgmFile | | both passes agree, tags are the text, acceptance; proved | done |
| 7 | SoundIo | | connecting and its failures, reference counts, streams' lifecycle and defaults; proved | done |
| 8 | EventLoop; AlsaEvents, PulseEvents, JackEvents, DummyEvents, CoreAudioEvents, WasapiEvents; Backends | *DeviceEvents* | device events of every backend, liveness of lists and calls; the refinement proved | done |
| 9 | StreamLoop; AlsaStreams, PulseStreams, JackStreams, CoreAudioStreams, WasapiStreams, DummyInStream; Streams | *OutStream*, *InStream* | streams of every backend, liveness of calls; the refinements proved | done |
| 10 | ChannelLayout | | best match and sorting against a reference definition | left |
| 11 | alsa.c, wasapi.c probing | | what `probe_device` and `refresh_devices` conclude from a device's answers | left |

Bounds are named constants or definitions of the MC modules. Each is chosen so
that what the property is about happens several times: an offset wraps several
times, a song loops and another one follows, devices change while the change
before is being looked at.

The project keeps to twelve runs, one question each. What the backends have in
common is checked in common: they are composed by `current_backend`, so that one
property says the same of all of them.

## 3 Modules and the code they model

A module states what the code does, its properties are at its end; `MC<Module>`
gives constants for TLC; `<Module>Proofs` proves, PlayerProofs about VgmFile, too,
PsgProofs about PsgFilters, and DummyProofs about RingBuffer and DummyOutStream.
Induction has the facts about numbers and recursive functions that these rest on.
Some operators carry the comment "Mutant" and stand just before the operator they
deviate from, as a plausible bug would. No specification uses them; substituted for
the original one at a time, each makes TLC report the property that `PROJECT.json`
pairs it with, which shows that the property can fail.

### Player (`player.zig`, `bitview.zig`)

A file is a record of what the header says and a function from positions to bytes.
`main` and `cb` are the program counters of the two threads. Actions of the main
thread: `OpenStream` (with the checks of rate and channels), `LoadFirst`,
`StartStream`; where `start` returns an error, `GiveUp`. Actions of the audio
thread: `EnterCallback`, `BeginWrite` (any grant from none to all that was asked
for), `EndWrite`, `WriteFails`, `RenderFrame` (one turn of the frame loop with a
wait pending), and one action per command of `nextStep`, with `LoopBack`, `EndSong`,
`SkipByte` for what it does not know, `ReadPastEnd` for the panic of an operand
beyond the data and `WritePanics` for that of a write which its chip does not take
(`PsgTakes`, `SccTakes`). `NextVGM` is `nextVGM`: next file, exit, or the panic that
its callers make of its errors.

`ic` is the log of register writes since the chips were initialised, each with
the number of frames rendered before it. It stands for the chips' state: what
they sound like is a function of this log and of the frames, and their inside is
Psg's and Scc's matter. `played` is a history variable.

*Playback* knows nothing of bytes, positions of callbacks, or errors: songs are
graphs of commands with writes and waits. The second half of Player maps a file
to the song that its writer meant, with the encoding of `vgmspec171.txt` and not
the code's, and `PlaysBack` says that Player implements Playback under that
mapping, if the files are well-formed (`AllWellFormed`): every marked position
begins a command that this player knows and the next one is marked, too. MCPlayer
has such files and assumes it, MCRawBytes has others. A file's `times` says how many
samples lie between its first command and each marked one; `AllTimed` that the
waits of the commands, as the format counts them, add up to these times and to the
header's `total_samples` and `loop_samples`, which is what the format means by
them. Neither is read by an action.

### RingBuffer (`ring_buffer.c`)

Each load and store of an atomic offset and each byte copied is an action, so
that all interleavings of the two threads are explored. Offsets are taken modulo
`OffsetModulus`, the range of `unsigned long`; `Count` is the subtraction and
the conversion to `int`. An assertion that fails sets `failed`. The variable
`use` is one of `Uses`, the ways a buffer is used, and does not change: two
threads that write and read ("threads"), one that writes, reads and clears in
turns as the dummy backend's does ("turns"), two threads of which the writer
clears ("clears"). C11's sequentially consistent atomics,
which the code uses, are what TLA+'s interleaving means. *ByteQueue* is a
bounded queue of batches.

### Psg, PsgFilters (`psg.zig`)

Psg has the registers, from which `writeRegister` derives periods, volumes and mixer
bits every time (operators here), the counters of tones, noise and envelope, and
`x`, the fraction of an update of the chip that is owed, in whole units of
`1 / Rate`; `step` is what an iteration adds, the clock of the file's header in the same
units. Two variables are history: `steps`, the moves of the envelope since it was
last restarted, and `span`, the iterations and updates of the current span of `Rate`
iterations, in which the clock asks for `step` updates. PsgFilters is what happens
to the samples behind it, for every frame: `Process` is the buffer and the slice
that the first filter moves through it, `Decimated` its sum of taps (with integer
coefficients), `RemoveDc` the second filter, called by `writeCallback` right after.
*DelayLine* is a window of latest samples; both the slice and the second filter's
ring implement it.

### Scc (`scc.zig`)

The five voices through every port, the mixer and its table. The step that a
period and the clock give is a floating-point quotient, converted; it is the
constant `Step`, any table of naturals. `counter` is kept modulo the waveform's
length, which is all that the masks read. A cell is an `i8`, and the cast that
makes it one panics for a byte of 128 and more, as it does in the code.

### VgmFile (`vgz.zig`, `vgm.zig`)

What `nextVGM` does with one file. `Open` and `Look` are `openAndInflate`, up to
what it returns, `inflated`: of a stream all that is stored, of any other file what
is `Behind` its first two bytes. A file may have two stray bytes before its header,
so that these are the ones that are lost. The other actions are `VGM.init`: the
header's checks in their order, one pass that counts the characters of each tag and
one that stores them, each character an action, the conversion to UTF-8 with its
error, and the clocks by version. A character is `NUL`, one that stands for itself,
or half a surrogate pair.

### SoundIo (`soundio.c`, `channel_layout.c`, the init functions)

`soundio_connect` tries the backends in their order. An init function is a sequence
of steps (`jack_init`, `pulseaudio_init`, `alsa_init`, `dummy_init`), each of which
acquires something and may fail; `InitFails` is what its error path frees, `leaked`
what it forgets, and `InitAborts` the end of the program, where the error path uses
what is not there. A step's `undo` says which it is. `methods` says whether the
pointers to the functions of a backend are set. Lists of devices move from the scan
(`ScanBegins`, `ScanAppends`, `ScanPublishes`, or `ScanReplaces` where a backend
scans on the client's thread) to the client's flush (`FlushBegins`, `FlushFetches`,
`FlushEnds`). `ScanFails` frees the list that it built; `ScanLoses` is the one
return that does not, after which `list["lost"]` holds its devices. A device is a
block of memory: `ref_count` 0 means free, and the block may be allocated for
another device. Handles are the client's variables that hold a device. Streams are
created, opened with what the client set or left to `Resolved`, and destroyed.

The beginning of the module is what a device supports and what is chosen from it:
the table of layouts, the search for a layout or a format, the loop that finds
the nearest sample rate (`best[i]` is its variable after `i` ranges).

### Device events: EventLoop, AlsaEvents, PulseEvents, JackEvents, DummyEvents, CoreAudioEvents, WasapiEvents, Backends

*DeviceEvents* is what `soundio.h` promises: callbacks only inside a call, lists
that change only with `on_devices_change`, one `on_backend_disconnect`.
EventLoop is what the implementations have in common: the client, with `waits`
for the two flushes of a `wait_events`, the three pointers to lists (`found`,
`ready`, `safe`), and `Emit`, the end of every `my_flush_events`. What is done
while the mutex is held is one step.

| module | threads | what can go wrong between the steps |
|---|---|---|
| AlsaEvents | `device_thread_run`: poll, inotify events one by one, a scan card by card; the client; udev | files that are created but not closed, deleted and created again before they are, deletions in between, cards that vanish during a scan, `abort_flag` tested before the pipe is read |
| PulseEvents | the main loop's callbacks; the client, which scans itself | events while answers are awaited (the lock is released in the wait), the context failing at any time |
| JackEvents | notifications; the client, which scans port by port | ports that vanish between two calls, changes during a refresh, shutdown |
| DummyEvents | the client, a wakeup | |
| CoreAudioEvents | `device_thread_run`, the listeners, the client | signals of a kqueue before the first wait and between two; a restart of the service |
| WasapiEvents | `device_thread_run`, notifications, the client | changes during a scan, every failure of registering and scanning |

Backends instantiates the six, of which `current_backend`, chosen in `Init`, takes
all steps. Kernel, servers and operating systems are modelled from how the code
uses them, and marked external.

### Streams: StreamLoop, AlsaStreams, PulseStreams, JackStreams, CoreAudioStreams, WasapiStreams, DummyInStream, DummyOutStream, Streams

*OutStream* and *InStream* are what `soundio.h` says to a client, in frames. What
has been written leaves an output stream in three ways only: the device plays no
more than is `due` (none while it is paused), a clear that was asked for drops it,
or the device is `broken` and loses it (`Lose`); an input stream loses frames
with a broken device and no other. `due` and `broken` are the device's state, which
the refinement mappings of Streams (`Due`, `Broken`) and DummyOutStream give.
StreamLoop is the client's callback, which writes or reads any part of what it is
told of, in any number of pieces, and gives up after an error.

| module | runs the callback | what can go wrong between the steps |
|---|---|---|
| AlsaStreams | a thread per stream, on the state of a PCM as it was read | underrun, overrun, suspension and unplugging at any step, in both kinds of access (mmap, read/write); recovery; pause, clear, exit while polling, a poll that fails (`PollFails`) |
| PulseStreams | the main loop, under its lock | calls that wait for an answer and let go of the lock; chunks read in parts, holes; failure of a stream |
| JackStreams | the process thread, once a cycle | shutdown of the server, closing a client during a cycle |
| CoreAudioStreams | CoreAudio, once for each buffer | a render that fails, disposal during a callback |
| WasapiStreams | a thread per stream that opens, starts and runs it | destroy while it opens or waits for start; pause and clear flags in any order; packets read in parts; unplugging |
| DummyInStream | the capture thread | overflow, destroy at any step |
| DummyOutStream | the playback thread | see below |

Streams composes all but the last by `current_backend` and `direction`.
DummyOutStream has a run and proofs of its own. Its client's thread: `Open`,
`Start`, `Pause`, `ClearBuffer`, `Destroy` (up to the join) and `Join`, with
their failures. The playback thread: `First` is the filling before the loop,
`CheckAbort`, `TimedWait`, `CheckClear`, `CheckPause`, `Consume` are the
statements of the loop between which another thread can act, `Call` and the
client's `BeginWrite`, `EndWrite`, `Return` its callback. Time is counted in
frames; `Tick` lets one pass; the thread wakes up whenever it likes, early or up
to `MaxDue` frames late. The ring buffer is touched by this thread alone and is
its fill count here.

## 4 Runs

Each run answers one question. The last one, a "violation" run, checks a
sentence of `soundio.h` that the code does not keep; section 6 says more.

| run | module, cfg | shows |
|---|---|---|
| `player` | MCPlayer, MCPlayer.cfg | Play lists are played faithfully (`PlaysBack`), each song for the samples its header promises (`SongLength`), to the end (`Terminates`), on commands only (`OnCommand`), of which every byte is there (`ReadsInside`), inside the grants (`InsideGrant`), and panic only over a file that does not load or a write that its chip does not take (`PanicsAreKnown`). Some lists hold unreadable, unparsable, chipless and dual-chip files, or such a write; devices may be unsuitable and the stream may fail: what was played before is still a prefix of the play list |
| `raw_bytes` | MCRawBytes, MCRawBytes.cfg | No bytes keep the audio thread in `nextStep` for ever (`Terminates`) |
| `ring_buffer` | RingBuffer, RingBuffer.cfg | Two threads, or one with clears: assertions hold (`AssertionsHold`), old counts are safe (`SafeEstimates`), a queue of bytes (`IsQueue`) |
| `dummy_out_stream` | DummyOutStream, DummyOutStream.cfg | Grants fit (`GrantFits`), soundio.h's promises are kept (`KeepsPromises`), a clear is served although the stream is paused (`ClearIsServed`), destroy returns (`DestroyReturns`) |
| `vgm_file` | MCVgmFile, MCVgmFile.cfg | The second pass fits what the first counted (`SecondPassFits`), the tags are the text (`TagsAreTheText`), parsed are exactly the sound files that begin where `openAndInflate` goes on (`ParsedWhenSound`) |
| `psg` | MCPsg, MCPsg.cfg | Every envelope shape is drawn as the AY8910's four bits mean (`EnvelopeHasItsShape`), from levels of the DAC's table (`TypeOK`), the noise never dies (`NoiseNeverStops`), over each span there are as many updates as the clock asks for, or, when it is too fast, as many as there are iterations (`RunsAtItsClock`) |
| `psg_filters` | MCPsgFilters, MCPsgFilters.cfg | The jumping window is a delay line (`IsDelayLine`), the ring behind it another (`IsRingOfResults`), the output a sample less the mean of the latest (`MeanIsRemoved`) |
| `scc` | MCScc, MCScc.cfg | The mixer's index is in its table with halted voices, too (`MixerInTable`), no new period moves a voice (`PositionKept`), all in the code's types (`TypeOK`) |
| `sound_io` | MCSoundIo, MCSoundIo.cfg | Every reference to a device is counted and no device freed early (`RefsAreHeld`), although the counts are plain integers (`CountsAreUnshared`); a connection that ends leaves nothing behind but what section 6 names (`NothingLeftBehind`); a stream opens with the defaults of soundio.h (`OpensAsPromised`) |
| `backends` | Backends, Backends.cfg | For each of the six backends: lists change and callbacks come as soundio.h says (`KeepsPromises`), the client sees the devices that there are in the end (`ClientIsUpToDate`), `wait_events`, `flush_events` and `disconnect` return (`CallsReturn`) |
| `streams` | Streams, Streams.cfg | For each backend (the dummy's output stream excepted, which has its own run): callbacks, grants and errors come as soundio.h says, frames leave as they are due, by a clear that was asked for or with a device that stopped (`OutStreamsKeepPromises`), or are lost with such a device or an overrun (`InStreamsKeepPromises`), and calls return (`CallsReturn`), through everything that can happen to a device |
| `lost_event` | Backends, MCLostEvent.cfg | violation of `EventsEndTheWait` |

### Bounds, and why they are enough

* **Player.** `MaxFrames` bounds what a callback is asked for, 3; with every
  grant from 0 up to that, every cut of a song into callbacks, grants and frames
  between two commands or samples happens. Four sound play lists: songs with and
  without a loop, one of no samples, one that is 1617 samples long (the two fixed
  waits), the same song twice in a row, none at all. Eight unsound ones: each kind
  of bad file second in a list, so that the audio thread meets it, and so a song
  with a write to a register of the PSG and one with a cell of the SCC that are not
  taken; two kinds as the first, which the main thread meets. `LoopCount` 2 tells the first
  repetition from the last. A song's own length bounds everything else.
* **Raw bytes.** Strings of 0, 1, 4 and 6 bytes over an end of data, a data
  block, a wait and an unknown byte, without a loop, with loops to the first
  and the second byte and beyond the end: a block's six bytes fit, reads past
  the end happen at every command, loops of no samples exist.
* **Ring buffer.** Capacity 2 and offsets of three bits: both offsets wrap, any
  number of times, with the buffer empty, half full and full. Two values of
  bytes tell a stale byte from a new one. `Init` has arbitrary memory.
* **Dummy stream.** Seven bytes and frames of two, since a frame need not
  divide the capacity; `MaxDue` = 4 frames of lateness are more than the three
  that fit, so that underflows happen with every fill.
* **VgmFile.** Two tags (`NumTags`; the code has eleven) and texts of up to four
  characters reach the third tag and every place of a surrogate; headers of
  every version that adds fields, and sizes on both sides of each limit; plain
  files too short to look at, too short for the parser, and whole; with and
  without two stray bytes, the number that is read to recognise a stream, and
  with texts.
* **PSG.** Levels 0 to 3 and a noise register of five bits. The properties
  depend on neither number, which section 5 proves. Rate 3 and clocks 2 and 4
  never divide each other: with the first a span has iterations with and without an
  update, with the second the chip falls behind, which is followed for two spans
  (`OwesLittle`). All sixteen shapes, with and without interruption.
* **Filters.** Three blocks of two samples (24 of 8 in the code) and a ring of
  four (1024): the window jumps back at every second call and the ring wraps at
  every fourth.
* **SCC.** Two cells in four fractions of a position (32 in 2^16), two speeds.
  Five voices as in the code, of which two are written, so that a halted voice
  is mixed with a moving one.
* **SoundIo.** Three devices with rates below and above 48000 Hz in either order,
  with and without the default's format and layout, so that each default has its
  own answer; two
  handles, which are alike and therefore symmetric, so that one device is held
  twice and two are held at once; one output and one input stream; four backends,
  so that failures follow each other; three ways of asking: all defaults, a format
  alone, more channels than there are. A behaviour ends where it has lost two
  devices, or both a list and what ALSA's init forgets (`LostLittle`), since what is
  lost only accumulates. Section 5 proves the reference counts for
  any number of each.
* **Backends.** Two devices, one of which is a sink and one a source; two changes
  (`MaxChanges`), so that one comes while the one before is being looked at, one
  (`CoreAudioChanges`) with CoreAudio, whose first scan, forced scan and restart
  of the service overlap with it already. Scans, wakeups and calls are not
  bounded. With ALSA a
  file may be open from before (`OpenBefore`, that of the first card alone), so that a
  card that goes and comes back finds its first file still open, within two changes.
* **Streams.** Buffers of four frames in periods of two (`Room`, `PeriodSize`),
  so that a wait for a period is not a wait for the buffer, and a read can be
  partial. Three interruptions of a device (`MaxInterruptions`): a suspension and
  an overrun while the recovery from one before is running. Pauses, clears,
  and the client's calls are not bounded.
* **Lost event.** One device and one change are enough for the counterexample,
  with every backend's events in the specification.

### Fairness

Safety runs use none. The liveness runs assume:

* `player`, `raw_bytes`: both threads are scheduled (`WF` of the main thread's
  and the audio thread's actions) and libsoundio goes on calling back; and
  strong fairness of a grant of at least one frame, because a device that plays
  makes room, again and again (`soundio.h` calls the callback only when it has
  room, and the backends wait for it). A callback that is granted nothing each
  time would play nothing, whatever the player did. The ends that `Terminates`
  speaks of include panics.
* `dummy_out_stream`: `WF` of the playback thread, whose wait is a timed one
  (`dummy.c:46`) and therefore ends, and whose callback returns, being made of
  finitely many writes; `WF` of `Join`, which pthread_join gives once the thread
  has ended. Nothing is assumed of the client or of the passing of time.
* `backends`: `Scheduling`, which is `WF` of four roles. Exactly one backend is
  chosen and never changes, so that one condition per role is one per thread:
  `Client` (a client goes on flushing or waiting, as `soundio.h` asks; a call
  once begun runs on), `DeviceThread`, `Notification` (servers and the kernel
  deliver, udev closes the files it opens), `Join`. `Wakeups`: some thread calls
  `soundio_wakeup` again and again, without which a `wait_events` lasts as long as
  nothing changes. Nothing is assumed of the devices, of failures, or of
  destruction. `lost_event` assumes `Scheduling` alone: the promise that it
  refutes is that the event itself ends the wait.
* `streams`: `WF` of the threads, of the process, render and main-loop
  callbacks, and of joins; `WF` of alsa-lib's device, which goes on playing
  (a period passes, a poll returns; that a poll fails is not fair, it may never
  happen). Strong fairness where a lock is free again
  and again and not all the time: a thread that waits for PulseAudio's main-loop
  lock gets it between two callbacks (`MainLoop`, `Proceeds`), `jack_client_close`
  and the disposal of an audio unit happen between two cycles (`ClientClosed`,
  `Disposed`). Nothing is assumed of the client's calls: it need neither start
  nor destroy a stream.

Deadlock is checked where the component goes on for ever. The runs of programs
that end say `CHECK_DEADLOCK FALSE`: parsing and reading a file, a stream that is
destroyed, a connection that is closed, chips that a write has made panic. Player
has `Stopped`, a step that changes nothing, for the process that has ended.

### Cases that the properties leave out

Some properties except a named case, because the code fails them there: without
the exception TLC finds a counterexample, so that all of these cases happen in
the runs. Section 6 describes each.

| property | leaves out |
|---|---|
| `Player!PanicsAreKnown` | writes that a chip does not take (`WritesAreTaken`), and the next file's failure to load |
| `Psg!RunsAtItsClock` | clocks that are too fast, for which it says how many updates there are |
| `Backends!ClientIsUpToDate` | PulseAudio, when the connection is lost at the end of a refresh and the error is overwritten; a JACK server without ports; CoreAudio's lost signals |
| `Backends!CallsReturn` | ALSA's thread, when it reads the request to end away (`Overlooked`); CoreAudio's lost signals (`Unheard`, `Overlooked`) |
| `Streams!OutStreamsKeepPromises` | WASAPI's callback without room (`CallsEarly`), PulseAudio's with a count of -1 (`InCallback`) |
| `Streams!InStreamsKeepPromises` | an ALSA device that is suspended and resumed between begin_read and end_read (`ReadsAgain`), and areas that a recovery has made stale, whose end may recover a device that runs again |
| `Streams!CallsReturn` | a PulseAudio stream that fails while it is waited for; a paused input stream of ALSA that is destroyed |

The promises of *DeviceEvents* and of *OutStream* in `dummy_out_stream` have no
exception.

## 5 Proofs

TLAPS checks every proof below to its leaves; nothing is assumed beyond the named
ASSUMEs of the modules, which TLC evaluates on each run: that constants are numbers
of the right kind, that a file is a record of bytes, that a ring's capacity is less
than half of the offsets' range (`RingBufferAssumption`), that the FIR filter's size
is a multiple of the factor, that the backends are a sequence of the names the code
has and handles and streams are finitely many (`SoundIoAssumption`), that a device
probed without error has formats, layouts and rates (`DevicesAssumption`), that a
period fits in a stream's buffer (`StreamLoopAssumption`), that a stored file has
sizes, flags and a text (`VgmFileAssumption`), that samples and coefficients are
integers (`DcAssumption`). Some theorems name what they need further in their
statement: `AllWellFormed`, that files are made of known commands, and `AllTimed`,
that their headers count the samples of the waits (the list of MCPlayer satisfies
both), and for the ring buffer `ClearsAlone` and `CapacityDivides`.

| theorem | for every | argument |
|---|---|---|
| `PlayerProofs!TypeCorrect`, `GrantRespected` | list of files of any bytes, loop count, device, callback size | `IInv` adds `SongLoaded`: the audio thread runs only after the first song is loaded, without which `files[vgm]` means nothing. Little-endian reads are in range by `Read16Range`, `Read32Range` |
| `PlayerProofs!StaysOnCommands` | list of well-formed files | On a marked position the code's `BytesRead` is one more than the format's `Operands` (`BytesReadIsOperands`), the bytes are there (`AtCommand`), so that each command ends on a mark |
| `PlayerProofs!StaysInside` | such a list | from the above: all bytes of the command at a mark are there (`CommandThere`), and `ReadPastEnd` is disabled; of the other steps of `nextStep` only `EndSong`, by the next file, and `WritePanics` panic (`NextStepFetches`, `PanicIsOfSong`) |
| `PlayerProofs!PlaysBackList` | list of well-formed files, failures included | refinement: `Counted` says that the song playing is the one last taken; then each action is a step of Playback or a stutter: `SilentStep`, `SampleStep`, `FirstStep`, `CommandStep`, `EndStep` |
| `PlayerProofs!PlaysFullLength` | list of well-formed files whose headers count their samples, loop count, cuts | `OnTime`: what has been played and what is left of the wait are together the `times` of the position in the file and `loop_samples` for each repetition. Every command keeps this because its wait is the format's, `LoopBack` because the samples behind the loop's start are `loop_samples`. A song is left only at its end and after its last repetition (`LeavesAtLength`) |
| `PlayerProofs!TagsFit`, `TextIsCut` | text, length in bytes, number of names | `FileInv`: behind n characters both passes are at tag `TagOf` and in it at `PosOf`, the number of NULs before and the distance to the last. `Counts` says that the lengths are room for each character and for no more, `Filled` that each one is where it belongs. No two are stored in one place (`CutsApart`), so that a store keeps what was stored (`FillsOneMore`) |
| `PlayerProofs!SoundFilesParse` | what is stored | a file that is cut has no identification; each other error is one of a file that is not `Sound`: a panic of the first pass means a length beyond the text or more tags than names (`CountCharKeeps`), the second has none, and the tags convert if and only if the text has its surrogates in pairs, which no cut parts (`PairsAreKept`) |
| `DummyProofs!NoAssertionFails`, `EstimatesAreSafe` | capacity, width of the offsets, interleaving, when no clear meets another thread's read (`ClearsAlone`: "clears" is none of the `Uses`) | `Counts` relates what each thread has loaded to the truth: the writer's count only overestimates, the reader's only underestimates. `WriteGrows`, `ReadShrinks` carry it across the wrap |
| `DummyProofs!BytesAreQueued` | such a capacity that divides the range of the offsets (`CapacityDivides`; section 6 shows why) | refinement of *ByteQueue*: `InFlight` says that the cells hold what each thread has copied and has not advanced over; by `PositionMoves` and `CellsMove` positions modulo the capacity move with the offsets across the wrap; `PutContents`, `GetContents`, `CopyContents` are the steps |
| `DummyProofs!CountsInRange`, `NoOverrun` | capacity, frame size, lateness, client | `Order`: a write is begun only inside a callback; whole frames of a number of bytes fit in it (`FramesFit`), and free frames counted before a consumption still fit after it (`AskGrants`) |
| `DummyProofs!PromisesAreKept` | the same | refinement of *OutStream* with a device that never breaks, from `IInv` and `Alive`: what the client believes about the stream agrees with where the thread is, also between the request to destroy and the join |
| `PsgProofs!BufferTypeCorrect`, `FiltersLatestSamples` | factor, size, set of samples | `Kept`: behind the slice lie the latest samples; `Ahead`: those copied to where it will jump to are the same |
| `PsgProofs!MeanOfLatestResults` | size of the ring | refinement of *DelayLine* by the ring behind: `RingStep` says that the cell overwritten is the oldest and every other is one older |
| `PsgProofs!SumIsOfRing` | sizes of both filters, integer samples and coefficients | `SumInv`: the running sum is the total of the ring, as a step changes one term of it by what it changes the sum (`TotalOfChanged`). `Total` is a recursive function; `SumsExist` says that there is one and `TotalIsLast` what it gives, both by `Recursion` and `SetInduction` |
| `PsgProofs!PsgTypeCorrect`, `NoiseGoesOnForever`, `EnvelopeDrawsItsShape` | number of levels, width of the noise register, writes | `Draws`: segment and level are what the number of moves since the restart gives; `TableDrawsShapes` goes through the sixteen shapes. The shift keeps a bit or sets the top one |
| `PsgProofs!ClocksAreKept` | clock, rate, writes | `Paced`: what is owed is less than one update and, with the updates of the span, exactly what its iterations have added; at the span's end nothing is owed. With a faster clock `x` grows without bound, but every iteration is an update |
| `SccProofs!SccTypeCorrect`, `MixerStaysInTable`, `FrequencyKeepsPosition` | length of the waveform, fractions, table of steps | `Quiet`: no cell is negative, and no voice, halted or not, puts out more than 127 * 15 / 8; five of them stay below 1280 |
| `SoundIoProofs!DevicesAreCounted` | order of backends, devices and what they support, handles, streams, failures | `Counted`: the count of a device is the number of its `Holders`, lists, handles and streams alike, which each action changes by what it takes and gives up (`HoldersAreCounted`; the list of what scans have lost is a holder that never lets go; one lemma for each way a list changes hands, `ListFreed`, `ListHandedOver`, and a device is held and released, `HoldCount`, `ReleaseCount`) |
| `SoundIoProofs!CountsNeedNoLock` | the same | `Unshared`: what the client's thread counts and what the backend's does are different devices, for which the two lists of the latter, built and published, must not share one either |
| `SoundIoProofs!ConnectionsEndCleanly` | the same | `Connections`: `Trying` says what an init function has acquired at each of its steps, `Unconnected` that no backend means no data, no lists and no methods, and `leaked` is within what section 6 names. An end by `InitAborts` is none of these |
| `SoundIoProofs!StreamsOpenAsPromised` | formats, layouts and rates of the devices, settings of the client | `RateIsNearest`: after each range the loop's variable is nearest of the ranges seen (`BetterIsNearest`, one turn of the loop), hence at its end of all of them. `Opening` says that only the settings of a stream that is being opened may be unresolved. The induction over the ranges is `SetInduction`, and `Recursion` says that the recursive function has the values its definition gives |
| `BackendsProofs!BackendsKeepPromises` | set of devices, number of changes, failures and notifications, each of the six backends | refinement of *DeviceEvents*. `CallOrder`: `waits` agrees with where the client is, and its last flush returns only when `Told`, with a list or a disconnection emitted. That this comes true: `HasList` for the backends whose init functions make a list, `PulseReady` for PulseAudio's answers (no scan in the queue, so one is under way or has had its result), `CoreAudioReady` for the flag that is set behind list and error. Steps of other threads are stutters (`OthersStep`), those of the client go through a lemma each for moving, calling, emitting, returning and the end of a callback |
| `StreamsProofs!StreamsInvariant` | size of the buffer and of a period, number of interruptions, each backend, both directions | `LoopInv` is what all backends share: a callback, and frames in a device, only between start and destroy (`Begun`), and a grant of no more than the callback has left. Each backend adds what its thread relies on, of which `AtRest` says that the others have none: which frames ALSA's areas still stand for (`stale`), what is left of WASAPI's packet, and for PulseAudio who holds the lock and what its chunks hold (`Holds`: not a recursive sum but the numbers of frames from each chunk on, which `FirstChunk` and `LastChunk` carry over a drop and an arrival) |
| `StreamsProofs!OutStreamsImplement`, `InStreamsImplement` | the same | refinement of *OutStream* and *InStream*. A lemma for each kind of step that any backend's thread or client takes, `Out...` and `In...` (it goes on, a device plays or captures, a callback begins, grants, ends or returns, a stream opens, starts or goes), maps it to a step or a stutter; each backend's actions are then cases of these. `CallsEarly` and `ReadsAgain` are the steps that the properties leave out |

Where a cited property is checked by a run, the theorem states the same
definition. There are 36 theorems in eight modules, and every invariant and every
action property that a passing run checks, and every refinement, is among them. Only
model-checked are `Terminates`, `ClearIsServed`, `DestroyReturns`,
`ClientIsUpToDate` and both `CallsReturn`: liveness under fairness is beyond the
prover.

Sums over a ring, the loop over a device's rates and the NULs of a text need an
induction over data. The library's theorems state it with an operator as a
parameter, which the provers cannot instantiate; `SetInduction` states it with
the set of numbers for which a statement holds, and is proved from the library's
order of finite sets, in which every non-empty set of sets has a least one.
`Recursion` follows from it: a recursive function exists, so that the CHOOSE by
which it is defined has one to choose.

## 6 Findings

What the code does and a document, a comment or a message of the repository says
otherwise, or what cannot have been meant. One has a run that TLC refutes:

| run | code | says otherwise |
|---|---|---|
| `lost_event` | `soundio_wait_events` is two flushes, the second of which waits whatever has become ready since the first looked (`alsa.c:972`, `pulseaudio.c:494`, `jack.c:334`, `wasapi.c:1175`): a list published in between is seen when the next event comes | "blocks until another event is ready" (`soundio.h:758-759`) |

`soundio_wakeup` is lost in the same way, with the dummy backend, too
(`dummy.c:148`).

The others were met while modelling and are kept here without a run. The models
do what the code does; where a constant or an exception in a property makes the
difference it is named.

### The player

* A data block's size is read at offset 2 and 6 + size bytes are skipped
  (`player.zig:128`); the format has the size at offset 3 and the data at 7
  (`vgmspec171.txt:465`). `WellFormedAssumption` has no data blocks.
* An uncompressed file loses the two bytes that were read to recognise it, and fails
  as no VGM file (`vgz.zig:31`); one with two stray bytes before it is played
  (`Behind`; `ParsedWhenSound` says exactly which). "Return file it if it is
  uncompressed." (`vgz.zig:26`).
* A cell of the SCC's waveform below zero, a byte of 0x80 and above, is a
  narrowing that panics (`scc.zig:116`), and the song's list ends there; the format
  writes any value (`vgmspec171.txt:436`). Such writes are among those that
  `PanicsAreKnown` excepts, and MCScc and MCPlayer make one.
* An unknown opcode is skipped as one byte and its operands are executed
  (`player.zig:157`); the format asks to skip the correct number of bytes
  (`vgmspec171.txt:456`).
* One frame is one VGM sample at any rate of at least 44100 Hz, so that a stream
  at 48000 Hz plays too fast (`player.zig:137`); "Wait 60TH of a second"
  (`player.zig:136`).
* A clear is a load and a store between which the reader may advance
  (`ring_buffer.c:81`); it must be called by the writer, and no more
  (`soundio.h:1204`). With "clears" among the `Uses`, `SafeEstimates` fails
  and, some steps later, `AssertionsHold`.
* Offsets modulo a capacity that does not divide their range jump where they
  wrap (`ring_buffer.c:47`), after 4 GiB of samples where `long` has 32 bits;
  `soundio.h:1172` promises a fixed-size queue. With `Capacity` 3 and
  `OffsetModulus` 8, `IsQueue` fails.
* Playback goes on after an underflow however much was written (`dummy.c:66`);
  it "waits until the buffer is full" (`soundio.h:556`).
* A last `-loop` indexes beyond the arguments (`main.zig:59`), for which
  `main.zig:60` has a message that is never printed.
* Clocks are read where the file may already have data (`vgm.zig:225`);
  overlapping header bytes are to be taken for zero (`vgmspec171.txt:40-42`).
* The PSG's registers 14, 15 and those of a second chip are out of bounds
  (`psg.zig:110`); the format writes to any (`vgmspec171.txt:398`). `PanicsAreKnown`
  excepts these writes.
* One update per iteration: beyond 64 times the sample rate the PSG falls behind
  and the interpolation leaves its interval (`psg.zig:141`); the format knows no
  limit (`vgmspec171.txt:183`). `RunsAtItsClock` says what becomes of such a clock.
* The branch for the SCC's shared RAM asks for a port of 0x60 or more under
  port 0 (`scc.zig:64`): "Channel 4 and 5 share RAM" (`scc.zig:65`).

### libsoundio: connections and devices

* ALSA's thread tests `abort_flag` before it reads the pipe empty
  (`alsa.c:815`). A `soundio_disconnect` in between is overlooked, and its join
  waits until a device changes (`Overlooked` in `Backends!CallsReturn`).
* ALSA's last list is delivered after `on_backend_disconnect` if it was ready, and
  one scan that fails shuts the backend down for good (`AlsaEvents!ScanFails`).
* A PulseAudio connection that fails while a refresh is ending has its error
  overwritten by the refresh's success (`pulseaudio.c:464`), and the client is
  never told (`Backends!ClientIsUpToDate`).
* `jack_get_ports` returns NULL when there are no ports, which is taken for a lack
  of memory (`jack.c:99`): the list keeps the last port for ever.
* CoreAudio: a kqueue condition that is signalled before somebody first waited is
  not signalled (`os.c:427`), and one signalled between two waits can be cleared
  by the next. A first `flush_events` then waits for a list that is there
  (`coreaudio.c:805`), `soundio_disconnect` for a thread that sleeps, and a change
  is missed (`coreaudio.c:874`); `Unheard` and `"scan_devices" \in dropped`.
* A device that goes during a scan of CoreAudio shuts the backend down; a return
  for lack of memory skips the clean-up of the scan (`coreaudio.c:636-638`).
* `destroy_ca` takes the list of listeners apart while the device thread, not yet
  joined, may add to it (`coreaudio.c:152`), a data race that the model leaves out.
* A device thread of WASAPI that gives up leaves the notifications registered and
  the enumerator unreleased (`wasapi.c:1118-1121`).
* A main loop, property list or context that PulseAudio has no memory for is cleaned
  up by `destroy_pa`, which disconnects and releases a context that is NULL, and
  aborts there (`pulseaudio.c:77-78`; `InitAborts`); "#SoundIoErrorNoMem" is among the
  errors that connecting returns (`soundio.h:710`).
* A scan of ALSA that cannot get the first card returns without freeing the list of
  the devices it has found (`alsa.c:652-653`; `ScanLoses`, which `RefsAreHeld` counts
  as a holder and `NothingLeftBehind` allows). One that cannot append a device of a
  card leaves the card open (`alsa.c:744-748`); the model has no cards to close.
* `soundio_connect` stops at a backend that disconnects while it connects
  (`soundio.c:214-216`), an error that its own list of them does not name
  (`soundio.h:699-704`).
* `alsa_init` that fails forgets its mutex, condition and inotify descriptors
  (`SoundIo!InitFails`, which `NothingLeftBehind` allows), and `destroy_alsa`
  after an early failure closes descriptor 0 (`alsa.c:71`).
  `soundio_outstream_create` without a device forgets the stream
  (`soundio.c:471`).

### libsoundio: streams

* `soundio_instream_open` refuses a format that is unset (`soundio.c:599`), six
  lines before it would choose one; "Defaults to #SoundIoFormatFloat32NE"
  (`soundio.h:604`).
* An input stream of ALSA that is destroyed while paused hangs in its join: the
  thread polls a device that captures nothing (`alsa.c:1574-1576`;
  `Streams!CallsReturn`).
* ALSA's `begin_read` returns the areas of before a recovery
  (`alsa.c:1796-1811`), and an `end_read` after a suspension succeeds without a
  commit, so that the frames are read again (`alsa.c:1817-1833`; `stale` and
  `ReadsAgain`). `is_paused` stays set after a clear or a recovery has made the
  device run.
* Opening a stream of PulseAudio waits for it to be ready and for nothing else
  (`pulseaudio.c:717`): if it fails it waits for ever. `write_callback` is then
  called with -1 frames (`pulseaudio.c:741-743`).
* `instream_pause` of PulseAudio returns errors with the lock held
  (`pulseaudio.c:1040`), after which everything waits; that of an output stream
  releases it though the main loop may hold it itself (`pulseaudio.c:812`).
* `read_callback` of PulseAudio and WASAPI counts frames of the chunk that were
  read already, and a hole may be granted longer than what was asked for
  (`pulseaudio.c:986`); "always be less than or equal" (`soundio.h:1113-1114`).
* A JACK stream that cannot connect a port leaves its client active
  (`jack.c:542-552`), whose callbacks go on.
* WASAPI's event that ends a pause calls `write_callback` of a raw stream for a
  whole buffer whether there is room or not (`wasapi.c:1635`, `wasapi.c:1518`;
  `CallsEarly`). A pause before the thread has started the client makes the start
  fail, or begins the capture early. A client that was released by a thread that
  ended with an error is used by later calls (`wasapi.c:2079`), and a thread that
  is told to end before it is started does not clean up (`wasapi.c:1546-1548`).

## 7 What is not modelled

* **Sound.** The values of the filters' coefficients, interpolation, DAC tables,
  panning and mixing are floating-point numbers. Their control (indices, windows,
  sums, pacing) is modelled.
  The interpolator of the PSG copies its arrays `c` and `y` and never stores
  them back (`psg.zig:132-133`), so that it keeps nothing between two calls;
  no document says what it should keep. The drift of the DC filter's running sum
  of floats is not modelled. The mixer adds the SCC's samples, of 16-bit size,
  to the PSG's, of size one (`player.zig:187-203`).
* **Resources of the player.** Files are opened, memory is allocated and text is
  printed inside the write callback, against the advice of `soundio.h:554-558`.
  `total_samples` and the header's loop base and modifier are parsed and not
  used.
* **Opening and inflating** are library functions: they succeed or fail.
  Running out of memory is modelled in init functions and scans, where libsoundio
  handles it, and nowhere in the player.
* **The command line** is a loop over the arguments that runs once before
  anything else, within a unit test's reach; **OPM and PCM** are stubs.
* **What a device can do.** Probing it, converting formats, channel maps and
  their order, names and identifiers are computations on the answers of a
  platform, made once for each device (steps 10 and 11 of the plan). A scan that
  meets an unusable device passes over it or fails, and both happen in the
  models. So do the answers themselves: each call to a platform may fail where
  the code looks at the result.
* **Channel layouts** are searched, as opening a stream needs; sorting, matching
  and the parsing of their names are not modelled.
* **Latency, volume, names of streams**: computed or passed on, without a
  state of their own. So is the clock: timed waits end early or late, whatever
  they were told.
* **Outside the repository.** Kernel, inotify, udev, alsa-lib, the servers and
  libraries of PulseAudio and JACK, CoreAudio and Windows are modelled from how the
  code uses them. What they do beyond the answers that the code distinguishes is
  not.
* **os.c**: conditions and mutexes as the backend uses them, pthreads for most,
  kqueue for CoreAudio, Windows' for WASAPI; detecting the page size, the
  priority of threads and the variants of other systems are left out.
* **lists** keep no state of a protocol; **build.zig** has no run-time
  behaviour.

## 8 Running

In this directory, with `tlc`, `tlapm` and the community modules at hand:

```
tlasany Player.tla
tlc -workers 2 -config MCPlayer.cfg MCPlayer
tlapm PlayerProofs.tla
```

The longest runs are `sound_io` and `backends`, over two minutes each on two
cores, then `psg`, `streams` and `player`; of the proofs, StreamsProofs, SoundIoProofs,
BackendsProofs and PlayerProofs take longest.
