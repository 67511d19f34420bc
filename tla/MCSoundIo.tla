------------------------------ MODULE MCSoundIo ------------------------------
(* Instances of SoundIo: three devices of different capabilities.           *)
EXTENDS SoundIo

MCBackends == <<"jack", "pulseaudio", "alsa", "dummy">>

Device(direction, formats, layouts, rates) ==
  [aim |-> direction, probe_error |-> FALSE, formats |-> formats,
   layouts |-> layouts, sample_rates |-> rates]

\* Rates below and above 48000, nearer below, in either order.
MCCapability ==
  [out1 |-> Device("output", <<"S16NE", "Float32NE">>,
                   <<Builtin("Mono"), Builtin("Stereo")>>,
                   << <<8000, 44100>>, <<96000, 96000>> >>),
   out2 |-> Device("output", <<"S16NE">>, <<Builtin("Mono")>>,
                   << <<192000, 192000>>, <<22050, 22050>>, <<88200, 88200>> >>),
   in1 |-> Device("input", <<"S16NE">>, <<Builtin("Mono")>>, << <<8000, 32000>> >>)]

MCDevices == DOMAIN MCCapability

\* Everything left to the defaults, all but the format, too many channels.
MCAsked ==
  { [format |-> "Invalid", layout |-> <<>>, sample_rate |-> 0],
    [format |-> "S32NE", layout |-> <<>>, sample_rate |-> 0],
    [format |-> "S32NE", layout |-> [i \in 1..25 |-> "Aux"], sample_rate |-> 44100] }

\* Bounds: a behaviour ends where it has lost two devices, or both a list and
\* what ALSA's init leaks.
LostLittle ==
  /\ Cardinality(DevicesOf("lost")) <= 1
  /\ list["lost"] # {} => Cardinality(leaked) = 1

HandlesAreAlike == Permutations(Handles)
=============================================================================
