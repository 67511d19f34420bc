------------------------------ MODULE Playback ------------------------------
(***************************************************************************)
(* What a player of VGM files promises, with no bytes, no buffers and no   *)
(* audio callbacks.  A song is a graph of commands.  Songs are played one  *)
(* after the other.  A command writes chip registers, asks for a number of *)
(* samples, does nothing, or ends the data: the song then starts again     *)
(* from its loop command, LoopCount times, before the next song is loaded. *)
(* A register write is stamped with the number of samples heard before it, *)
(* so that chips records the exact interleaving of writes and samples.     *)
(***************************************************************************)
EXTENDS Integers, Sequences

CONSTANTS
  SongLists,  \* the play lists: sequences of [cmd, first, loop] records, in
              \* which cmd maps a place to a command
  LoopCount,
  NoLoop      \* value of a song's loop field when it has none

VARIABLES
  songs,      \* the play list
  song,       \* index of the song being played; 0 before the first one
  place,      \* the command to execute next
  loops,      \* how often the song was restarted
  wait,       \* samples to play before that command
  heard,      \* samples of this song played so far
  chips       \* register writes made since the chips were reset

vars == <<songs, song, place, loops, wait, heard, chips>>

Finished == Len(songs) + 1

Init ==
  /\ songs \in SongLists
  /\ song = 0
  /\ place = 0
  /\ loops = 0
  /\ wait = 0
  /\ heard = 0
  /\ chips = <<>>

\* The chips are reset at the start of a song, and only there.
Begin(s) ==
  /\ song' = s
  /\ UNCHANGED songs
  /\ IF s = Finished
     THEN UNCHANGED <<place, loops, wait, heard, chips>>
     ELSE /\ place' = songs[s].first
          /\ loops' = 0
          /\ wait' = 0
          /\ heard' = 0
          /\ chips' = <<>>

FirstSong == song = 0 /\ Begin(1)

Command == songs[song].cmd[place]

Ready == song \in 1..Len(songs) /\ wait = 0

Execute ==
  /\ Ready
  /\ Command.kind = "step"
  /\ place' = Command.next
  /\ wait' = Command.wait
  /\ chips' = chips \o [w \in DOMAIN Command.writes |->
                          [write |-> Command.writes[w], time |-> heard]]
  /\ UNCHANGED <<songs, song, loops, heard>>

Repeats == songs[song].loop # NoLoop /\ loops < LoopCount

Repeat ==
  /\ Ready
  /\ Command.kind = "end"
  /\ Repeats
  /\ place' = songs[song].loop
  /\ loops' = loops + 1
  /\ UNCHANGED <<songs, song, wait, heard, chips>>

NextSong ==
  /\ Ready
  /\ Command.kind = "end"
  /\ ~Repeats
  /\ Begin(song + 1)

PlaySample ==
  /\ song \in 1..Len(songs)
  /\ wait > 0
  /\ wait' = wait - 1
  /\ heard' = heard + 1
  /\ UNCHANGED <<songs, song, place, loops, chips>>

Next == FirstSong \/ Execute \/ Repeat \/ NextSong \/ PlaySample

Spec == Init /\ [][Next]_vars
=============================================================================
