-------------------------------- MODULE Movie --------------------------------
(***************************************************************************)
(* Gameplay recording and playback: movie.c with the hooks genesis.c,      *)
(* control.c, blastem.c and the menu call it through.                      *)
(*                                                                         *)
(* The emulated machine is deterministic, so it IS the sequence of pad     *)
(* values its frames have seen since power-on (with a mark where its CPU   *)
(* was reset): two machines are equal when their histories are.  A movie   *)
(* file is the machine it starts from plus one pad value per frame.  That  *)
(* makes "the file replays the session" an equation between histories.     *)
(*                                                                         *)
(* Exposed names the situations the code does not defend itself against;   *)
(* with Exposed = {} the user and the front end stay clear of all of them. *)
(***************************************************************************)
EXTENDS Integers, SequencesExt

CONSTANTS
  Inputs,        \* values a frame's bsm_frame_input can take
  NoInput,       \* all buttons up; also what a hole in a file reads as
  ResetMark,     \* a 68000 reset, in a machine's history
  Files, NoFile,
  Slots,         \* save-state slots and the control server's state files
  FlushFrames,   \* BSM_INPUT_FLUSH_FRAMES: slots of a fresh input buffer
  MaxFrames,     \* bound: frames a machine's history may reach
  MaxCommands,   \* bound: what the user asks for in one behaviour
  Exposed        \* the situations that may arise, of Situations

Situations ==
  { "slot_load",      \* a slot is loaded by hotkey or menu while recording
    "branch_load",    \* ... a state that an earlier load has undone
    "gst_load",       \* ... a state in the older .gst format
    "soft_reset",     \* the console's reset button is pressed while a movie runs
    "reload",         \* another ROM, or the same one again, is loaded meanwhile
    "load_in_play",   \* a state is loaded while a movie plays
    "menu_play",      \* playback is started from the menu of a running system
    "midway_play",    \* --play of a movie that was not recorded from power-on
    "empty_movie",    \* a movie without frames is played
    "live_input",     \* the player holds other buttons while a movie plays
    "late_input" }    \* buttons change after the game's last poll of a frame

ASSUME MovieAssumption ==
  /\ NoInput \in Inputs
  /\ ResetMark \notin Inputs
  /\ NoFile \notin Files
  /\ FlushFrames \in Nat \ {0}
  /\ MaxFrames \in Nat /\ MaxCommands \in Nat
  /\ Exposed \subseteq Situations

VARIABLES
  commands,     \* commands given so far, for MaxCommands
  started,      \* start_context has run: the command line's turn is over
  machine,      \* the emulated machine, as its history
  vdp_frame,    \* vdp->frame, part of a save state
  last_frame,   \* gen->last_frame, not part of one
  pad,          \* the buttons io.c holds for the pads, not part of one either
  state,        \* movie.state
  file,         \* movie.file, by name
  frame_count,  \* movie.header.frame_count
  buffer,       \* movie.input_buffer: the used slots, or a movie's frames
  cap,          \* movie.input_buffer_cap; -1 while there is no buffer
  play_frame,   \* movie.play_frame
  disk,         \* the .bsm files
  slots,        \* the save states
  origin,       \* history variable: the machine when a file was closed
  played        \* history variable: the file being played

movieVars == <<state, file, frame_count, buffer, cap, play_frame>>
clockVars == <<machine, vdp_frame, last_frame>>
vars == <<commands, started, clockVars, pad, movieVars, disk, slots, origin, played>>

Machines == Seq(Inputs \cup {ResetMark})

Movies == [exists : BOOLEAN, init : Machines, init_frame : Nat,
           count : Nat, inputs : Seq(Inputs)]

\* live: the state belongs to the running recording and no load has undone it.
States == [kind : {"none", "gst", "native"}, machine : Machines, frame : Nat,
           section : BOOLEAN, count : Nat, data : Seq(Inputs), live : BOOLEAN]

TypeOK ==
  /\ commands \in Nat
  /\ started \in BOOLEAN
  /\ machine \in Machines
  /\ vdp_frame \in Nat /\ last_frame \in Nat
  /\ pad \in Inputs
  /\ state \in {"NONE", "RECORD", "PLAY"}
  /\ file \in Files \cup {NoFile}
  /\ (file = NoFile) <=> (state # "RECORD")
  /\ frame_count \in Nat
  /\ buffer \in Seq(Inputs)
  /\ cap \in Nat \cup {-1}
  /\ play_frame \in Nat
  /\ disk \in [Files -> Movies]
  /\ slots \in [Slots -> States]
  /\ origin \in [Files -> Machines]
  /\ played \in Files \cup {NoFile}
  /\ (played = NoFile) <=> (state # "PLAY")

NoMovie == [exists |-> FALSE, init |-> <<>>, init_frame |-> 0,
            count |-> 0, inputs |-> <<>>]
NoState == [kind |-> "none", machine |-> <<>>, frame |-> 0,
            section |-> FALSE, count |-> 0, data |-> <<>>, live |-> FALSE]


Init ==
  /\ commands = 0
  /\ started = FALSE
  /\ machine = <<>> /\ vdp_frame = 0 /\ last_frame = 0
  /\ pad = NoInput
  /\ state = "NONE" /\ file = NoFile
  /\ frame_count = 0 /\ buffer = <<>> /\ cap = -1 /\ play_frame = 0
  /\ disk = [f \in Files |-> NoMovie]
  /\ slots = [s \in Slots |-> NoState]
  /\ origin = [f \in Files |-> <<>>]
  /\ played = NoFile
-----------------------------------------------------------------------------
(* The file: fseek + fwrite past the end and ftruncate past the end both   *)
(* leave holes, which read as zeros.                                       *)

WriteAt(s, pos, d) ==
  [k \in 1..(IF pos + Len(d) > Len(s) THEN pos + Len(d) ELSE Len(s)) |->
     IF k > pos /\ k <= pos + Len(d) THEN d[k - pos]
     ELSE IF k <= Len(s) THEN s[k] ELSE NoInput]

\* Mutant: the file is not cut.
TruncateNothing(s, n) == s

TruncateTo(s, n) == [k \in 1..n |-> IF k <= Len(s) THEN s[k] ELSE NoInput]

\* Mutant: the used slots are appended at frame_count.
FlushAtCount(m, count, data) ==
  [m EXCEPT !.inputs = WriteAt(m.inputs, count, data)]

\* flush_inputs: the used slots end at frame_count.
Flush(m, count, data) ==
  IF data = <<>> THEN m
  ELSE [m EXCEPT !.inputs = WriteAt(m.inputs, count - Len(data), data)]

\* Mutant: the header keeps its placeholder count.
ClosedWithoutHeader(m) == Flush(m, frame_count, buffer)

\* movie_record_stop: flush, then the header with the final count.
Closed(m) == [Flush(m, frame_count, buffer) EXCEPT !.count = frame_count]

DiskAfterStop ==
  IF state = "RECORD" THEN [disk EXCEPT ![file] = Closed(disk[file])] ELSE disk

OriginAfterStop ==
  IF state = "RECORD" THEN [origin EXCEPT ![file] = machine] ELSE origin

Retired == [s \in Slots |-> [slots[s] EXCEPT !.live = FALSE]]

\* m68k_reset leaves a machine that has not run yet as it is.
Reset(m) == IF m = <<>> THEN m ELSE Append(m, ResetMark)
-----------------------------------------------------------------------------
(* movie_update, run once by the sync_components that sees vdp->frame move. *)

\* Mutant: live one frame early.
LastFrameReached == play_frame + 1 >= frame_count

Exhausted == play_frame >= frame_count

\* Mutant: play_frame counts from one.
PreviousFrame == buffer[play_frame]

NextFrame == buffer[play_frame + 1]

\* Mutant: the same frame again and again.
InjectForever(held) ==
  /\ state = "PLAY"
  /\ IF Exhausted
     THEN state' = "NONE" /\ pad' = held /\ UNCHANGED play_frame
     ELSE pad' = NextFrame /\ UNCHANGED <<play_frame, state>>
  /\ UNCHANGED <<file, frame_count, buffer, cap, disk>>

\* Playing: hand the next frame's buttons to io.c, or go live.
Inject(held) ==
  /\ state = "PLAY"
  /\ IF Exhausted
     THEN state' = "NONE" /\ pad' = held /\ UNCHANGED play_frame
     ELSE pad' = NextFrame /\ play_frame' = play_frame + 1 /\ UNCHANGED state
  /\ UNCHANGED <<file, frame_count, buffer, cap, disk>>

\* Mutant: flushed only once it has overflowed.
Overflowed(used) == Len(used) > cap

Full(used) == Len(used) >= cap

\* Recording: append the buttons as they are now; a full buffer is flushed.
Capture(held) ==
  LET used == Append(buffer, held) IN
  /\ state = "RECORD"
  /\ pad' = held
  /\ frame_count' = frame_count + 1
  /\ IF Full(used)
     THEN /\ disk' = [disk EXCEPT ![file] = Flush(@, frame_count + 1, used)]
          /\ buffer' = <<>>
     ELSE /\ buffer' = used
          /\ UNCHANGED disk
  /\ UNCHANGED <<state, file, cap, play_frame>>

Ignore(held) ==
  /\ state = "NONE"
  /\ pad' = held
  /\ UNCHANGED <<movieVars, disk>>

MovieUpdate(held) == Inject(held) \/ Capture(held) \/ Ignore(held)

\* The machine runs one frame: the game polls the pads and sees one value,
\* held is what io.c holds when the frame ends.  Events reach io.c whatever
\* the movie is doing.
RunFrame(seen, held) ==
  /\ started
  /\ last_frame = vdp_frame
  /\ Len(machine) < MaxFrames
  /\ state = "PLAY" => seen = pad \/ "live_input" \in Exposed
  /\ held = seen \/ "late_input" \in Exposed
  /\ machine' = Append(machine, seen)
  /\ vdp_frame' = vdp_frame + 1
  /\ last_frame' = vdp_frame + 1
  /\ MovieUpdate(held)
  /\ played' = IF state' = "PLAY" THEN played ELSE NoFile
  /\ UNCHANGED <<commands, started, slots, origin>>

\* vdp->frame moved without a frame being run (a state was loaded): the next
\* sync_components takes that for a frame boundary too.
FalseBoundary ==
  /\ started
  /\ last_frame # vdp_frame
  /\ last_frame' = vdp_frame
  /\ MovieUpdate(pad)
  /\ played' = IF state' = "PLAY" THEN played ELSE NoFile
  /\ UNCHANGED <<commands, started, machine, vdp_frame, slots, origin>>
-----------------------------------------------------------------------------
(* Recording and playback commands. *)

Commanded == commands < MaxCommands /\ commands' = commands + 1

\* movie_record_start: --record before start_context, the hotkey or the menu
\* after it.  The state it embeds is serialized while nothing is recorded,
\* so it holds no SECTION_MOVIE.
RecordStart(f) ==
  /\ Commanded
  /\ last_frame = vdp_frame \/ "slot_load" \in Exposed
  /\ disk' = [DiskAfterStop EXCEPT ![f] =
                [exists |-> TRUE, init |-> machine, init_frame |-> vdp_frame,
                 count |-> 0, inputs |-> <<>>]]
  /\ origin' = [OriginAfterStop EXCEPT ![f] = <<>>]
  /\ slots' = Retired
  /\ state' = "RECORD"
  /\ file' = f
  /\ frame_count' = 0
  /\ buffer' = <<>>
  /\ cap' = IF cap = -1 THEN FlushFrames ELSE cap
  /\ played' = NoFile
  /\ UNCHANGED <<started, clockVars, pad, play_frame>>

\* Mutant: movie.file is left dangling.
StopWithoutClose ==
  /\ state = "RECORD"
  /\ disk' = DiskAfterStop
  /\ origin' = OriginAfterStop
  /\ slots' = Retired
  /\ state' = "NONE"
  /\ buffer' = <<>>
  /\ UNCHANGED <<file, frame_count, cap, play_frame, played>>

\* movie_record_stop, from the hotkey, the menu or a failed load.
StopRecording ==
  /\ state = "RECORD"
  /\ disk' = DiskAfterStop
  /\ origin' = OriginAfterStop
  /\ slots' = Retired
  /\ state' = "NONE"
  /\ file' = NoFile
  /\ buffer' = <<>>
  /\ UNCHANGED <<frame_count, cap, play_frame, played>>

RecordStop ==
  /\ Commanded
  /\ StopRecording
  /\ UNCHANGED <<started, clockVars, pad>>

\* movie_play_start and the movie_play_pre_inject its callers follow it with.
\* A file holds at least header.frame_count frames here (ClosedMovieComplete),
\* so the short-read returns are never taken.
PlayStart(f) ==
  LET m == DiskAfterStop[f] IN
  /\ Commanded
  /\ m.exists
  /\ started => "menu_play" \in Exposed
  /\ (~started /\ <<m.init, m.init_frame>> # <<<<>>, 0>>) => "midway_play" \in Exposed
  /\ m.count = 0 => "empty_movie" \in Exposed
  /\ Len(m.inputs) >= m.count
  /\ disk' = DiskAfterStop
  /\ origin' = OriginAfterStop
  /\ slots' = Retired
  /\ machine' = m.init
  /\ vdp_frame' = m.init_frame
  /\ state' = "PLAY"
  /\ file' = NoFile
  /\ frame_count' = m.count
  /\ buffer' = SubSeq(m.inputs, 1, m.count)
  /\ cap' = IF cap < m.count THEN m.count ELSE cap
  /\ pad' = IF m.count = 0 THEN pad ELSE m.inputs[1]
  /\ play_frame' = IF m.count = 0 THEN 0 ELSE 1
  /\ played' = f
  /\ UNCHANGED <<started, last_frame>>

PlayStop ==
  /\ Commanded
  /\ state = "PLAY"
  /\ state' = "NONE"
  /\ play_frame' = 0
  /\ played' = NoFile
  /\ UNCHANGED <<started, clockVars, pad, file, frame_count, buffer, cap,
                 disk, slots, origin>>
-----------------------------------------------------------------------------
(* Save states. *)

\* genesis_serialize at an instruction boundary, movie_freeze at its end; or
\* save_gst when native states are off.
SaveState(s, kind) ==
  /\ Commanded
  /\ kind = "gst" => "gst_load" \in Exposed
  /\ started
  /\ last_frame = vdp_frame
  /\ slots' =
       [slots EXCEPT ![s] =
          LET section == kind = "native" /\ state = "RECORD" IN
          [kind |-> kind, machine |-> machine,
           frame |-> IF kind = "native" THEN vdp_frame ELSE 0,
           section |-> section,
           count |-> IF section THEN frame_count ELSE 0,
           data |-> IF section THEN buffer ELSE <<>>,
           live |-> section]]
  /\ UNCHANGED <<started, clockVars, pad, movieVars, disk, origin, played>>

\* The machine's half of load_state (via "slot": the hotkey and the menu), of
\* the control server's do_state_op (via "control": native states only) and of
\* start_context with a state file (via "start").  The last two rebase the
\* frame counter.  A .gst file holds no vdp->frame.
LoadMachine(s, via) ==
  /\ Commanded
  /\ started <=> (via # "start")
  /\ slots[s].kind # "none"
  /\ via = "control" => slots[s].kind = "native" /\ last_frame = vdp_frame
  /\ machine' = slots[s].machine
  /\ vdp_frame' = IF slots[s].kind = "native" THEN slots[s].frame ELSE vdp_frame
  /\ last_frame' = IF via = "slot" THEN last_frame ELSE vdp_frame'
  /\ started' = TRUE
  /\ UNCHANGED pad

\* movie_unfreeze: back to the frame the state was saved at.  The file here is what
\* stdio and the disk hold together: the flush goes to stdio and the cut to the
\* descriptor, but the flush ends at the cut.  What an earlier flush left in stdio
\* behind the cut counts as cut: the header does not count it, and no one reads it.
LoadRewinds(s, via) ==
  LET st == slots[s]
      data == IF Len(st.data) > cap THEN SubSeq(st.data, 1, cap) ELSE st.data
  IN
  /\ state = "RECORD" /\ st.kind = "native" /\ st.section
  /\ via = "slot" => "slot_load" \in Exposed
  /\ st.live \/ "branch_load" \in Exposed
  /\ LoadMachine(s, via)
  /\ frame_count' = st.count
  /\ buffer' = <<>>
  /\ disk' = [disk EXCEPT ![file] =
                [@ EXCEPT !.inputs =
                   TruncateTo(Flush(disk[file], st.count, data).inputs, st.count),
                          !.count = st.count]]
  /\ slots' = [r \in Slots |->
                 [slots[r] EXCEPT !.live = @ /\ slots[r].count <= st.count]]
  /\ UNCHANGED <<state, file, cap, play_frame, origin, played>>

\* movie_check_after_load: a native state without SECTION_MOVIE ends the
\* recording.  The machine is already the loaded one when the file is closed.
LoadStops(s, via) ==
  /\ state = "RECORD" /\ slots[s].kind = "native" /\ ~slots[s].section
  /\ via = "slot" => "slot_load" \in Exposed
  /\ LoadMachine(s, via)
  /\ StopRecording

\* Not recording, or a .gst state: no movie hook runs.
LoadPlain(s, via) ==
  /\ state # "RECORD" \/ slots[s].kind = "gst"
  /\ state = "RECORD" => "gst_load" \in Exposed
  /\ state = "PLAY" => "load_in_play" \in Exposed
  /\ LoadMachine(s, via)
  /\ UNCHANGED <<movieVars, disk, slots, origin, played>>
-----------------------------------------------------------------------------
(* The process. *)

\* start_context without a state file resets the 68000.
StartContext ==
  /\ ~started
  /\ started' = TRUE
  /\ machine' = Reset(machine)
  /\ UNCHANGED <<commands, vdp_frame, last_frame, pad, movieVars, disk, slots,
                 origin, played>>

\* The reset button: handle_reset_requests resets the 68000.  No movie hook
\* runs, and a frame has no bit for it.
SoftReset ==
  /\ Commanded
  /\ started
  /\ last_frame = vdp_frame
  /\ Len(machine) < MaxFrames
  /\ state # "NONE" => "soft_reset" \in Exposed
  /\ machine' = Reset(machine)
  /\ UNCHANGED <<started, vdp_frame, last_frame, pad, movieVars, disk, slots,
                 origin, played>>

\* next_rom: a new machine in the same process.  The movie is not told.  When the
\* command line named a state file, main has it loaded again for every ROM: that is
\* a Load after this action.
ReloadMedia ==
  /\ Commanded
  /\ started
  /\ state # "NONE" => "reload" \in Exposed
  /\ machine' = <<>> /\ vdp_frame' = 0 /\ last_frame' = 0
  /\ pad' = NoInput
  /\ UNCHANGED <<started, movieVars, disk, slots, origin, played>>

\* exit() runs movie_record_stop through atexit; the next process starts over.
ExitAndRelaunch ==
  /\ started
  /\ started' = FALSE
  /\ machine' = <<>> /\ vdp_frame' = 0 /\ last_frame' = 0
  /\ pad' = NoInput
  /\ disk' = DiskAfterStop
  /\ origin' = OriginAfterStop
  /\ slots' = Retired
  /\ state' = "NONE" /\ file' = NoFile
  /\ frame_count' = 0 /\ buffer' = <<>> /\ cap' = -1 /\ play_frame' = 0
  /\ played' = NoFile
  /\ UNCHANGED commands

Emulate == FalseBoundary \/ \E seen, held \in Inputs : RunFrame(seen, held)

Load(s, via) == LoadRewinds(s, via) \/ LoadStops(s, via) \/ LoadPlain(s, via)

Next ==
  \/ Emulate
  \/ StartContext
  \/ SoftReset
  \/ ReloadMedia
  \/ ExitAndRelaunch
  \/ \E f \in Files : RecordStart(f) \/ PlayStart(f)
  \/ RecordStop
  \/ PlayStop
  \/ \E s \in Slots, kind \in {"gst", "native"} : SaveState(s, kind)
  \/ \E s \in Slots, via \in {"slot", "control", "start"} : Load(s, via)

\* The emulation loop runs whatever the user does; users may do nothing.
Spec == Init /\ [][Next]_vars /\ WF_vars(StartContext) /\ WF_vars(Emulate)
-----------------------------------------------------------------------------
(* Properties. *)

\* While recording, the embedded state, the frames already in the file and
\* the frames still in the buffer are, in this order, the session being
\* played: across flushes, save states, rewinds and a buffer an earlier
\* playback sized.
RecordingIsTheSession ==
  state = "RECORD" =>
    machine = disk[file].init \o disk[file].inputs \o buffer

\* Going back to a save state while recording leaves the final path alone: what
\* was rewound and goes on is still the session, no frame less and none more.  The
\* header of a recording counts frames only once movie_unfreeze has rewritten it,
\* at a rewind.
RewoundIsTheSession ==
  state = "RECORD" /\ disk[file].count > 0 =>
    machine = disk[file].init \o disk[file].inputs \o buffer

\* A movie that is not being recorded is the whole session it was closed on,
\* and its header counts every frame, however the recording ended.
ClosedMovieComplete ==
  \A f \in Files : disk[f].exists /\ f # file =>
    /\ disk[f].count = Len(disk[f].inputs)
    /\ origin[f] = disk[f].init \o disk[f].inputs

\* Playback is the recorded session, frame by frame, and the buttons io.c
\* holds for the next frame are the ones recorded for it.
ReplayIsIdentical ==
  state = "PLAY" => IsPrefix(Append(machine, pad), origin[played])

\* The player gets the pads back exactly where the recorded session ended.
GoesLiveAtTheEnd ==
  [][state = "PLAY" /\ state' = "NONE" /\ play_frame' # 0
       => machine' = origin[played]]_vars

\* movie_update writes input_buffer[input_buffer_used] without looking: the
\* slot must be there, whoever allocated the buffer.
NextSlotAllocated == state = "RECORD" => Len(buffer) < cap

\* Playback never holds on to the pads for good.
PlaybackEnds == state = "PLAY" ~> state # "PLAY"

\* Buffer, file and SECTION_MOVIE together are the tape of InputTape, closed
\* files its shelf.
Recorded == IF state = "RECORD" THEN disk[file].inputs \o buffer ELSE <<>>
Shelf == [f \in Files |-> IF f = file THEN <<>> ELSE SubSeq(disk[f].inputs, 1, disk[f].count)]

Tape == INSTANCE InputTape WITH target <- file, tape <- Recorded, shelf <- Shelf

\* Every step of the recorder starts, extends, rewinds or shelves a tape.
RecorderIsATape == Tape!TapeSpec
=============================================================================
