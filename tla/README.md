# Formal models of BlastEm

BlastEm emulates the Sega Mega Drive / Genesis and several related machines.
Most of its code computes: CPU cores, a video chip, sound chips.  The part that
is hard to get right by testing is around the computation: what is recorded and
replayed, what crosses a thread or a socket, what a save state brings back and
what it leaves.  This directory models that part in TLA+, checks it with TLC
and proves some of it with TLAPS.

## The system

| Component | State | Operations | Hard because |
|---|---|---|---|
| Gameplay recording (`movie.c`) | recorder state, open file, input buffer, frame counters | start, stop, one update per frame, freeze / unfreeze in save states, play | rewinds, flushes, buffers shared between recording and playback, hooks in five other files |
| Sync loop and save states (`genesis.c`) | frame counters, pending save and load, reset cycle | `sync_components`, `load_state`, `genesis_(de)serialize`, reset | requests are set in one place and carried out at the next boundary |
| Control server (`control.c`) | pause state, pending step, pending state op | one dispatch per request line, two boundary hooks | replies are due at boundaries that other requests can move |
| Event log (`event_log.c`) | encoder state, compressed buffer, remotes, in-memory reader | log, flush, accept, disconnect, decode | several remotes share one buffer; one reader is another thread |
| Audio (`render_audio.c`, `render_sdl.c`) | active sources, double buffers, audio mutex and condition variables | put sample, buffer ready, callback, pause, resume, free | two threads wait for each other |
| Video frame queue (`render_sdl.c`) | four-slot queue, framebuffer pool, slices of the machine | get a framebuffer, queue it, show it, release it; start, end and interrupt a slice | three threads, two mutexes, and flags that are under neither |
| Serialization (`serialize.c`) | section buffer, handler table | sections, handler registration | table growth, sections of unknown length |
| Input (`io.c`) | pad buttons, TH counters, serial I/O | data and control writes, reads, timeouts | counters expire in emulated time |
| Storage on the cartridge (`i2c.c`, `nor.c`, `sega_mapper.c`) | protocol state machines | one step per bus access | long command sequences, interrupted ones |
| Sega CD (`segacd.c`, `cdd_mcu.c`, `lc8951.c`, `cdimage.c`) | gate array, memory maps of two CPUs, drive MCU, decoder | register writes of either CPU, a byte of a transfer, frame and sector interrupts | two CPUs and a decoder hand memory to each other |
| Z80 and bus arbitration (`z80_to_x86.c`, `genesis.c`) | reset, bus request, bank | assert / clear | ordering in emulated time |
| VDP (`vdp.c`) | FIFO, DMA, counters, frame counter | run to a cycle, port accesses | cycle accounting |
| CPU cores, sound chips, other consoles, debuggers, UI, platform code | | | computation, or I/O |

`PROJECT.json` lists every component with its status, and every hazard found
with its line.

## How the parts interact

One thread, the emulation thread, runs the CPUs and calls `sync_components` at
every boundary: there the frame is noticed, the recorder updated
(`movie_update`), the control server served (`control_frame_boundary`,
`control_instruction_boundary`), a pending save or load carried out, and the
event log flushed.  It meets other threads in three places: SDL's audio thread
(`audio_mutex`, two kinds of condition variable and SDL's own device lock), the
VDP's render thread (`event_log_lock`) and, when the machine runs in the audio
thread, the main thread that shows its frames (`frame_mutex`).  It meets other
processes in two: the control server's client and the event log's remotes.
Requests made in one place and carried out in another are single slots
(`header.save_state`, `state_op`, `reset_requested`), which is where two
requesters can meet.

## Modules

| Module | Models | Lines of code it stands for |
|---|---|---|
| `InputTape` | what a recorder promises: a tape that grows at its end, is rewound to a prefix of itself and is shelved whole | |
| `Movie` | implements `InputTape` | `movie.c` and its callers |
| `MovieProofs` | theorems about `Movie` | |
| `EventStream` | what the event log promises a follower: every event from its start, once and in order | |
| `EventRemotes` | TCP clients; implements `EventStream` | `event_log.c`: encoder, `flush_socket`, `event_state` |
| `EventRemotesProofs` | theorems about `EventRemotes` | |
| `EventMem` | the in-memory reader and the render thread; implements `EventStream` | `event_log.c`: `event_log_mem`, `mem_reader_next_event`; `vdp.c`: the render thread |
| `EventMemProofs` | theorems about `EventMem` | |
| `Control` | one client of the control server | `control.c`, its calls in `genesis.c` |
| `ControlProofs` | theorems about `Control` | |
| `AudioSync` | double buffers between emulation and audio thread | `render_audio.c`, `render_sdl.c` |
| `AudioSyncProofs` | theorems about `AudioSync` | |
| `FrameMailbox` | what a frame queue promises: a box per output that holds the newest frame | |
| `FrameQueue` | drawing thread, audio thread and main thread; implements `FrameMailbox` | `render_sdl.c`, `resume_genesis`, `handle_reset_requests`, the main loop of `blastem.c` |
| `FrameQueueProofs` | theorems about `FrameQueue` | |
| `WordRam` | the memories the two CPUs of a Sega CD hand to each other | `segacd.c`: `GA_MEM_MODE`, `GA_SUB_CPU_CTRL`, `gate_array_deserialize` |
| `SegaCD` | extends `WordRam` with the CD decoder that writes to those memories | `lc8951.c`; `segacd.c`: `handle_cdc_byte`, `GA_CDC_*` |
| `SegaCDProofs` | theorems about `WordRam` and `SegaCD` | |
| `ByteMemory` | what a serial EEPROM promises: a memory of bytes | |
| `I2cEeprom` | the EEPROM bit by bit and a game that drives it; implements `ByteMemory` | `i2c.c` |
| `I2cEepromProofs` | theorems about `I2cEeprom` | |
| `MC_...` | the instance of each that TLC checks | |

### Movie

The emulated machine is deterministic, so the model takes it to *be* the
sequence of pad values its frames have seen since power-on, with a mark for a
reset of its CPU.  Two machines are equal when their histories are.  A `.bsm`
file is a machine plus one pad value per frame, and "replaying the file gives
the session" becomes an equation between sequences.

| Code | Model |
|---|---|
| `movie.state`, `movie.file`, `header.frame_count`, `play_frame` | `state`, `file`, `frame_count`, `play_frame` |
| `input_buffer[0..used)` while recording, the movie's frames while playing | `buffer` |
| `input_buffer_cap`, -1 for no buffer | `cap` |
| `.bsm` files: embedded state, `vdp->frame` in it, header count, frames | `disk` |
| save states with or without `SECTION_MOVIE`, `.gst` states | `slots` |
| `vdp->frame` (saved), `gen->last_frame` (not saved) | `vdp_frame`, `last_frame` |
| pad state in `io.c` (not saved) | `pad` |
| `sync_components` seeing a frame boundary, `movie_update` | `RunFrame`, or `FalseBoundary` when no frame was run |
| `movie_record_start`, `movie_record_stop`, `movie_play_start` + `movie_play_pre_inject`, `movie_play_stop` | `RecordStart`, `RecordStop`, `PlayStart`, `PlayStop` |
| the save-state block of `sync_components` with `movie_freeze` | `SaveState` |
| `load_state`, `do_state_op`, `start_genesis` with a state file, then `movie_unfreeze` or `movie_check_after_load` | `Load`: `LoadRewinds`, `LoadStops`, `LoadPlain` |
| `start_genesis`, `handle_reset_requests`, `next_rom`, `exit` | `StartContext`, `SoftReset`, `ReloadMedia`, `ExitAndRelaunch` |

`origin` and `played` are history variables: the machine at the moment a file
was closed, and the file being played.  A state is `live` while it belongs to
the running recording and no rewind has undone it.

The code does not defend the recorder against everything a user may do.  Each
such situation has a name in `Situations`, and the constant `Exposed` says which
of them may arise.  With `Exposed = {}` the properties hold.  `slot_load` and
`menu_play` break them; the violation run shows it for the first (see Findings).  The
others are in the model too; those a user can easily meet are listed as hazards
in `PROJECT.json` with the lines.

Abstractions: a frame sees one value of the pads; save states are made and
loaded between frames; the two pads are one value; the file system does not fail
and the process is not killed (a normal exit is modelled); of the header only
the frame count matters.  A file always holds the frames its header counts
(`ClosedMovieComplete`), so the short-read returns of `movie_play_start` are
never taken.  A file is what stdio and the disk hold together: the flush of a
rewind goes through stdio and its `ftruncate` to the descriptor
(`movie.c:594-604`), which is one step, and what an earlier flush left in stdio
behind the cut counts as cut, since the header does not count it.  The state file
of the command line, which `main` hands over again for every ROM
(`blastem.c:808`), is a `Load` after `ReloadMedia`.

Properties:

- `RecordingIsTheSession`: while recording, embedded state, file and buffer
  are, in this order, the session.
- `RewoundIsTheSession`: the same of a recording that went back to a save state.
- `ClosedMovieComplete`: a closed file is the whole session it was closed on,
  and its header counts it.
- `NextSlotAllocated`: the slot `movie_update` writes without a check exists.
- `ReplayIsIdentical`: what has been played, and what the pads hold for the next
  frame, is a prefix of the recorded session.
- `GoesLiveAtTheEnd`: playback hands the pads back exactly at the session's end.
- `PlaybackEnds`: playback ends.
- `RecorderIsATape`: every step is a step of `InputTape` or leaves it alone.

### EventRemotes

All remotes share one deflate stream and one compressed buffer; a remote knows
how far into the buffer it has been served.  An event is its number in the run
of the machine, so "nothing lost, nothing twice" is an equation between
sequences of numbers.  deflate is external: it takes all of its input and puts
out any prefix of what it holds, or everything when it is flushed; in `EventLog`
it may put out part of the next event besides (`more`), and a flush always adds
its own record.  Only a remote that is sent something can be found lost, and only
a send empties the buffer.

| Code | Model |
|---|---|
| VDP, PSG and YM state | `machine`: the number of events so far |
| `buffer`, inside of `output_stream`, `compressed` up to `next_out` | `buffer`, `held`, `compressed` |
| `remotes[i].send_progress` as an offset, `.players` | `send_progress`, `player` |
| an entry of `remotes` with and without its state; the accept queue | `phase` |
| `header.save_state` | `save_state`, with whose request it is |
| `event_log`, `event_cycle_adjust`, `event_flush`, `event_soft_flush` | actions of the same names; `Unlogged` when `!fully_active` |
| `flush_socket`: accept, send, disconnect, reset | `FlushSocket`, part of the three actions that flush |
| saving for the event log slot, `event_state` | `EventState` |

`StreamComplete` accounts for every event wherever it is; `RemotesFollow` is the
refinement of `EventStream`.  `PadsConserved`, `ActiveHasAudience` and
`JoinServed` are about who comes and goes.  The send loop, which spins while a
remote would block, is one step that ends.  Situations: `join_fails` (a client
hangs up before it got its state) and `save_clash` (the user saves while a
client joins, through the same slot).

### EventMem

A session is one emulated system.  What a thread does under `event_log_lock` is
one step; the draw between two decodes is another.  `buffer` is what the encoder
has written, `size` what it has published, `cur_pos` the reader's place; every
publication moves what was not decoded to the front.  VRAM addresses are logged
as differences when they are small, so encoder and decoder each keep the last
one.  The encoder's is `static` and outlives a session, the reader's starts at
0: the situation `stale_address`.  `quick_restart` is a session started before
the thread of the last one has ended.

### Control

A reply does not name its request, so its position does: the nth reply answers
the nth request.  `requests`, `replies`, `due` and `frames` are history
variables that say what was asked, what was answered and how many frames ran in
between; `at` is the program counter of the emulation thread, which sits in
`control_pause_loop` while the machine is paused.

| Code | Model |
|---|---|
| socket, `rx` up to its last newline | `wire`, `rx`, in requests |
| `step_remaining`, `until_active`, `running`, `state_op != STATE_NONE` | the same |
| `pad_desired`, what `control_apply_pad` has pressed | `pad_desired`, `pad_applied` |
| `control_dispatch` | `Dispatch`, one disjunct per command; all that answer on the spot and touch nothing of the above are `"inline"` |
| `control_pause_loop`, `control_read_line` | `Recv`, `PauseLine`, `Disconnected` |
| `control_poll` | `Poll` (its recv loop), `PollLine`, `PollDone` |
| `control_frame_boundary`, `control_instruction_boundary` with `do_state_op` | `FrameBoundary`, `InstructionBoundary` |

The frames that pass between two frame boundaries are one, or more after a long
DMA (`Elapsed`).  So a step cannot always run exactly as many frames as asked:
`StepsAsAsked` says that it ends at the first boundary by which it has run them.  Situations: `long_instruction` (a frame boundary passes with a
state still due), `state_while_running`, `rx_full`, `hang_up`.

### AudioSync

`SYNC_AUDIO` only: each sound chip has a back buffer the emulation thread fills
and a front buffer the callback mixes.  The callback holds SDL's device lock
while it waits for every active source, the emulation thread waits for the
callback to take a front buffer, and stopping or closing the device needs the
lock.  What is done under `audio_mutex` is one step; `emulator` and `callback`
are the two program counters, and both kinds of wait may wake up spuriously.  A
buffer is the set of slots that were written and not mixed, so a sample mixed
twice or never shows.

`audio_deadlock_hack` hands over the buffers of late sources as they are.  The
two safety properties except the sources it has handled: their next sample may
land behind the buffer (listed as a hazard, `render_audio.c:206`).

Properties: `WholeBuffers` (a populated front buffer is complete and fresh, the
back buffer holds exactly what was put), `WritesInBounds`, `EmulatorProceeds`,
`CallbackReturns`.

### FrameQueue

`SYNC_AUDIO_THREAD`: the machine runs in slices inside SDL's audio callback, the
VDP's render thread draws and queues frames, and the main thread shows them in
`render_video_loop` until the machine is paused.

| Code | Model |
|---|---|
| `frame_buffers[0..num_buffers)`, `locked_pixels`, `context->fb` | `pool`, `locked_pixels`, `fb` (0 for NULL); buffers are numbers |
| `frame_queue` and its three counters | the same |
| program counter of the main thread, of the callback | `main`, `callback` |
| entries of the machine's sources in `audio_sources` | `copies` |
| `audio_active`, `SDL_PauseAudio` | `audio_active`, `playing` |
| `force_release`, the CPU's `should_return` | the same |
| `render_get_framebuffer`, `render_framebuffer_updated` | `GetFramebuffer`, `FramebufferUpdated` |
| `render_video_loop` | `TakeFrame`, `FrameShown`, `LookAround`, `CondWait` |
| `audio_callback_run_on_audio`, `resume_genesis`, `handle_reset_requests` | `BeginSlice`, `AudioReady`, `CpuReturns`, `EndSlice` |
| menu button, leaving the menu, another ROM | `PressMenu`, `Resume`, `Reload` |

What is done under `frame_mutex` is one step, but for the main thread's look at
`audio_active` and its wait: the audio thread changes `audio_active` and signals
without the mutex, and doing so in between is the situation `signal_missed`.

- `BuffersOwned`: every framebuffer is in exactly one place, and the pool stays
  small.
- `NobodyWaitsForRoom`: the queue never holds more than a frame per output.
- `QueueIsMailbox`: the refinement of `FrameMailbox`; the replacement in the
  middle of the ring neither reorders, repeats nor drops the newest frame.
- `NewestShown`, `ReleaseEndsLoop`: the main thread never sleeps on a frame or
  on the end of a machine.

### WordRam and SegaCD

Registers say who has which memory; the `mem_pointers` of the two CPUs are what
they really reach, and each handler changes both.  `SegaCD` adds the decoder: a
transfer of `DBC` + 1 bytes goes through a two-byte register of the gate array
to a CPU that reads it or to memory that may be the other CPU's; a byte that
cannot be taken pauses the transfer, and four handlers resume it.

| Code | Model |
|---|---|
| `GA_MEM_MODE`: MODE, RET, DMNA, bank | `mode_1M`, `ret`, `dmna`, `prog_bank` |
| `main_has_word2m`, `bank_toggle`, `main_swap_request`, `sub_paused_wordram`, `busreq`, `reset`, `need_reset` | the same |
| the main CPU's pointers to word RAM, to program RAM | `main_word`, `main_prog` |
| the sub CPU's `mem_pointers[0]`, `[1]` | `sub_word`, `sub_bank` |
| `GA_CDC_CTRL`: destination, EDT, DSR; `GA_CDC_HOST_DATA` | `dest`, `edt`, `dsr`, `host_data` |
| `cdc_dst_low & 1` | `low` |
| `DBCL`, `DBCH`, DOUTEN, `DTBSY`, `DTEI`, `triggered` | `dbc`, `douten`, `dtbsy`, `dtei`, `triggered` |
| `next_byte_cycle`, `transfer_end` | whether they are set, and whether `transfer_end` is the cycle of the last byte |
| `cycles_per_byte` | `slow` |
| `handle_cdc_byte` called by `lc8951_run` | `Deliver` |
| `DTTRG`, with a counter written or left at 0xFFFF by the transfer before (the longest one, `MaxBytes`) | `Trigger`, `Counter` |
| a write of `GA_CDC_CTRL`, of `GA_CDC_DMA_ADDR` | `SelectDestination`, `WriteDmaAddress` |
| `lc8951_resume_transfer` | `Resume` |

Bytes are numbered in the order of the decoder's buffer; `given` and `moved` are
history: what left the decoder and what arrived.

- `MapMatchesRegisters`: at every moment both CPUs reach exactly what the
  registers say.
- `PausedCanResume`: a sub CPU that waits for word RAM can be released.
- `EachByteOnce`: over all pauses and resumptions every byte arrives once and in
  order.  The last byte of an odd number stays in hand as half a word until a write
  of `DTTRG`, of the destination or of the address drops it.
- `StallHasReason`: a transfer that stands still waits for something whose
  handler resumes it.
- `EdtMarksTheEnd`: EDT is set with the last byte, neither earlier nor never.

A program can drive the hardware in ways the code does not follow.  `Situations`
names nine of them, each of which breaks one of the properties when it is
exposed: a destination selected after the start, registers or the destination
written during a transfer, its address written between the two bytes of a word (the
upper one is dropped, `segacd.c:915`; between two words the write is harmless and
always in the model), a switch to 1M mode while a transfer waits, memory
taken away before the last word, a reset of a waiting sub CPU, and two loads of
a save state (the main CPU's pointer to program RAM is not rebuilt; the rate of
a transfer is not saved).

### I2cEeprom

The EEPROM side is `set_scl` and `set_host_sda`, edge by edge.  The game's
routines are external: a request goes through stages (start condition, device
byte, the parts of the address that the size calls for, a second start to read
from the larger memories, bytes of data, stop condition), and `stage` and `step`
say which access of the game comes next.  A byte takes three accesses for each of
its bits and three for the acknowledgement; each sets both lines (`Lines`).

- `EepromIsAMemory`: the refinement of `ByteMemory`.  Bytes written are read
  back, over the end of the memory and over interruptions: a game that is reset,
  or a state that is loaded from before the request.  Such an interruption comes
  at any access and may spoil the one byte that was on its way.
- `IndexInBounds`: the buffer is never indexed past its end.

No section of a save state holds the EEPROM; loading a state from within the
request is the situation `load_in_request`, under which the refinement does not
hold.  A game that starts over raises the clock once before its start condition,
and the EEPROM, wherever it was left, takes that for a bit.  `resets` therefore
counts the interruptions since the last start condition, except those before
that rise, which change nothing (`Clocked`).

A byte has `Bits` bits and the two sizes at which the address format changes are
constants, so that all three formats and a wrap fit into memories of 4, 16 and 32
bytes.  `SizesAssumption` says what the sizes of `rom.db` have in common.

## Runs

| Run | Bounds | Shows |
|---|---|---|
| `movie` | 2 inputs, 1 file, 2 slots, flush every 2 frames, 3 frames, 4 commands; `menu_play`, `load_in_play`, `live_input` exposed | the recorder's safety and the refinement |
| `movie_play` | same with 1 slot and 5 commands, nothing exposed | playback, with liveness |
| `movie_slot` | 1 slot, 4 commands, `slot_load` exposed | finding 1 |
| `remotes` | 3 clients, 2 pads, 3 events, sends above 1 event, nothing exposed | the stream of every remote, the pads, the join |
| `remotes_leave` | 2 clients, `join_fails` | finding 2 |
| `render_thread` | addresses 0, 1, 3 with deltas below 2, 2 sessions, 4 events | decoding under compaction, sleeping, waking and ending |
| `control` | 3 requests of every kind, steps of 1 and 2, 1 or 2 frames between boundaries; `long_instruction` and `hang_up` exposed | order and progress of the protocol, where steps end |
| `control_pipeline` | `state_while_running` | finding 3 |
| `audio` | 2 chips, buffers of 2 samples, a lead of 4 | no sample lost, no thread stuck |
| `frame_queue` | 1 drawer, 2 outputs, 4 slots, 4 frames, a source registered up to twice, 1 reload | buffers, order and progress of frames, leaving the loop |
| `sega_cd` | 2 banks, transfers of up to 4 bytes, no situation | the memory map, every byte of a transfer |
| `eeprom` | bytes of 3 bits, memories of 4, 16 and 32 bytes, requests of up to 2 bytes, 1 interruption until a request gets through (those before the clock has risen are not counted) | the memory the bit machine implements |

`FlushFrames` is 3600 in the code.  With 2 a flush happens within the three
frames of a history, between two saves, and just before or after a rewind, and a
buffer left by the playback of a shorter or longer movie is smaller, equal to or
larger than a fresh one.  Four commands are enough for record, save, save, load;
five for record, save, load, stop, play.  The slots of `movie` are
interchangeable, so it uses symmetry; `movie_play` checks liveness and does not.

With three clients one streams, one joins and one leaves at the same time, and
one more than the pads allow connects; a threshold of one event makes `event_log`
send both at once and later.  Two sessions are what a stale address or a late
thread needs; addresses 0, 1, 3 give differences that are zero, small, large and
negative.  Three requests are a state, what overtakes it and what follows; the
`rx` of the passing run is too large to fill.  A lead of two buffers is what
makes `audio_deadlock_hack` find somebody late.  Four frames of two outputs put
both orders of the two in the queue, a replacement at either place of the ring
and the wrap of its indices, which start anywhere.  Four bytes are two words:
the first is refused, read or written while the second is in the decoder, and an
odd count leaves half a word.  An address near the end of the memory and one in
its middle send ones and zeros in every part of the address, and a write of two
bytes at the last wraps.  One interruption is the bound that matters: with
two, right after the clock rose in the stop condition and in the request after
it, TLC finds that a byte of three bits is completed that nobody sent, and the
refinement does not hold.  Each such interruption brings in one bit, so a byte
of eight takes more of them.  But for this bound the proofs do without any.

A run carries the properties that say most; the type invariants of `EventRemotes`,
`EventMem`, `Control`, `FrameQueue`, `SegaCD` and `I2cEeprom` hold on the same instances and
are there for the reader and for proofs.

Runs say `CHECK_DEADLOCK FALSE` where the system stops for good: all events or
requests of the bound are used up and everybody has left.

Fairness:

- `Movie`: the emulation loop (`Emulate`) and the start of the machine are
  weakly fair, because the main loop calls them whatever the user does.
  Nothing is assumed of the user.
- `EventRemotes`: frames end (`EventFlush`) and pending saves are carried out
  (`Sync`) whatever the game does.  Nothing is assumed of clients.
- `EventMem`: every render thread that can run does.
- `Control`: the emulation thread serves what is there; frames and instructions
  end.  Nothing is assumed of the client.
- `AudioSync`: both threads run; SDL calls back until paused, and leaves the
  device lock free between two callbacks, which is why the emulation thread's
  wait for it is strongly fair; a machine that is resumed puts samples.
- `FrameQueue`: the main thread goes on, SDL calls back while the device plays,
  and a slice ends because its sources fill their buffers.  `EndSlice` is
  strongly fair because the main thread may hold `frame_mutex` again and again
  when it is due.  Nothing is assumed of the game, the drawing thread and the user.

## Theorems

Each theorem holds for every value of the constants that the `ASSUME` of its
module allows; a condition beyond that, on the situations that may arise, is the
`ASSUME` of the theorem itself and named below.  `PROJECT.json` lists which
property of which run each one states.

In `MovieProofs`, for every set of inputs, files and slots, every buffer size and every bound:

- `TypeCorrect`: `Spec => []TypeOK`.  `TypeInv` adds that a playing movie is in
  memory as a whole.
- `RecordingSafe`, `CaptureFits`, `ClosedMoviesComplete`: the three safety
  invariants of recording, when no situation may arise but those that harm
  playback alone (`RecorderUnexposed`).

`RecordingIsTheSession` is not inductive.  `RecordInv` adds to it:
`SessionInv` (the frame count is the length of file and buffer, and no false
boundary is pending), `BufferInv` (a buffer is never empty-sized),
`LiveStatesInv` (every live state is an earlier point of this session and its
frames start no later than the file ends, so that a rewind leaves no hole) and
`PowerOnInv` (before the start there is no history to reset).  The lemmas about
`Joins` do the work: one frame more, a flush, a rewind each keep the equation.
They are stated pointwise, without concatenation, because that is what the
provers handle.

Playback, when no situation arises (`NothingExposed`):

- `PlaybackIsTheSession`, `LiveAtTheEnd`: `ReplayInv` adds to the recorder's
  invariants where in the movie the player is (`PlayInv`: what the machine has
  seen, what `io.c` holds, and that no false boundary is pending) and that both
  frame counters are zero before the start (`ClockInv`).  That the movie is a
  whole session when playback starts is `ClosedMovieComplete` after the step.
- `RecorderImplementsTape` (under `RecorderUnexposed` again): every step of the
  recorder is one of `InputTape` or a stutter.  The invariants give the tape by
  the machine, as what follows the embedded state in its history, so that a
  frame extends it and a load rewinds it whatever buffer and file do meanwhile.

In `AudioSyncProofs`, for every set of chips, every buffer size and every lead:

- `AudioTypeCorrect`, `BuffersWhole`, `PutsInBounds`: type correctness and the
  two safety invariants.  `AudioInv` adds three parts.  `BlockedInv`: who waits
  is an active source whose back buffer is full.  `OwnSlotInv`: nobody else's
  is.  `LateInv`: a position the deadlock hack has moved to the end of a buffer
  belongs to a front buffer that the callback takes together with the
  caller's, so that the next put finds it free; this is what bounds the
  positions.  That `Min` of a set of positions is one of them rests on the
  well-foundedness of the naturals.

In `SegaCDProofs`, for every set of banks, every length of a transfer and every
order of steps, of programs that stay out of the situations (`Unexposed`):

- `MapTrue`, `PausedSubResumes`: the two invariants of `WordRam`.  Together with
  the types they are inductive (`MemoryInv`), and every step of the decoder
  leaves them alone (`StepsOfMemory`).
- `StallsHaveReasons`, `EdtAtTheEnd`: why transfers stand still, and when EDT
  rises.  `StallInv` adds three parts to the first.  `TransferInv`: what
  `lc8951_resume_transfer` takes for a paused transfer is one.  `LastWordInv`:
  memory is refused before the second byte of the last word at the latest;
  without it EDT could be noted for a byte that is then refused.  `EdtInv`: the
  end of a running transfer is the cycle of its last byte.
- `BytesOnce`: every byte once and in order.  `HandInv` says what has arrived by
  what the gate array holds: a word, the upper half of one, or nothing.

In `EventRemotesProofs`, for every set of clients and pads, every threshold and
every number of events:

- `TypeCorrect`, `StreamsAreComplete`, `ImplementsEventStream`: no condition.
  `StreamInv` adds to `StreamComplete` that the events count the machine's
  steps and that a remote's `send_progress` lies in the compressed buffer.  The
  invariant and the step of the refinement are proved together, because what a
  flush hands a remote and what it leaves are the two halves of one run of
  numbers; the lemmas about runs and their concatenations stand at the head of
  the module.
- `PadsAreConserved`, `EventsHaveAnAudience`: when no remote is lost in
  `event_state` (`Unexposed`), where both fail (finding 2).  A flush may lose
  several remotes at once, each with its pad: `PadInv`.

In `EventMemProofs`, for every set of addresses, every limit of the deltas and
any number of sessions, when neither an address nor a render thread outlives its
session (`Unexposed`; `PROJECT.json` has the lines):

- `MemTypeCorrect`, `DecodesTheLog`, `RenderThreadsImplementEventStream`.
  An event is encoded relative to the encoder's last address and decoded
  relative to the reader's, at another time and after any number of
  compactions.  So `EncoderInv` defines for each event in the buffer the
  address its reader will know when it arrives there, and says that this is the
  one the encoder subtracted.  `BufferInv` puts what was decoded, what is
  published and what is not in one line with the log; `ThreadInv` says which
  threads may still read.

In `ControlProofs`, for any number of requests, any lengths of steps and of
instructions (finitely many, as machine integers are), with a receive buffer
that is not filled and no state requested of a running machine (`WellBehaved`;
finding 3 and the hazard of `rx_full` are the two):

- `RepliesMatchRequests`, `PausedMachinesStandStill`, `StepsTakeAsLong`,
  `StepsHoldTheirButtons`, `ControlTypeCorrect`, and `StepsAreExact` where
  boundaries are one frame apart.  They share one invariant.
  `QueueInv`: at most one request is dispatched and not answered, and `rx` and
  the wire hold the ones after it.  `ModeInv` says what the flags mean together:
  which of them the request that is due has set, and that `running` is what the
  last `run` or `pause` asked for.  `PlaceInv`: in which loop the emulation
  thread may be meanwhile.  `CountInv`: the frames a step has run and those it
  misses add up to what was asked, so a step that is not answered misses some.

In `FrameQueueProofs`, for every set of outputs and drawing threads, every size
of the ring above the number of outputs, and wherever its indices start:

- `FrameTypeCorrect`, `NobodyWaits`, `QueueImplementsMailbox`: no condition.
  `LineInv`: no two frames in the ring are of one output, so that by the
  pigeonhole principle they fit; the write index is the place after the last.
  `NumberInv`: what waits is the newest of its output and was not shown.
  `SliceInv`: a machine without sources does not run.
- `BuffersHaveOneOwner`: when one thread draws (`OneDraws`), as in the program:
  with SYNC_AUDIO_THREAD either the audio thread or the render thread puts out
  lines, and `locked_pixels` is one variable.  `OwnInv` is `BuffersOwned` place
  by place; that it says the same is a lemma about cardinalities.

In `I2cEepromProofs`, for bytes of any number of bits from three, every size and
address format that `SizesAssumption` allows, any addresses and bytes and requests
of any length, when no state is loaded that was saved within the same request
(`Unexposed`) and a game that was interrupted is not interrupted again between
the first rise of the clock and the start condition (`OneInterruption`):

- `EepromTypeCorrect`, `EepromInBounds`, `EepromImplementsMemory`.  That the index
  stays in bounds follows only from what is in the address, and that from what
  the bits of a request add up to, so all three have one invariant, `IInv`.
  `StepsOK`, `RouteOK` and `LinesOK` say where the game is and where it left the
  lines.  `ThroughOK` says where the EEPROM is in each stage: of a byte that comes
  in, the upper bits are in the latch (`ComesIn`); of one that goes out, the lower
  bits are left there and the upper ones are in `sampled` (`ReadOK`, `SampledOK`);
  and what state and address the bytes before have made.  `UnsettledOK` says what
  an interruption leaves: `BeforeRise` that the next rise of the clock brings in
  no byte but the one at risk, and takes none from beyond the end; `AfterRise`
  that the start condition finds the address in bounds.
  The arithmetic is proved first.  That powers of two are naturals and double
  rests on the library's facts about the subsets of a finite set, since an
  induction is out of reach; `LatchIn` and `LatchOut` are a shift to either side,
  in terms of quotients and remainders.  In the refinement an access stores a
  byte, fetches one, spoils the one at risk, settles it, or is a stutter
  (`ByteStored`, `NothingStored` and what follows them).

What these modules need of least elements, of concatenations and of runs of
numbers is stated at the head of each, where it is used.

Every invariant and every refinement that a passing run checks has a theorem.
Only model-checked is liveness, which is out of the prover's reach together with
`ENABLED`: `PlaybackEnds`, `JoinServed`, `PublishedIsDecoded`, `ThreadEnds`,
`EveryRequestAnswered`, `ServerEnds`, `EmulatorProceeds`, `CallbackReturns`,
`NewestShown` and `ReleaseEndsLoop`.

## Findings

1. `movie_slot`: `load_state` (hotkey, menu) does not rebase `gen->last_frame`
   as the control server's load does.  The trace records, saves, plays on and
   loads the slot: the recording is rewound to its state, but the next sync takes
   the load for a frame boundary, and it gains a frame nobody played.
   Playback started from the menu of a running system has the same false
   boundary and injects frame 1 before frame 0 has run (situation `menu_play`).
2. `remotes_leave`: a remote lost in `event_state` may be the last one.  Nobody
   resets the log, as `flush_socket` does; events go on being compressed into a
   buffer only a send empties, up to the `fatal_error` of `deflate_flush`.
3. `control_pipeline`: `control_poll` ignores what `control_dispatch` returns.
   `load_state` and `pause` sent in one go to a running machine: the pause is
   answered first, and the load neither carried out nor answered.

Not counted as findings, because nothing in the repository says otherwise, are the
situations of `Control` (`rx_full`: requests that fill `rx` are thrown away
without an error), `FrameQueue`, `SegaCD` and `I2cEeprom` under which properties
do not hold; `PROJECT.json` lists each as a hazard with its line.

## Not modelled

`PROJECT.json` says of each component why.  In short: CPU cores, the VDP's
drawing and the sound chips compute, on states far too large for TLC; other
machines run the same loop without a recorder; UI, configuration and platform
code is text and I/O; zlib and Nuklear are third-party.  Of the modelled
components, the file log, the remotes' commands, the growth of buffers,
the ring buffers of `SYNC_VIDEO`, and failing file operations are left out.  Of
the Sega CD, the graphics unit, which writes to word RAM without asking who has
it (`cd_graphics.c:142`), the interrupts, and the drive.  The NOR flash is not
wired in (`genesis.c:3022`); as it stands no write reaches its memory, because
`last_write_cycle` is never set.  The send loop of `flush_socket`, which spins
while a remote would block (`event_log.c:304`), is one step.

## Plan

1. Done: `InputTape`, `Movie`, `EventStream`, `EventRemotes`, `EventMem`,
   `Control`, `AudioSync`, `FrameMailbox`, `FrameQueue`, `WordRam`, `SegaCD`,
   `ByteMemory`, `I2cEeprom`, the theorems.
2. The drive of the Sega CD (`cdd_mcu.c`) above `SegaCD`: seeks, the sector and
   frame interrupts and the status the gate array shows.
3. The TH counters of pads with their timeouts; the commands of the Mega Wi-Fi
   module.
4. Movie export on top of `Movie`: which frames are captured, when it ends.
5. Theorems: weaker conditions where a situation is harmless to a property, as
   `stale_address` may be to `MemTypeCorrect`; how many interruptions an EEPROM of
   a given size stands, where `OneInterruption` allows one.
