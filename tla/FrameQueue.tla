----------------------------- MODULE FrameQueue -----------------------------
(***************************************************************************)
(* Sync to the audio thread (sync_src = SYNC_AUDIO_THREAD): the machine    *)
(* runs in slices inside SDL's audio callback, the VDP's render thread     *)
(* draws frames into buffers of a pool and queues them, and the main       *)
(* thread shows them (render_video_loop) until the machine is paused.      *)
(*                                                                         *)
(* What is done while frame_mutex is held is one step, except that the     *)
(* main thread holds it between looking at audio_active and waiting: the   *)
(* audio thread changes audio_active without the mutex.                    *)
(***************************************************************************)
EXTENDS Integers, FiniteSets, Functions

CONSTANTS
  Drawers,     \* threads whose VDP puts out lines; in mode 5 the renderer only
  Outputs,     \* FRAMEBUFFER_ODD, FRAMEBUFFER_EVEN
  Slots,       \* places of frame_queue
  MaxCopies,   \* entries a source can have in audio_sources
  MaxFrames,   \* bound: frames that are drawn
  MaxReloads,  \* bound: times another ROM is loaded
  Exposed      \* situations that may arise

Situations == { "signal_missed" }  \* the machine is paused while the main thread holds the mutex

ASSUME FrameAssumption ==
  /\ IsFiniteSet(Drawers) /\ Drawers # {} /\ IsFiniteSet(Outputs) /\ Outputs # {}
  /\ Slots \in Nat /\ Slots > Cardinality(Outputs)
  /\ {MaxCopies, MaxFrames} \subseteq Nat \ {0} /\ MaxReloads \in Nat
  /\ Exposed \subseteq Situations

VARIABLES
  pool,              \* frame_buffers[0..num_buffers)
  allocated,         \* buffers that exist are 1..allocated
  fb, cur_buffer,    \* of the VDP of each drawer; fb = 0 for NULL
  locked_pixels,
  frame_queue, frame_queue_len, frame_queue_read, frame_queue_write,
  main,              \* where the main thread is
  showing,           \* the frame it has taken
  callback,          \* where the audio thread is
  playing,           \* SDL_PauseAudio(0) was the last call
  audio_active,
  copies,            \* entries of each of the machine's sources in audio_sources
  force_release, should_return,
  reloads,
  drawn, shown,      \* history: newest frame, last frame taken, of each output
  lost               \* history: buffers nothing refers to any more

bufferVars == <<pool, allocated, fb, cur_buffer, locked_pixels, lost>>
queueVars == <<frame_queue, frame_queue_len, frame_queue_read, frame_queue_write>>
sliceVars == <<callback, playing, audio_active, copies, force_release, should_return>>
vars == <<bufferVars, queueVars, main, showing, sliceVars, reloads, drawn, shown>>

Buffers == 1..allocated
NoFrame == [buffer |-> 0, which |-> CHOOSE o \in Outputs : TRUE, n |-> 0]
Frames == [buffer : Nat, which : Outputs, n : Nat]
Indices == 0..(Slots - 1)

TypeOK ==
  /\ allocated \in Nat /\ pool \subseteq Buffers /\ lost \subseteq Buffers
  /\ fb \in [Drawers -> Buffers \cup {0}] /\ locked_pixels \in Buffers \cup {0}
  /\ cur_buffer \in [Drawers -> Outputs]
  /\ frame_queue \in [Indices -> Frames] /\ frame_queue_len \in 0..Slots
  /\ frame_queue_read \in Indices /\ frame_queue_write \in Indices
  /\ main \in {"top", "deciding", "waiting", "showing", "out"}
  /\ showing \in Frames
  /\ callback \in {"idle", "running", "ending"}
  /\ playing \in BOOLEAN /\ audio_active \in BOOLEAN
  /\ copies \in 0..MaxCopies
  /\ force_release \in BOOLEAN /\ should_return \in BOOLEAN
  /\ reloads \in 0..MaxReloads
  /\ drawn \in [Outputs -> Nat] /\ shown \in [Outputs -> Nat]

\* texture_buf is the first buffer of the pool.  The machine has run its first
\* slice in the main thread, which enters render_video_loop.  The indices of the
\* queue are where an earlier machine left them.
Init ==
  /\ pool = {1} /\ allocated = 1 /\ lost = {}
  /\ fb = [t \in Drawers |-> 0]
  /\ locked_pixels = 0
  /\ cur_buffer = [t \in Drawers |-> NoFrame.which]
  /\ frame_queue = [i \in Indices |-> NoFrame]
  /\ frame_queue_len = 0 /\ frame_queue_read \in Indices /\ frame_queue_write = frame_queue_read
  /\ main = "top" /\ showing = NoFrame
  /\ callback = "idle" /\ playing = TRUE /\ audio_active = TRUE /\ copies = 1
  /\ force_release = FALSE /\ should_return = FALSE
  /\ reloads = 0
  /\ drawn = [o \in Outputs |-> 0] /\ shown = [o \in Outputs |-> 0]
-----------------------------------------------------------------------------
(* The threads that draw. *)

\* A line is due and there is no buffer: one of the pool, or a new one.
GetFramebuffer(t) ==
  /\ fb[t] = 0
  /\ \E b \in IF pool = {} THEN {allocated + 1} ELSE pool :
       /\ allocated' = IF pool = {} THEN allocated + 1 ELSE allocated
       /\ pool' = pool \ {b}
       /\ fb' = [fb EXCEPT ![t] = b]
       /\ locked_pixels' = b
  /\ UNCHANGED <<queueVars, main, showing, sliceVars, reloads, drawn, shown, cur_buffer, lost>>

Place(i) == (frame_queue_read + i) % Slots

\* Mutant: the new frame is queued behind the old one.
NeverWaiting(o) == {}

\* Where a frame of this output waits.
Waiting(o) == {Place(i) : i \in {j \in 0..(frame_queue_len - 1) : frame_queue[Place(j)].which = o}}
\* Mutant: the gap is not closed.
NotClosed(cur) == frame_queue

\* The queue with the entry at cur replaced by the last one.
Closed(cur) == [frame_queue EXCEPT ![cur] = frame_queue[(frame_queue_write - 1) % Slots]]

\* Mutant: nobody signals frame_ready.
NoSignal == main

\* Whoever waits for frame_ready goes on.
Signalled == IF main = "waiting" THEN "top" ELSE main

\* The frame is complete: queue what was locked last, in place of a frame of the
\* same output that was not shown.  The next frame may be of the other field.
FramebufferUpdated(t) ==
  LET o == cur_buffer[t]
      new == [buffer |-> locked_pixels, which |-> o, n |-> drawn[o] + 1]
  IN
  /\ fb[t] # 0 /\ main # "deciding" /\ frame_queue_len < Slots
  /\ FoldFunction(+, 0, drawn) < MaxFrames
  /\ IF Waiting(o) = {}
     THEN /\ frame_queue' = [frame_queue EXCEPT ![frame_queue_write] = new]
          /\ frame_queue_write' = (frame_queue_write + 1) % Slots
          /\ frame_queue_len' = frame_queue_len + 1
          /\ UNCHANGED pool
     ELSE \E cur \in Waiting(o) :
          /\ frame_queue' = [Closed(cur) EXCEPT ![(frame_queue_write - 1) % Slots] = new]
          /\ pool' = pool \cup {frame_queue[cur].buffer}
          /\ UNCHANGED <<frame_queue_write, frame_queue_len>>
  /\ fb' = [fb EXCEPT ![t] = 0]
  /\ \E next \in Outputs : cur_buffer' = [cur_buffer EXCEPT ![t] = next]
  /\ drawn' = [drawn EXCEPT ![o] = @ + 1]
  /\ main' = Signalled
  /\ UNCHANGED <<frame_queue_read, showing, sliceVars, reloads, shown, allocated, locked_pixels, lost>>
-----------------------------------------------------------------------------
(* The main thread in render_video_loop. *)

TakeFrame ==
  /\ main = "top" /\ frame_queue_len > 0
  /\ showing' = frame_queue[frame_queue_read]
  /\ frame_queue' = [frame_queue EXCEPT ![frame_queue_read] = NoFrame]  \* not read again
  /\ shown' = [shown EXCEPT ![showing'.which] = showing'.n]
  /\ frame_queue_read' = (frame_queue_read + 1) % Slots
  /\ frame_queue_len' = frame_queue_len - 1
  /\ main' = "showing"
  /\ UNCHANGED <<bufferVars, frame_queue_write, sliceVars, reloads, drawn>>

\* The user presses the menu button while events are handled for a frame.
PressMenu ==
  /\ main = "showing"
  /\ force_release' = TRUE /\ should_return' = TRUE
  /\ UNCHANGED <<bufferVars, queueVars, main, showing, callback, playing, audio_active, copies,
                 reloads, drawn, shown>>

\* Mutant: the buffer is not given back.
KeepBuffer == pool
ReleasedBuffer == pool \cup {showing.buffer}

FrameShown ==
  /\ main = "showing"
  /\ pool' = ReleasedBuffer
  /\ showing' = NoFrame
  /\ main' = "top"
  /\ UNCHANGED <<queueVars, sliceVars, reloads, drawn, shown, allocated, fb, cur_buffer, locked_pixels, lost>>

\* Nothing is queued: wait, or leave the loop when the machine was paused.
LookAround ==
  /\ main = "top" /\ frame_queue_len = 0
  /\ main' = IF audio_active THEN "deciding" ELSE "out"
  /\ UNCHANGED <<bufferVars, queueVars, showing, sliceVars, reloads, drawn, shown>>

CondWait ==
  /\ main = "deciding" /\ main' = "waiting"
  /\ UNCHANGED <<bufferVars, queueVars, showing, sliceVars, reloads, drawn, shown>>

SpuriousWakeup ==
  /\ main = "waiting" /\ main' = "top"
  /\ UNCHANGED <<bufferVars, queueVars, showing, sliceVars, reloads, drawn, shown>>
-----------------------------------------------------------------------------
(* The machine, in slices. *)

\* resume_context: a machine that was told to release its devices takes them
\* back, which ends its slice (render_source_resumed).
TakeBack ==
  /\ copies' = IF copies < MaxCopies THEN copies + 1 ELSE copies
  /\ audio_active' = TRUE
  /\ force_release' = FALSE

BeginSlice ==
  /\ callback = "idle" /\ playing
  /\ callback' = "running"
  /\ \/ /\ force_release /\ TakeBack
        /\ should_return' = TRUE
     \/ /\ ~force_release
        /\ UNCHANGED <<copies, audio_active, force_release, should_return>>
  /\ UNCHANGED <<bufferVars, queueVars, main, showing, playing, reloads, drawn, shown>>

\* Every source has a full buffer (render_do_audio_ready).
AudioReady ==
  /\ callback = "running"
  /\ force_release' = FALSE /\ should_return' = TRUE
  /\ UNCHANGED <<bufferVars, queueVars, main, showing, callback, playing, audio_active, copies,
                 reloads, drawn, shown>>

CpuReturns ==
  /\ callback = "running" /\ should_return
  /\ callback' = "ending" /\ should_return' = FALSE
  /\ UNCHANGED <<bufferVars, queueVars, main, showing, playing, audio_active, copies, force_release,
                 reloads, drawn, shown>>

\* The last entry of every source is gone: the device is paused and the main
\* thread is told, which hears it when it waits.
ReleaseSources ==
  /\ copies' = copies - 1
  /\ IF copies = 1
     THEN /\ main # "deciding" \/ "signal_missed" \in Exposed
          /\ playing' = FALSE /\ audio_active' = FALSE
          /\ main' = Signalled
     ELSE UNCHANGED <<playing, audio_active, main>>

EndSlice ==
  /\ callback = "ending"
  /\ callback' = "idle"
  /\ \/ force_release /\ ReleaseSources
     \/ ~force_release /\ UNCHANGED <<copies, playing, audio_active, main>>
  /\ UNCHANGED <<bufferVars, queueVars, showing, force_release, should_return, reloads, drawn, shown>>
-----------------------------------------------------------------------------
(* The main thread outside of the loop; the machine is paused. *)

Resume ==
  /\ main = "out" /\ callback = "idle"
  /\ \/ force_release /\ TakeBack
     \/ ~force_release /\ UNCHANGED <<copies, audio_active, force_release>>
  /\ should_return' = FALSE
  /\ playing' = TRUE
  /\ main' = "top"
  /\ UNCHANGED <<bufferVars, queueVars, showing, callback, reloads, drawn, shown>>

\* Another ROM: the old VDP contexts are freed, with what they draw into.
Reload ==
  /\ main = "out" /\ callback = "idle" /\ reloads < MaxReloads
  /\ reloads' = reloads + 1
  /\ lost' = lost \cup (Range(fb) \ {0})
  /\ fb' = [t \in Drawers |-> 0]
  /\ cur_buffer' = [t \in Drawers |-> NoFrame.which]
  /\ copies' = 1 /\ audio_active' = TRUE /\ playing' = TRUE
  /\ force_release' = FALSE /\ should_return' = FALSE
  /\ main' = "top"
  /\ UNCHANGED <<pool, allocated, locked_pixels, queueVars, showing, callback, drawn, shown>>
-----------------------------------------------------------------------------
Draw == \E t \in Drawers : GetFramebuffer(t) \/ FramebufferUpdated(t)

VideoLoop == TakeFrame \/ FrameShown \/ LookAround \/ CondWait

Next ==
  \/ Draw \/ VideoLoop \/ PressMenu \/ SpuriousWakeup
  \/ BeginSlice \/ AudioReady \/ CpuReturns \/ EndSlice
  \/ Resume \/ Reload

\* The main thread runs, SDL calls back while the device plays, and a slice ends.
\* Nothing is assumed of the game, of the thread that draws and of the user.
Fairness ==
  /\ WF_vars(VideoLoop)
  /\ WF_vars(BeginSlice) /\ WF_vars(AudioReady) /\ WF_vars(CpuReturns)
  /\ SF_vars(EndSlice)

Spec == Init /\ [][Next]_vars /\ Fairness
-----------------------------------------------------------------------------
Queued == {frame_queue[Place(i)] : i \in 0..(frame_queue_len - 1)}

\* Where a buffer is, each place with how often it is there.
Owners(b) ==
  (IF b \in pool THEN {"pool"} ELSE {})
  \cup (IF b \in lost THEN {"lost"} ELSE {})
  \cup (IF showing.buffer = b THEN {"showing"} ELSE {})
  \cup {<<"queue", i>> : i \in {j \in 0..(frame_queue_len - 1) : frame_queue[Place(j)].buffer = b}}
  \cup {<<"drawing", t>> : t \in {u \in Drawers : fb[u] = b}}

\* Every framebuffer is in exactly one place: free, drawn into, queued or shown
\* (render_get_framebuffer, release_buffer and the two ends of frame_queue), so
\* that nobody draws into a frame that is shown, none is freed twice, and the
\* pool stops growing; only freeing a VDP context loses one (vdp_free).
BuffersOwned ==
  /\ \A b \in Buffers : Cardinality(Owners(b)) = 1
  /\ allocated <= Cardinality(Outputs) + Cardinality(Drawers) + 1 + Cardinality(lost)

\* frame_queue never fills up: a frame of each output and no more, so that the
\* thread that draws never waits for the one that shows.
NobodyWaitsForRoom == frame_queue_len <= Cardinality(Outputs)

Pending(o) == LET frames == {f \in Queued : f.which = o}
              IN  IF frames = {} THEN 0 ELSE (CHOOSE f \in frames : TRUE).n

Mailbox == INSTANCE FrameMailbox WITH pending <- [o \in Outputs |-> Pending(o)]

\* The four-slot ring, its two indices and the replacement in its middle
\* (render_framebuffer_updated) implement one box per output: only the newest
\* frame waits, and frames of an output are shown in the order they were drawn.
QueueIsMailbox == Mailbox!MailboxSpec

\* What was queued is shown, or something newer of its output, unless the main
\* thread leaves the loop: it never sleeps on a frame.
NewestShown == \A o \in Outputs : []<>(shown[o] = drawn[o] \/ main = "out")

\* A machine that gives its only sources back at the end of a slice brings the
\* main thread out of render_video_loop, to the menu or the next ROM.
ReleaseEndsLoop ==
  (callback = "ending" /\ force_release /\ copies = 1) ~> main = "out"
=============================================================================
