------------------------------ MODULE AudioSync ------------------------------
(***************************************************************************)
(* Sync to audio (sync_src = SYNC_AUDIO): the emulation thread puts the    *)
(* samples of every sound chip into double buffers (render_audio.c), SDL's *)
(* audio thread mixes them in audio_callback (render_sdl.c), and each      *)
(* waits for the other: the callback on audio_ready until every active     *)
(* source has a full front buffer, the emulation thread on a source's own  *)
(* condition until its front buffer has been mixed.                        *)
(*                                                                         *)
(* What is done while audio_mutex is held is one step.  SDL holds the      *)
(* device lock around the callback; SDL_PauseAudio and SDL_CloseAudio need *)
(* it.  A buffer is the set of its slots whose sample was not mixed yet.   *)
(***************************************************************************)
EXTENDS Integers, FiniteSetsExt

CONSTANTS
  Sources,        \* the sound chips
  BufferSamples,  \* buffer_samples, and sync_samples with it
  MaxLead         \* bound: samples a chip may be run ahead of another

ASSUME AudioAssumption ==
  /\ IsFiniteSet(Sources)
  /\ BufferSamples \in Nat \ {0}
  /\ MaxLead \in Nat \ {0}

Slots == 1..BufferSamples

VARIABLES
  active,           \* audio_sources
  front, back,      \* per source: the slots not mixed yet
  front_populated,
  buffer_pos,
  lead,             \* per source: samples ahead of the slowest active one
  emulator,         \* [at, src]: where the emulation thread is
  callback,         \* where the audio thread is
  paused,           \* SDL_GetAudioStatus() = SDL_AUDIO_PAUSED
  quitting,
  hacked            \* history: sources audio_deadlock_hack has handled

bufferVars == <<front, back, front_populated, buffer_pos, lead, hacked>>
deviceVars == <<callback, paused, quitting>>
vars == <<active, bufferVars, emulator, deviceVars>>

EmulatorPlaces ==
  { "running",
    "full",       \* a back buffer is full: render_do_audio_ready is entered
    "waiting",    \* for the source's condition
    "woken",      \* from it
    "removed",    \* a source is gone, render_source_paused is next
    "added",      \* a source is there, render_source_resumed is next
    "silencing",  \* in SDL_PauseAudio(1)
    "starting",   \* in SDL_PauseAudio(0)
    "closing" }   \* in SDL_CloseAudio

TypeOK ==
  /\ active \subseteq Sources /\ hacked \subseteq Sources
  /\ front \in [Sources -> SUBSET Slots] /\ back \in [Sources -> SUBSET Slots]
  /\ front_populated \in [Sources -> BOOLEAN]
  /\ buffer_pos \in [Sources -> 0..(BufferSamples + 1)]
  /\ lead \in [Sources -> 0..MaxLead]
  /\ emulator \in [at : EmulatorPlaces, src : Sources]
  /\ callback \in {"idle", "checking", "waiting"}
  /\ paused \in BOOLEAN /\ quitting \in BOOLEAN

Init ==
  /\ active = Sources /\ hacked = {}
  /\ front = [s \in Sources |-> {}] /\ back = [s \in Sources |-> {}]
  /\ front_populated = [s \in Sources |-> FALSE]
  /\ buffer_pos = [s \in Sources |-> 0]
  /\ lead = [s \in Sources |-> 0]
  /\ emulator \in [at : {"running"}, src : Sources]
  /\ callback = "idle" /\ paused = FALSE /\ quitting = FALSE
-----------------------------------------------------------------------------
AllSourcesReady == \A s \in active : front_populated[s]

GoTo(at) == emulator' = [emulator EXCEPT !.at = at]
At(at) == emulator.at = at

\* Mutant: nobody signals audio_ready.
NoSignal == callback

\* SDL_CondSignal(audio_ready)
Signalled == IF callback = "waiting" THEN "checking" ELSE callback

(* The emulation thread: samples. *)

\* Mutant: one sample more than fits.
FullPast(n) == n > BufferSamples

Full(n) == n >= BufferSamples

\* render_put_mono_sample, render_put_stereo_sample.  A sample behind the last
\* slot is written outside of the buffer.
Put(s) ==
  /\ At("running") /\ s \in active
  /\ LET ahead == [r \in Sources |-> IF r \in active THEN lead[r] + IF r = s THEN 1 ELSE 0 ELSE 0]
         least == Min({ahead[r] : r \in active})
     IN /\ ahead[s] - least <= MaxLead
        /\ lead' = [r \in Sources |-> IF r \in active THEN ahead[r] - least ELSE 0]
  /\ buffer_pos' = [buffer_pos EXCEPT ![s] = @ + 1]
  /\ back' = [back EXCEPT ![s] = @ \cup ({buffer_pos[s] + 1} \cap Slots)]
  /\ emulator' = [at |-> IF Full(buffer_pos[s] + 1) THEN "full" ELSE "running", src |-> s]
  /\ UNCHANGED <<active, front, front_populated, hacked, deviceVars>>

\* Mutant: the position is left where it was.
PositionKept(s) == buffer_pos

PositionReset(s) == [buffer_pos EXCEPT ![s] = 0]

Fill(s) ==
  /\ front' = [front EXCEPT ![s] = back[s]]
  /\ back' = [back EXCEPT ![s] = front[s]]
  /\ front_populated' = [front_populated EXCEPT ![s] = TRUE]
  /\ buffer_pos' = PositionReset(s)
  /\ callback' = Signalled
  /\ GoTo("running")
  /\ UNCHANGED <<active, lead, hacked, paused, quitting>>

\* Mutant: no source is late.
NoneLate == {}

Late == {s \in active : ~front_populated[s]}

\* The late sources' buffers are handed over as they are, and their position
\* becomes the least of the others'.
AudioDeadlockHack ==
  LET min_buffer_pos == Min({buffer_pos[s] : s \in active \ Late}) IN
  /\ front' = [s \in Sources |-> IF s \in Late THEN back[s] ELSE front[s]]
  /\ back' = [s \in Sources |-> IF s \in Late THEN front[s] ELSE back[s]]
  /\ front_populated' = [s \in Sources |-> s \in Late \/ front_populated[s]]
  /\ buffer_pos' = [s \in Sources |-> IF s \in Late THEN min_buffer_pos ELSE buffer_pos[s]]
  /\ hacked' = hacked \cup Late
  /\ callback' = IF Late # {} THEN Signalled ELSE callback

\* render_do_audio_ready, up to where it waits.
DoAudioReady(s) ==
  /\ emulator = [at |-> "full", src |-> s]
  /\ IF front_populated[s]
     THEN /\ AudioDeadlockHack
          /\ GoTo("waiting")
          /\ UNCHANGED <<active, lead, paused, quitting>>
     ELSE Fill(s)

\* Mutant: the condition is not looked at again.
FrontFreeAnyway(s) == TRUE

FrontFree(s) == ~front_populated[s]

WokenUp(s) ==
  /\ emulator = [at |-> "woken", src |-> s]
  /\ IF FrontFree(s)
     THEN Fill(s)
     ELSE GoTo("waiting") /\ UNCHANGED <<active, bufferVars, deviceVars>>

(* The emulation thread: sources come and go. *)

\* render_pause_source.  A source that is put to is never the paused one.
PauseSource(s) ==
  /\ At("running") /\ s \in active
  /\ active' = active \ {s}
  /\ lead' = [lead EXCEPT ![s] = 0]
  /\ GoTo("removed")
  /\ UNCHANGED <<front, back, front_populated, buffer_pos, hacked, deviceVars>>

\* render_source_paused
SourcePaused ==
  /\ At("removed")
  /\ callback' = Signalled
  /\ GoTo(IF active = {} THEN "silencing" ELSE "running")
  /\ UNCHANGED <<active, bufferVars, paused, quitting>>

\* render_resume_source
ResumeSource(s) ==
  /\ At("running") /\ s \notin active
  /\ active' = active \cup {s}
  /\ GoTo("added")
  /\ UNCHANGED <<bufferVars, deviceVars>>

\* Mutant: the device is started without asking whether it runs.
StartAnyway == TRUE

MustStart == paused

\* render_source_resumed
SourceResumed ==
  /\ At("added")
  /\ GoTo(IF MustStart THEN "starting" ELSE "running")
  /\ UNCHANGED <<active, bufferVars, deviceVars>>

\* SDL_PauseAudio takes the device lock.
PauseAudio ==
  /\ At("silencing") \/ At("starting")
  /\ callback = "idle"
  /\ paused' = At("silencing")
  /\ GoTo("running")
  /\ UNCHANGED <<active, bufferVars, callback, quitting>>

\* render_config_updated, render_close_audio: the audio configuration changed.
CloseAudio ==
  /\ At("running")
  /\ quitting' = TRUE
  /\ callback' = Signalled
  /\ GoTo("closing")
  /\ UNCHANGED <<active, bufferVars, paused>>

\* SDL_CloseAudio waits for the callback; then the device is opened again and
\* runs if it did before.
ReopenAudio ==
  /\ At("closing") /\ callback = "idle"
  /\ quitting' = FALSE
  /\ GoTo("running")
  /\ UNCHANGED <<active, bufferVars, callback, paused>>
-----------------------------------------------------------------------------
(* The audio thread. *)

\* SDL's audio thread ends once SDL_CloseAudio has been called.
EnterCallback ==
  /\ callback = "idle" /\ ~paused /\ ~At("closing")
  /\ callback' = "checking"
  /\ UNCHANGED <<active, bufferVars, emulator, paused, quitting>>

WaitForSources ==
  /\ callback = "checking"
  /\ ~quitting /\ ~AllSourcesReady
  /\ callback' = "waiting"
  /\ UNCHANGED <<active, bufferVars, emulator, paused, quitting>>

\* mix_and_convert, render_buffer_consumed
MixAndConvert ==
  /\ callback = "checking"
  /\ ~quitting /\ AllSourcesReady
  /\ front' = [s \in Sources |-> IF s \in active THEN {} ELSE front[s]]
  /\ front_populated' = [s \in Sources |-> s \notin active /\ front_populated[s]]
  /\ IF At("waiting") /\ emulator.src \in active THEN GoTo("woken") ELSE UNCHANGED emulator
  /\ callback' = "idle"
  /\ UNCHANGED <<active, back, buffer_pos, lead, hacked, paused, quitting>>

CallbackQuits ==
  /\ callback = "checking" /\ quitting
  /\ callback' = "idle"
  /\ UNCHANGED <<active, bufferVars, emulator, paused, quitting>>

\* A condition variable may wake up without having been signalled.
SpuriousWakeup ==
  \/ /\ At("waiting") /\ GoTo("woken")
     /\ UNCHANGED <<active, bufferVars, deviceVars>>
  \/ /\ callback = "waiting" /\ callback' = "checking"
     /\ UNCHANGED <<active, bufferVars, emulator, paused, quitting>>

AudioReady == \E s \in Sources : DoAudioReady(s) \/ WokenUp(s)
Device == SourcePaused \/ SourceResumed \/ PauseAudio \/ ReopenAudio
Callback == EnterCallback \/ WaitForSources \/ MixAndConvert \/ CallbackQuits

Next ==
  \/ \E s \in Sources : Put(s) \/ PauseSource(s) \/ ResumeSource(s)
  \/ AudioReady
  \/ Device
  \/ CloseAudio
  \/ Callback
  \/ SpuriousWakeup

\* Both threads run, SDL calls back again and again while it is not paused and
\* does not hold the device lock between two callbacks, and a system that is
\* left and resumed puts samples in between.
Spec ==
  /\ Init /\ [][Next]_vars
  /\ WF_vars(AudioReady) /\ SF_vars(Device) /\ WF_vars(Callback)
  /\ SF_vars(\E s \in Sources : Put(s))
-----------------------------------------------------------------------------
(* Properties. *)

\* Every sample is mixed, and only once: a front buffer is complete and holds
\* nothing that was mixed before, whatever was paused and resumed in between.
\* A source that audio_deadlock_hack has handled is excepted.
WholeBuffers ==
  \A s \in Sources \ hacked :
    /\ front[s] = IF front_populated[s] THEN Slots ELSE {}
    /\ back[s] = 1..buffer_pos[s]

\* The next sample has a slot of its own, again but for audio_deadlock_hack.
WritesInBounds ==
  At("running") => \A s \in Sources \ hacked : buffer_pos[s] < BufferSamples

\* The emulation thread always gets on, be it waiting for the callback, or in
\* SDL_PauseAudio or SDL_CloseAudio for the device lock.
EmulatorProceeds == emulator.at # "running" ~> emulator.at = "running"

\* The callback, which holds the device lock, always returns.
CallbackReturns == callback # "idle" ~> callback = "idle"
=============================================================================
