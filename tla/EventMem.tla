------------------------------- MODULE EventMem -------------------------------
(***************************************************************************)
(* The event log between two threads: with threaded video the emulation    *)
(* thread logs what the VDP does into a buffer (event_log.c), a render     *)
(* thread decodes it (mem_reader_next_event) and draws (vdp.c).  A session *)
(* is one emulated system: init_vdp_context to vdp_free.                   *)
(*                                                                         *)
(* event_log_lock protects what lies below the published size; a step is   *)
(* what one thread does while it holds the lock, or between two of those.  *)
(* VRAM addresses are logged relative to the last one, as the code does.   *)
(***************************************************************************)
EXTENDS Integers, SequencesExt

CONSTANTS
  Addresses,    \* VRAM addresses the game writes
  DeltaLimit,   \* deltas below it fit an EVENT_VRAM_WORD_DELTA, 256
  MaxSessions,  \* bound: systems started one after the other
  MaxEvents,    \* bound: events of all sessions
  Exposed       \* the situations that may arise, of Situations

Situations ==
  { "stale_address",   \* a session's first write lies just behind the last
                       \* write of the session before
    "quick_restart" }  \* a session starts before the old thread has ended

Sessions == 1..MaxSessions

ASSUME MemAssumption ==
  /\ Addresses \subseteq Nat
  /\ DeltaLimit \in Nat \ {0}
  /\ MaxSessions \in Nat \ {0} /\ MaxEvents \in Nat
  /\ Exposed \subseteq Situations

VARIABLES
  session,            \* sessions started so far
  log,                \* history: every event of every session
  since,              \* history: the length of log when a session started
  decoded,            \* history: what each thread decoded
  buffer,             \* buffer.data[0..buffer.size), in events
  size,               \* mem_reader->buffer.size: what is published
  cur_pos,            \* mem_reader->buffer.cur_pos
  last_word_address,  \* the encoder's, static
  reader_address,     \* mem_reader->last_word_address
  mem_reader,         \* mem_reader # NULL
  mem_reader_quit,
  thread              \* per session: what its render thread is doing

historyVars == <<log, since, decoded>>
readerVars == <<size, cur_pos, reader_address, mem_reader, mem_reader_quit>>
vars == <<session, historyVars, buffer, readerVars, last_word_address, thread>>

\* Events without an address: ADJUST, which is not published, and the others.
Adjust == -1
Other == -2
Encodings == [kind : {"word", "delta", "adjust", "other"}, arg : Nat]

TypeOK ==
  /\ session \in 0..MaxSessions
  /\ log \in Seq(Addresses \cup {Adjust, Other})
  /\ since \in [Sessions -> Nat]
  /\ decoded \in [Sessions -> Seq(Int)]
  /\ buffer \in Seq(Encodings)
  /\ size \in 0..Len(buffer) /\ cur_pos \in 0..size
  /\ last_word_address \in Nat /\ reader_address \in Nat
  /\ mem_reader \in BOOLEAN /\ mem_reader_quit \in BOOLEAN
  /\ thread \in [Sessions -> {"none", "next", "waiting", "busy", "ended"}]

Init ==
  /\ session = 0
  /\ log = <<>>
  /\ since = [s \in Sessions |-> 0]
  /\ decoded = [s \in Sessions |-> <<>>]
  /\ buffer = <<>> /\ size = 0 /\ cur_pos = 0
  /\ last_word_address = 0 /\ reader_address = 0
  /\ mem_reader = FALSE /\ mem_reader_quit = TRUE
  /\ thread = [s \in Sessions |-> "none"]
-----------------------------------------------------------------------------
(* The emulation thread. *)

Running == mem_reader /\ ~mem_reader_quit
InSession == Running /\ Len(log) < MaxEvents

\* pthread_cond_signal(&event_cond)
Woken == [s \in Sessions |-> IF thread[s] = "waiting" THEN "next" ELSE thread[s]]

\* What has been decoded makes room at the front.
Compacted(b) ==
  /\ buffer' = SubSeq(b, cur_pos + 1, Len(b))
  /\ cur_pos' = 0

\* Mutant: what was published before stays the limit.
StaleSize(b) == size - cur_pos

PublishedSize(b) == Len(b) - cur_pos

Publish(b) ==
  /\ Compacted(b)
  /\ size' = PublishedSize(b)
  /\ thread' = Woken

\* Mutant: every address that is not far above the last one is a delta.
EncodedRelative(a) ==
  IF a - last_word_address < DeltaLimit
  THEN [kind |-> "delta", arg |-> (a - last_word_address) % DeltaLimit]
  ELSE [kind |-> "word", arg |-> a]

Encoded(a) ==
  IF a - last_word_address \in 0..(DeltaLimit - 1)
  THEN [kind |-> "delta", arg |-> a - last_word_address]
  ELSE [kind |-> "word", arg |-> a]

Without(kind) == [kind |-> kind, arg |-> 0]

\* Nothing of the session has told the reader an address yet.
FirstAddress == \A k \in (since[session] + 1)..Len(log) : log[k] \notin Addresses

EventVramWord(a) ==
  /\ InSession
  /\ FirstAddress /\ session > 1 /\ Encoded(a).kind = "delta"
       => "stale_address" \in Exposed
  /\ log' = Append(log, a)
  /\ Publish(Append(buffer, Encoded(a)))
  /\ last_word_address' = a
  /\ UNCHANGED <<session, since, decoded, reader_address, mem_reader, mem_reader_quit>>

\* event_cycle_adjust leaves the event in the buffer for the next to publish.
EventCycleAdjust ==
  /\ InSession
  /\ log' = Append(log, Adjust)
  /\ buffer' = Append(buffer, Without("adjust"))
  /\ UNCHANGED <<session, since, decoded, readerVars, last_word_address, thread>>

\* event_flush, event_soft_flush, and event_log of a VDP register.
EventPublished ==
  /\ InSession
  /\ log' = Append(log, Other)
  /\ Publish(Append(buffer, Without("other")))
  /\ UNCHANGED <<session, since, decoded, reader_address, mem_reader, mem_reader_quit,
                 last_word_address>>

\* event_log_mem and the thread that goes with it: a new buffer, a new reader,
\* but the encoder's last address stays.
Start ==
  /\ session < MaxSessions
  /\ mem_reader_quit
  /\ (\E s \in 1..session : thread[s] # "ended") => "quick_restart" \in Exposed
  /\ session' = session + 1
  /\ since' = [since EXCEPT ![session + 1] = Len(log)]
  /\ buffer' = <<>> /\ size' = 0 /\ cur_pos' = 0 /\ reader_address' = 0
  /\ mem_reader' = TRUE /\ mem_reader_quit' = FALSE
  /\ thread' = [thread EXCEPT ![session + 1] = "next"]
  /\ UNCHANGED <<log, decoded, last_word_address>>

\* event_log_mem_stop, called by vdp_free, which does not wait for the thread.
Stop ==
  /\ Running
  /\ mem_reader_quit' = TRUE
  /\ thread' = Woken
  /\ UNCHANGED <<session, historyVars, buffer, size, cur_pos, reader_address, mem_reader,
                 last_word_address>>
-----------------------------------------------------------------------------
(* A render thread. *)

\* Mutant: decoding a relative address does not move the reader's own.
DecodedInPlace(e) == reader_address

Decoded(e) ==
  CASE e.kind = "word"  -> e.arg
    [] e.kind = "delta" -> reader_address + e.arg
    [] OTHER            -> reader_address

\* Mutant: whoever sleeps is not interested in mem_reader_quit.
WaitsForData == size = cur_pos

\* reader_ensure_data
MustWait == ~mem_reader_quit /\ size = cur_pos

\* mem_reader_next_event, once it holds the lock.
NextEvent(t) ==
  /\ thread[t] = "next"
  /\ ~MustWait /\ ~mem_reader_quit
  /\ LET e == buffer[cur_pos + 1] IN
       /\ reader_address' = Decoded(e)
       /\ decoded' = [decoded EXCEPT ![t] =
            Append(@, CASE e.kind = "adjust" -> Adjust
                        [] e.kind = "other"  -> Other
                        [] OTHER             -> reader_address')]
  /\ cur_pos' = cur_pos + 1
  /\ thread' = [thread EXCEPT ![t] = "busy"]
  /\ UNCHANGED <<session, log, since, buffer, size, mem_reader, mem_reader_quit,
                 last_word_address>>

Wait(t) ==
  /\ thread[t] = "next"
  /\ MustWait
  /\ thread' = [thread EXCEPT ![t] = "waiting"]
  /\ UNCHANGED <<session, historyVars, buffer, readerVars, last_word_address>>

\* A condition variable may wake up without having been signalled.
SpuriousWakeup(t) ==
  /\ thread[t] = "waiting"
  /\ thread' = [thread EXCEPT ![t] = "next"]
  /\ UNCHANGED <<session, historyVars, buffer, readerVars, last_word_address>>

\* Events that were published but not decoded yet are not looked at.
EndOfFile(t) ==
  /\ thread[t] = "next"
  /\ ~MustWait /\ mem_reader_quit
  /\ mem_reader' = FALSE
  /\ thread' = [thread EXCEPT ![t] = "ended"]
  /\ UNCHANGED <<session, historyVars, buffer, size, cur_pos, reader_address,
                 mem_reader_quit, last_word_address>>

\* vdp_run_context and what the event does to the renderer's VDP.
Draw(t) ==
  /\ thread[t] = "busy"
  /\ thread' = [thread EXCEPT ![t] = "next"]
  /\ UNCHANGED <<session, historyVars, buffer, readerVars, last_word_address>>

RenderThread(t) == NextEvent(t) \/ Wait(t) \/ EndOfFile(t) \/ Draw(t)

Next ==
  \/ \E a \in Addresses : EventVramWord(a)
  \/ EventCycleAdjust
  \/ EventPublished
  \/ Start
  \/ Stop
  \/ \E t \in Sessions : RenderThread(t) \/ SpuriousWakeup(t)

\* The scheduler runs every render thread that can run.
Spec == Init /\ [][Next]_vars /\ \A t \in Sessions : WF_vars(RenderThread(t))
-----------------------------------------------------------------------------
(* Properties. *)

\* A render thread decodes the events of its session: every address as the
\* game wrote it, in order, none twice and none left out, while the buffer is
\* compacted under it.
DecodesWhatWasLogged ==
  \A s \in 1..session :
    IsPrefix(decoded[s], SubSeq(log, since[s] + 1, Len(log)))

\* Everything that has been published, a cycle adjustment with the event after
\* it, is decoded, unless the session is ended.
PublishedUpTo(n) == \E k \in n..Len(log) : log[k] # Adjust
PublishedIsDecoded ==
  \A s \in Sessions, n \in 1..MaxEvents :
    (session = s /\ PublishedUpTo(n))
      ~> (since[s] + Len(decoded[s]) >= n \/ session # s \/ mem_reader_quit)

\* A thread that has been told to end does.
ThreadEnds ==
  \A s \in Sessions : (session = s /\ mem_reader_quit) ~> thread[s] = "ended"

\* Render threads follow the stream of EventStream, each from its start.
Stream == INSTANCE EventStream WITH
  Followers <- Sessions,
  happened  <- Len(log),
  following <- {s \in Sessions : thread[s] \notin {"none", "ended"}},
  since     <- since,
  given     <- [s \in Sessions |->
                 [k \in DOMAIN decoded[s] |->
                   IF decoded[s][k] = log[since[s] + k] THEN since[s] + k ELSE 0]]
RenderThreadsFollow == Stream!StreamSpec
=============================================================================
