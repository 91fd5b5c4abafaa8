---------------------------- MODULE EventRemotes ----------------------------
(***************************************************************************)
(* The event log served to remotes over TCP: event_log.c with the one-slot *)
(* request header.save_state through which sync_components is asked for    *)
(* the state a new remote starts from.                                     *)
(*                                                                         *)
(* Everything here runs on the emulation thread; what interleaves is the   *)
(* clients, who connect and hang up whenever they like.  All remotes share *)
(* one deflate stream and one compressed buffer.                           *)
(*                                                                         *)
(* An event is its number in the machine's run.  deflate is modelled by    *)
(* what it may hold back: it takes all of its input and puts out any       *)
(* prefix of what it holds, or everything when it is flushed.              *)
(***************************************************************************)
EXTENDS Integers, SequencesExt

CONSTANTS
  Clients,       \* connections; a client that reconnects is another one
  Players,       \* pads that can be handed out, {2..8} in the code
  NoPlayer,      \* 0xFF
  SendThreshold, \* compressed size above which event_log sends at once
  MaxEvents,     \* bound: events the machine produces
  Exposed        \* the situations that may arise, of Situations

Situations ==
  { "join_fails",   \* a client hangs up before it got its first state
    "save_clash" }  \* the user asks for a save state while a client joins

ASSUME RemotesAssumption ==
  /\ Players \subseteq Nat /\ NoPlayer \notin Players
  /\ IsFiniteSet(Clients) /\ IsFiniteSet(Players)
  /\ SendThreshold \in Nat /\ MaxEvents \in Nat
  /\ Exposed \subseteq Situations

VARIABLES
  machine,           \* events produced so far: the state of VDP, PSG and YM
  buffer,            \* serialized events deflate has not seen
  held,              \* events inside deflate
  compressed,        \* [compressed, output_stream.next_out)
  fully_active,
  wrote_since_last_flush,
  phase,             \* per client: away, backlog, joining, streaming, closed
  gone,              \* clients that have hung up
  send_progress,     \* remotes[i].send_progress - compressed
  player,            \* remotes[i].players
  available_players,
  save_state,        \* header.save_state: whose request is pending
  base,              \* history: the machine in the state a client was sent
  received           \* history: the events written to a client's socket

streamVars == <<buffer, held, compressed, fully_active>>
remoteVars == <<phase, send_progress, player, available_players>>
vars == <<machine, streamVars, wrote_since_last_flush, remoteVars, gone,
          save_state, base, received>>

In(p) == {c \in Clients : phase[c] = p}
Remotes == In("joining") \cup In("streaming")

TypeOK ==
  /\ machine \in Nat
  /\ buffer \in Seq(Nat) /\ held \in Seq(Nat) /\ compressed \in Seq(Nat)
  /\ fully_active \in BOOLEAN /\ wrote_since_last_flush \in BOOLEAN
  /\ phase \in [Clients -> {"away", "backlog", "joining", "streaming", "closed"}]
  /\ gone \subseteq Clients
  /\ send_progress \in [Clients -> 0..Len(compressed)]
  /\ player \in [Clients -> Players \cup {NoPlayer}]
  /\ available_players \subseteq Players
  /\ save_state \in {"none", "eventlog", "user"}
  /\ base \in [Clients -> Nat]
  /\ received \in [Clients -> Seq(Nat)]

Init ==
  /\ machine = 0
  /\ buffer = <<>> /\ held = <<>> /\ compressed = <<>>
  /\ fully_active = FALSE /\ wrote_since_last_flush = FALSE
  /\ phase = [c \in Clients |-> "away"]
  /\ gone = {}
  /\ send_progress = [c \in Clients |-> 0]
  /\ player = [c \in Clients |-> NoPlayer]
  /\ available_players = Players
  /\ save_state = "none"
  /\ base = [c \in Clients |-> 0]
  /\ received = [c \in Clients |-> <<>>]
-----------------------------------------------------------------------------
(* flush_socket. *)

\* accept returns one connection, or none if there is none; a remote too many
\* is closed again.
Accepted ==
  IF In("backlog") = {} THEN {{}} ELSE {{c} : c \in In("backlog")}
HasRoom == Cardinality(Remotes) < Cardinality(Players)

NextAvailablePlayer ==
  IF available_players = {} THEN NoPlayer ELSE Min(available_players)

\* Something is sent to remote c: deflate has put out more than it had, or
\* there are events in the buffer it has not read.
IsSent(c, out, more) == more \/ send_progress[c] < Len(out)

\* Remotes a send can fail on: it is only called when there is something to
\* send, and fails once the client has hung up.
MayFail(out, more) == {c \in In("streaming") \cap gone : IsSent(c, out, more)}

\* Mutant: a remote that would block is left behind for the next flush.
GivenUpEarly(c, out) == SubSeq(out, send_progress[c] + 1, Len(out) - 1)

\* The loop around send ends when all is sent or the connection is lost.
Sent(c, out) == SubSeq(out, send_progress[c] + 1, Len(out))

\* Mutant: the pad of a lost remote is not handed out again.
NotReturned(lost) == {}

Returned(lost) == {player[c] : c \in lost} \ {NoPlayer}

\* Mutant: nobody notices that the last remote has left.
NeverDeserted(lost, left) == FALSE

\* The last remote disconnected: buffers and deflate are reset.
Deserted(lost, left) == lost # {} /\ left = {}

\* Mutant: accept does not ask for the state the remote waits for.
NoRequest(new) == save_state

Request(new) == IF new # {} THEN "eventlog" ELSE save_state

\* out and inside: the compressed buffer and what deflate holds at the call;
\* more: out ends in bytes of no whole event, which no remote has been sent.
FlushSocket(out, inside, more) ==
  \E arrived \in Accepted, lost \in SUBSET MayFail(out, more) :
    LET new     == IF HasRoom THEN arrived ELSE {}
        served  == In("streaming") \ lost
        left    == (Remotes \cup new) \ lost
        given   == IF new = {} THEN {} ELSE {NextAvailablePlayer} \ {NoPlayer}
        reset   == Deserted(lost, left)
        \* min_progress, which only a send raises, has reached next_out
        rewound == reset \/ \E c \in served : IsSent(c, out, more)
    IN
    /\ phase' = [c \in Clients |->
                   CASE c \in new -> "joining"
                     [] c \in (arrived \ new) \cup lost -> "closed"
                     [] OTHER -> phase[c]]
    /\ player' = [c \in Clients |->
                    IF c \in new THEN NextAvailablePlayer ELSE player[c]]
    /\ available_players' = (available_players \ given) \cup Returned(lost)
    /\ save_state' = Request(new)
    /\ received' = [c \in Clients |->
                      IF c \in served THEN received[c] \o Sent(c, out) ELSE received[c]]
    /\ held' = IF reset THEN <<>> ELSE inside
    /\ fully_active' = (fully_active /\ ~reset)
    /\ compressed' = IF rewound THEN <<>> ELSE out
    /\ send_progress' = [c \in Clients |->
                           IF c \in served /\ ~rewound THEN Len(out) ELSE 0]
-----------------------------------------------------------------------------
(* The machine. *)

\* event_cycle_adjust, event_log: without a remote that has its state, an
\* event leaves no trace.
Unlogged ==
  /\ ~fully_active
  /\ machine < MaxEvents
  /\ machine' = machine + 1
  /\ UNCHANGED <<streamVars, wrote_since_last_flush, remoteVars, gone, save_state,
                 base, received>>

EventCycleAdjust ==
  /\ fully_active
  /\ machine < MaxEvents
  /\ machine' = machine + 1
  /\ buffer' = Append(buffer, machine + 1)
  /\ UNCHANGED <<held, compressed, fully_active, wrote_since_last_flush, remoteVars,
                 gone, save_state, base, received>>

EventLog ==
  /\ fully_active
  /\ machine < MaxEvents
  /\ machine' = machine + 1
  /\ buffer' = <<>>
  /\ LET taken == held \o Append(buffer, machine + 1) IN
     \E n \in 0..Len(taken), more \in BOOLEAN :
       LET out    == compressed \o SubSeq(taken, 1, n)
           inside == SubSeq(taken, n + 1, Len(taken))
       IN IF Len(out) > SendThreshold
          THEN /\ FlushSocket(out, inside, more)
               /\ wrote_since_last_flush' = TRUE
          ELSE /\ compressed' = out
               /\ held' = inside
               /\ UNCHANGED <<fully_active, wrote_since_last_flush, remoteVars,
                              save_state, received>>
  /\ UNCHANGED <<gone, base>>

\* deflate_flush(0)
SyncFlushed == compressed \o held \o buffer

\* event_flush at the end of every frame, with or without remotes.
EventFlush ==
  /\ buffer' = <<>>
  /\ FlushSocket(SyncFlushed, <<>>, TRUE)
  /\ wrote_since_last_flush' = FALSE
  /\ UNCHANGED <<machine, gone, base>>

\* event_soft_flush, between frames.
EventSoftFlush ==
  /\ fully_active /\ ~wrote_since_last_flush
  /\ buffer' = <<>>
  /\ FlushSocket(SyncFlushed, <<>>, TRUE)
  /\ UNCHANGED <<machine, wrote_since_last_flush, gone, base>>
-----------------------------------------------------------------------------
(* The state a new remote starts from. *)

\* Mutant: the running stream is not finished before the state.
Unfinished == compressed

\* deflate_flush(1): what old remotes still miss ends up before the state.
Finished == IF fully_active THEN SyncFlushed ELSE compressed

\* sync_components serializes the system for the eventlog slot, event_state
\* sends it to every remote without one and drops those it cannot send to.
EventState ==
  /\ save_state = "eventlog"
  /\ save_state' = "none"
  /\ \E failed \in SUBSET (In("joining") \cap gone) :
       LET joined == In("joining") \ failed IN
       /\ failed # {} => "join_fails" \in Exposed   \* situation
       /\ phase' = [c \in Clients |-> CASE c \in failed -> "closed"
                                        [] c \in joined -> "streaming"
                                        [] OTHER -> phase[c]]
       /\ base' = [c \in Clients |-> IF c \in joined THEN machine ELSE base[c]]
       /\ fully_active' = (fully_active \/ joined # {})
       \* failed may have been told how the system starts before they failed
       /\ \E started \in {joined, joined \cup failed} :
            IF started = {}
            THEN UNCHANGED <<buffer, held, compressed, send_progress>>
            ELSE /\ compressed' = Finished
                 /\ held' = <<>> /\ buffer' = <<>>
                 /\ send_progress' = [c \in Clients |->
                      IF c \in joined THEN Len(Finished) ELSE send_progress[c]]
  /\ UNCHANGED <<machine, wrote_since_last_flush, player, available_players, gone,
                 received>>

\* The same slot carries the user's own save requests.
UserSave ==
  /\ save_state = "none" \/ "save_clash" \in Exposed
  /\ save_state' = "user"
  /\ UNCHANGED <<machine, streamVars, wrote_since_last_flush, remoteVars, gone, base,
                 received>>

UserSaveDone ==
  /\ save_state = "user"
  /\ save_state' = "none"
  /\ UNCHANGED <<machine, streamVars, wrote_since_last_flush, remoteVars, gone, base,
                 received>>
-----------------------------------------------------------------------------
(* The clients. *)

Connect(c) ==
  /\ phase[c] = "away"
  /\ phase' = [phase EXCEPT ![c] = "backlog"]
  /\ UNCHANGED <<machine, streamVars, wrote_since_last_flush, send_progress, player,
                 available_players, gone, save_state, base, received>>

HangUp(c) ==
  /\ phase[c] \in {"backlog", "joining", "streaming"}
  /\ gone' = gone \cup {c}
  /\ UNCHANGED <<machine, streamVars, wrote_since_last_flush, remoteVars, save_state,
                 base, received>>

Sync == EventState \/ UserSaveDone

Next ==
  \/ Unlogged
  \/ EventCycleAdjust
  \/ EventLog
  \/ EventFlush
  \/ EventSoftFlush
  \/ Sync
  \/ UserSave
  \/ \E c \in Clients : Connect(c) \/ HangUp(c)

\* Frames end and sync_components runs whatever the game and the clients do.
Spec == Init /\ [][Next]_vars /\ WF_vars(EventFlush) /\ WF_vars(Sync)
-----------------------------------------------------------------------------
(* Properties. *)

\* What a remote was sent, what still lies in the compressed buffer beyond its
\* send_progress, in deflate and in the buffer is every event since the state
\* it started from, once and in order: across joins in mid-stream, partial
\* output, resets of the shared buffer and other remotes leaving.
StreamComplete ==
  \A c \in In("streaming") :
    received[c] \o SubSeq(compressed, send_progress[c] + 1, Len(compressed)) \o held \o buffer
      = [k \in 1..(machine - base[c]) |-> base[c] + k]

\* A pad belongs to one remote, or can be handed out: none is lost.
PadsConserved ==
  /\ \A c \in Remotes : player[c] \notin available_players
  /\ \A c, d \in Remotes : player[c] = player[d] /\ player[c] # NoPlayer => c = d
  /\ Players = available_players \cup ({player[c] : c \in Remotes} \ {NoPlayer})

\* Events are only logged while there is somebody to send them to: otherwise
\* the compressed buffer, which only a send empties, would fill up.
ActiveHasAudience == fully_active => Remotes # {}

\* Whoever is accepted gets a state to start from, or is closed.
JoinServed ==
  \A c \in Clients : phase[c] = "joining" ~> phase[c] \in {"streaming", "closed"}

\* The remotes follow the stream of EventStream.
Stream == INSTANCE EventStream WITH
  Followers <- Clients,
  happened  <- machine,
  following <- In("streaming"),
  since     <- base,
  given     <- received
RemotesFollow == Stream!StreamSpec
=============================================================================
