------------------------------- MODULE Control -------------------------------
(***************************************************************************)
(* The control server (control.c): one client over TCP steps, runs and     *)
(* pauses the emulated machine, sets the pad, saves and loads states.      *)
(*                                                                         *)
(* The server has no thread of its own: sync_components calls it at frame  *)
(* boundaries and at 68000 instruction boundaries, and while the machine   *)
(* is paused the emulation thread sits in control_pause_loop.  A reply     *)
(* does not name its request, so a client counts: the nth reply is the     *)
(* answer to its nth request.                                              *)
(***************************************************************************)
EXTENDS Integers, SequencesExt

CONSTANTS
  Pads,         \* what "pad" may ask for, sets of buttons
  StepCounts,   \* what "step" and "step_until" may ask for
  Elapsed,      \* frames between two frame boundaries: more than one after
                \* a long DMA
  RxSize,       \* requests that fill rx, 4096 bytes
  MaxRequests,  \* bound: requests of the client
  Exposed       \* the situations that may arise, of Situations

Situations ==
  { "long_instruction",   \* a frame boundary passes between the one the
                          \* machine is paused at and the end of the instruction
    "state_while_running",\* the client asks for a state without pausing first
    "rx_full",            \* the client fills rx between two frames
    "hang_up" }           \* the client closes its connection

ASSUME ControlAssumption ==
  /\ Pads # {}
  \* step_remaining and control_frame are machine integers
  /\ StepCounts # {} /\ StepCounts \subseteq Nat \ {0} /\ IsFiniteSet(StepCounts)
  /\ Elapsed # {} /\ Elapsed \subseteq Nat \ {0} /\ IsFiniteSet(Elapsed)
  /\ RxSize \in Nat \ {0} /\ MaxRequests \in Nat
  /\ Exposed \subseteq Situations

Released == CHOOSE p \in Pads : TRUE   \* no button

\* "inline" is every request that is answered on the spot and neither moves
\* the machine nor changes the server: ping, peek, screenshot, ...
\* "state" is save_state and load_state.
Commands ==
  [cmd : {"inline", "run", "pause", "state"}, arg : {0}]
    \cup [cmd : {"pad"}, arg : Pads]
    \cup [cmd : {"step", "step_until"}, arg : StepCounts]

VARIABLES
  requests,        \* history: what the client has sent
  replies,         \* history: [to: a request, ok: it was carried out,
                   \* frames: run since it was dispatched]
  due,             \* history: requests dispatched and not answered yet
  frames,          \* history: frames run since then, at most MaxFrames
  open,            \* the client has not hung up
  wire,            \* requests on their way, as indices of requests
  rx,              \* complete lines in rx
  at,              \* where the emulation thread is
  step_remaining, until_active, running,
  state_op,        \* state_op # STATE_NONE
  pad_desired, pad_applied

clientVars == <<requests, open>>
historyVars == <<replies, due, frames>>
serverVars == <<step_remaining, until_active, running, state_op, pad_desired>>
vars == <<clientVars, historyVars, wire, rx, at, serverVars, pad_applied>>

Ids == 1..MaxRequests
MaxFrames == Max(StepCounts) + 2 * Max(Elapsed)   \* bound: frames counted

Places ==
  { "booting",     \* the first frame, before any boundary
    "executing",   \* the machine runs
    "synced",      \* in control_instruction_boundary, a state is due
    "pausing",     \* in the pause loop of a frame boundary or of the poll
    "held",        \* in the pause loop of control_instruction_boundary
    "polling",     \* dispatching in control_poll
    "exited" }

TypeOK ==
  /\ requests \in Seq(Commands) /\ Len(requests) <= MaxRequests
  /\ replies \in Seq([to : Ids, ok : BOOLEAN, frames : 0..MaxFrames])
  /\ due \subseteq 1..Len(requests)
  /\ frames \in [Ids -> 0..MaxFrames]
  /\ wire \in Seq(Ids) /\ rx \in Seq(Ids) /\ Len(rx) <= RxSize
  /\ at \in Places
  /\ step_remaining \in Nat
  /\ open \in BOOLEAN /\ until_active \in BOOLEAN /\ running \in BOOLEAN
  /\ state_op \in BOOLEAN
  /\ pad_desired \in Pads /\ pad_applied \in Pads

Init ==
  /\ requests = <<>> /\ replies = <<>> /\ due = {} /\ frames = [id \in Ids |-> 0]
  /\ open = TRUE /\ wire = <<>> /\ rx = <<>> /\ at = "booting"
  /\ step_remaining = 0 /\ until_active = FALSE /\ running = FALSE
  /\ state_op = FALSE
  /\ pad_desired = Released /\ pad_applied = Released
-----------------------------------------------------------------------------
(* The client. *)

\* The last of the requests "run" and "pause" is a "run".
Runs == \E k \in DOMAIN requests :
          /\ requests[k].cmd = "run"
          /\ \A j \in (k + 1)..Len(requests) : requests[j].cmd # "pause"

Send(r) ==
  /\ open
  /\ Len(requests) < MaxRequests
  /\ r.cmd = "state" /\ Runs => "state_while_running" \in Exposed
  /\ Len(rx) + Len(wire) + 1 >= RxSize => "rx_full" \in Exposed
  /\ requests' = Append(requests, r)
  /\ wire' = Append(wire, Len(requests) + 1)
  /\ UNCHANGED <<historyVars, open, rx, at, serverVars, pad_applied>>

HangUp ==
  /\ open /\ "hang_up" \in Exposed
  /\ open' = FALSE
  /\ UNCHANGED <<requests, historyVars, wire, rx, at, serverVars, pad_applied>>
-----------------------------------------------------------------------------
(* control_dispatch *)

Reply(id, ok) ==
  /\ replies' = Append(replies, [to |-> id, ok |-> ok, frames |-> frames'[id]])
  /\ due' = due \ {id}

\* The answer comes from a boundary.
Postpone(id) ==
  /\ due' = due \cup {id}
  /\ UNCHANGED replies

Steps(r) == r.cmd \in {"step", "step_until"}

\* Mutant: a running machine may be told to step.
MayStepAnyway == TRUE

MayStep == ~running

\* control_dispatch returns 1: leave the pause loop.
Advances(r) ==
  \/ r.cmd = "run"
  \/ Steps(r) /\ MayStep
  \/ r.cmd = "state" /\ ~state_op

DispatchStep(id, r) ==
  IF MayStep
  THEN /\ step_remaining' = r.arg
       /\ until_active' = (until_active \/ r.cmd = "step_until")
       /\ Postpone(id)
       /\ UNCHANGED <<running, state_op, pad_desired>>
  ELSE /\ Reply(id, FALSE)
       /\ UNCHANGED serverVars

DispatchState(id) ==
  IF state_op
  THEN Reply(id, FALSE) /\ UNCHANGED serverVars
  ELSE /\ state_op' = TRUE
       /\ Postpone(id)
       /\ UNCHANGED <<step_remaining, until_active, running, pad_desired>>

Dispatch(id) ==
  LET r == requests[id] IN
  /\ UNCHANGED frames
  /\ \/ r.cmd = "inline" /\ Reply(id, TRUE) /\ UNCHANGED serverVars
     \/ /\ r.cmd = "pad"
        /\ pad_desired' = r.arg
        /\ Reply(id, TRUE)
        /\ UNCHANGED <<step_remaining, until_active, running, state_op>>
     \/ /\ r.cmd \in {"run", "pause"}
        /\ running' = (r.cmd = "run")
        /\ Reply(id, TRUE)
        /\ UNCHANGED <<step_remaining, until_active, state_op, pad_desired>>
     \/ Steps(r) /\ DispatchStep(id, r)
     \/ r.cmd = "state" /\ DispatchState(id)
-----------------------------------------------------------------------------
(* control_pause_loop *)

InPauseLoop == at \in {"pausing", "held"}

\* recv in control_read_line: blocks until there is something.
Recv ==
  /\ InPauseLoop /\ rx = <<>> /\ wire # <<>>
  /\ LET n == Min({Len(wire), RxSize}) IN
       /\ rx' = SubSeq(wire, 1, n)
       /\ wire' = SubSeq(wire, n + 1, Len(wire))
  /\ UNCHANGED <<clientVars, historyVars, at, serverVars, pad_applied>>

\* control_instruction_boundary looks for another state to save or load
\* before it lets the machine go.
PauseLine ==
  /\ InPauseLoop /\ rx # <<>>
  /\ Dispatch(Head(rx))
  /\ rx' = Tail(rx)
  /\ at' = CASE ~Advances(requests[Head(rx)]) -> at
             [] at = "held" /\ state_op'      -> "synced"
             [] OTHER                         -> "executing"
  /\ UNCHANGED <<clientVars, wire, pad_applied>>

Disconnected ==
  /\ InPauseLoop /\ rx = <<>> /\ wire = <<>> /\ ~open
  /\ at' = "exited"
  /\ UNCHANGED <<clientVars, historyVars, wire, rx, serverVars, pad_applied>>
-----------------------------------------------------------------------------
(* control_poll *)

\* Mutant: recv's 0 for "the peer is gone" is taken for "nothing there".
NeverGone == FALSE

PeerGone == ~open

\* What has arrived is read until there is nothing more; an rx that is full
\* by then is thrown away, and so a peer that is gone is not noticed.
Poll ==
  LET space == RxSize - Len(rx)
      full  == Len(wire) >= space
      n     == IF full THEN space ELSE Len(wire)
  IN /\ rx' = IF full THEN <<>> ELSE rx \o wire
     /\ wire' = SubSeq(wire, n + 1, Len(wire))
     /\ at' = IF ~full /\ PeerGone THEN "exited" ELSE "polling"

PollLine ==
  /\ at = "polling" /\ rx # <<>>
  /\ Dispatch(Head(rx))
  /\ rx' = Tail(rx)
  /\ at' = IF requests[Head(rx)].cmd = "pause" THEN "pausing" ELSE "polling"
  /\ UNCHANGED <<clientVars, wire, pad_applied>>

PollDone ==
  /\ at = "polling" /\ rx = <<>>
  /\ at' = "executing"
  /\ UNCHANGED <<clientVars, historyVars, wire, rx, serverVars, pad_applied>>
-----------------------------------------------------------------------------
(* The boundaries, called by sync_components. *)

\* Mutant: the buttons are not touched while a step is in progress.
PadOutsideSteps == IF step_remaining > 0 THEN pad_applied ELSE pad_desired

\* control_apply_pad
AppliedPad == pad_desired

CountFrames(e) ==
  frames' = [id \in Ids |->
              IF id \in due THEN Min({frames[id] + e, MaxFrames}) ELSE frames[id]]

\* Mutant: every boundary counts as one frame.
OneLeft(e) == step_remaining - 1

Left(e) == step_remaining - e

\* Mutant: a step ends when the count is met exactly.
StepEndsExactly(e, matched) == matched \/ Left(e) = 0

StepEnds(e, matched) == matched \/ Left(e) <= 0

Cleared(e) == 0

DueStep == CHOOSE id \in due : Steps(requests[id])
DueState == CHOOSE id \in due : requests[id].cmd = "state"

\* The condition of step_until is what the game's RAM makes of it.
StepBoundary(e, matched) ==
  /\ matched => until_active
  /\ IF StepEnds(e, matched)
     THEN /\ step_remaining' = Cleared(e)
          /\ until_active' = FALSE
          /\ Reply(DueStep, TRUE)
          /\ at' = "pausing"
     ELSE /\ step_remaining' = Left(e)
          /\ at' = "executing"
          /\ UNCHANGED <<until_active, replies, due>>
  /\ UNCHANGED <<wire, rx, running, state_op, pad_desired>>

Idle == UNCHANGED <<replies, due, serverVars>>

FrameBoundary(e) ==
  /\ at \in {"booting", "executing"}
  /\ state_op => "long_instruction" \in Exposed
  /\ CountFrames(e)
  /\ pad_applied' = AppliedPad
  /\ \/ state_op /\ at' = "executing" /\ Idle /\ UNCHANGED <<wire, rx>>
     \/ ~state_op /\ step_remaining > 0 /\ \E matched \in BOOLEAN : StepBoundary(e, matched)
     \/ ~state_op /\ step_remaining <= 0 /\ running /\ Poll /\ Idle
     \/ /\ ~state_op /\ step_remaining <= 0 /\ ~running
        /\ at' = "pausing" /\ Idle /\ UNCHANGED <<wire, rx>>
  /\ UNCHANGED clientVars

\* Mutant: the machine goes on after a state.
GoesOnAnyway == TRUE

GoesOn == running \/ step_remaining # 0

\* control_instruction_boundary, do_state_op
InstructionBoundary ==
  /\ at \in {"executing", "synced"}
  /\ state_op
  /\ state_op' = FALSE
  /\ UNCHANGED frames
  /\ \E ok \in BOOLEAN : Reply(DueState, ok)
  /\ at' = IF GoesOn THEN "executing" ELSE "held"
  /\ UNCHANGED <<clientVars, wire, rx, step_remaining, until_active, running,
                 pad_desired, pad_applied>>

Serve == Recv \/ PauseLine \/ Disconnected \/ PollLine \/ PollDone

Next ==
  \/ \E r \in Commands : Send(r)
  \/ HangUp
  \/ Serve
  \/ \E e \in Elapsed : FrameBoundary(e)
  \/ InstructionBoundary

\* The emulation thread runs; frames end, and so do instructions.
Spec ==
  /\ Init /\ [][Next]_vars
  /\ WF_vars(Serve)
  /\ WF_vars(\E e \in Elapsed : FrameBoundary(e))
  /\ WF_vars(InstructionBoundary)
-----------------------------------------------------------------------------
(* Properties. *)

\* A reply does not name its request, so they must come in the order of the
\* requests, one for each, whether they come from control_dispatch or from one
\* of the boundaries.
AnswersInOrder == \A k \in DOMAIN replies : replies[k].to = k

\* Between two requests a paused machine stands still: when everything the
\* client has asked for is answered and the last of "run" and "pause" was not
\* "run", the emulation thread is in a pause loop.
HeldStill ==
  Len(replies) = Len(requests) /\ ~Runs
    => at \in {"booting", "pausing", "held", "exited"}

\* A step that is answered has run as many frames as asked for, and over by less
\* than what passes between two boundaries; step_until has run to a boundary.
AnsweredAsAsked ==
  \A k \in DOMAIN replies :
    LET r == requests[replies[k].to] IN
    Steps(r) /\ replies[k].ok =>
      /\ replies[k].frames < r.arg + Max(Elapsed)
      /\ replies[k].frames >= IF r.cmd = "step" THEN r.arg ELSE Min(Elapsed)

\* A step that is not answered has not run them yet.
NoneOverdue == \A id \in due : Steps(requests[id]) => frames[id] < requests[id].arg

\* A step ends at the first boundary by which as many frames as asked for have run,
\* and step_until at that boundary or an earlier one, whatever control_frame skips.
StepsAsAsked == AnsweredAsAsked /\ NoneOverdue

\* From its first boundary on, a step runs with the buttons of the last "pad"
\* the client sent before it.
LastPad(id) ==
  LET pads == {k \in 1..id : requests[k].cmd = "pad"} IN
  IF pads = {} THEN Released ELSE requests[Max(pads)].arg
StepSeesPad ==
  \A id \in due : Steps(requests[id]) /\ frames[id] > 0 => pad_applied = LastPad(id)

\* Every request is answered while the client keeps its connection.
EveryRequestAnswered ==
  \A n \in Ids : Len(requests) >= n ~> (Len(replies) >= n \/ ~open)

\* An emulator whose client has hung up does not go on running.
ServerEnds == ~open ~> at = "exited"
=============================================================================
