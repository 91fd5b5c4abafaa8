------------------------------ MODULE InputTape ------------------------------
(***************************************************************************)
(* What a gameplay recorder promises its user, without buffers, files or   *)
(* save states.  A recording is a tape of one input per frame that can     *)
(* only grow at its end or be rewound to one of its own prefixes, and the  *)
(* tape goes on the shelf, whole, when the recording stops.  Movie.tla     *)
(* implements this with a flush buffer, a file and SECTION_MOVIE.          *)
(***************************************************************************)
EXTENDS Naturals, Sequences

CONSTANTS Inputs,   \* what one frame can hold: the two pads' buttons
          Files,    \* the names a tape can be shelved under
          NoFile    \* no recording is running

VARIABLES target,   \* the name the running recording will be shelved under
          tape,     \* the inputs of the running recording
          shelf     \* what each name plays back

tapeVars == <<target, tape, shelf>>

TapeInit ==
  /\ target = NoFile
  /\ tape = <<>>
  /\ shelf = [f \in Files |-> <<>>]

Shelved == IF target = NoFile THEN shelf ELSE [shelf EXCEPT ![target] = tape]

\* A new recording takes over the name, and shelves a running one first.
Start(f) ==
  /\ target' = f
  /\ tape' = <<>>
  /\ shelf' = [Shelved EXCEPT ![f] = <<>>]

Extend(i) ==
  /\ target # NoFile
  /\ tape' = Append(tape, i)
  /\ UNCHANGED <<target, shelf>>

\* Loading a state rewinds the recording: what was undone is gone.
Rewind(n) ==
  /\ target # NoFile
  /\ tape' = SubSeq(tape, 1, n)
  /\ UNCHANGED <<target, shelf>>

Stop ==
  /\ target # NoFile
  /\ shelf' = Shelved
  /\ target' = NoFile
  /\ tape' = <<>>

TapeNext ==
  \/ \E f \in Files : Start(f)
  \/ \E i \in Inputs : Extend(i)
  \/ \E n \in 0..Len(tape) : Rewind(n)
  \/ Stop

TapeSpec == TapeInit /\ [][TapeNext]_tapeVars
=============================================================================
