---------------------------- MODULE FrameMailbox ----------------------------
(***************************************************************************)
(* What the frame queue promises: each output has a box for one frame.  A  *)
(* new frame replaces the one that was not shown, and the viewer takes     *)
(* frames of an output in the order they were drawn.                       *)
(***************************************************************************)
EXTENDS Naturals

CONSTANTS Outputs

VARIABLES
  drawn,    \* per output: the number of its newest frame
  pending,  \* per output: the frame in its box, 0 for none
  shown     \* per output: the last frame taken

boxes == <<drawn, pending, shown>>

MailboxInit ==
  /\ drawn = [o \in Outputs |-> 0]
  /\ pending = [o \in Outputs |-> 0]
  /\ shown = [o \in Outputs |-> 0]

Post(o) ==
  /\ drawn' = [drawn EXCEPT ![o] = @ + 1]
  /\ pending' = [pending EXCEPT ![o] = drawn[o] + 1]
  /\ UNCHANGED shown

Take(o) ==
  /\ pending[o] > shown[o]
  /\ shown' = [shown EXCEPT ![o] = pending[o]]
  /\ pending' = [pending EXCEPT ![o] = 0]
  /\ UNCHANGED drawn

MailboxNext == \E o \in Outputs : Post(o) \/ Take(o)

MailboxSpec == MailboxInit /\ [][MailboxNext]_boxes
=============================================================================
