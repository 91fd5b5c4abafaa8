----------------------------- MODULE EventStream -----------------------------
(***************************************************************************)
(* What the event log promises whoever follows it, without buffers,        *)
(* compression, sockets or threads: a follower gets the state of the       *)
(* machine at one point of its run and from there on every event, once and *)
(* in order, for as long as it stays.  EventRemotes.tla implements this    *)
(* for TCP clients, EventMem.tla for the render thread.                    *)
(***************************************************************************)
EXTENDS Naturals, Sequences

CONSTANTS Followers

VARIABLES happened,   \* how many events the machine has produced
          following,  \* who follows the stream
          since,      \* the events the state a follower was given includes
          given       \* the events each follower was given after it

streamVars == <<happened, following, since, given>>

StreamInit ==
  /\ happened = 0
  /\ following = {}
  /\ since = [f \in Followers |-> 0]
  /\ given = [f \in Followers |-> <<>>]

\* Whoever joins starts from the machine as it is.
Join(fs) ==
  /\ following' = following \cup fs
  /\ since' = [f \in Followers |-> IF f \in fs THEN happened ELSE since[f]]
  /\ UNCHANGED <<happened, given>>

\* Up to now, the next n events for f.
Missing(f, now) == now - since[f] - Len(given[f])
NextEvents(f, n) == [k \in 1..n |-> since[f] + Len(given[f]) + k]

\* An event may happen; followers are given their next events, not all of
\* them as fast as the others; some leave.
Advance(now, left) ==
  /\ happened' = now
  /\ given' = [f \in Followers |-> given'[f]]
  /\ \A f \in following : \E n \in 0..Missing(f, now) :
       given'[f] = given[f] \o NextEvents(f, n)
  /\ \A f \in Followers \ following : given'[f] = given[f]
  /\ following' = following \ left
  /\ UNCHANGED since

StreamNext ==
  \/ \E fs \in SUBSET (Followers \ following) : Join(fs)
  \/ \E now \in {happened, happened + 1}, left \in SUBSET following :
       Advance(now, left)

StreamSpec == StreamInit /\ [][StreamNext]_streamVars
=============================================================================
