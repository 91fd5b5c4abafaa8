--------------------------- MODULE ControlProofs ---------------------------
(***************************************************************************)
(* What the control server promises its client, for any number of          *)
(* requests, any step counts, any delay between two frame boundaries and   *)
(* any rx: answers come in the order of the requests (AnswersInOrder), a   *)
(* machine that is not told to run is held (HeldStill), steps take as long *)
(* as asked for (StepsAsAsked) with the buttons set before them            *)
(* (StepSeesPad).  All of it rests on what the server holds at most: one   *)
(* request whose answer is due, and the rest in rx and on the wire.        *)
(***************************************************************************)
EXTENDS Control, SequencesExt, SequenceTheorems, FiniteSetTheorems, WellFoundedInduction, TLAPS

-----------------------------------------------------------------------------
(* Sets of numbers, and sequences.                                             *)

LEMMA LessOnNaturals ==
  \A x, y \in Nat : <<x, y>> \in OpToRel(<, Nat) <=> x < y
<1>1. OpToRel(<, Nat) = {p \in Nat \X Nat : p[1] < p[2]}
  BY DEF OpToRel
<1> QED BY <1>1

\* A set of naturals has a least element, and Min of FiniteSetsExt picks it.
LEMMA MinOfNaturals ==
  ASSUME NEW S \in SUBSET Nat, S # {}
  PROVE  Min(S) \in S /\ \A x \in S : Min(S) <= x
<1> DEFINE R == OpToRel(<, Nat)
<1>1. \A x, y \in Nat : <<x, y>> \in R <=> x < y
  BY LessOnNaturals
<1>2. IsWellFoundedOn(R, Nat)
  BY NatLessThanWellFounded
<1> HIDE DEF R
<1>3. PICK x \in S : \A y \in S : ~(<<y, x>> \in R)
  BY <1>2, WFMin
<1>4. \A y \in S : ~(y < x)
  BY <1>1, <1>3, Zenon
<1>5. \A y \in S : x <= y
  BY ONLY <1>4, S \subseteq Nat, x \in S
<1>6. \E z \in S : \A y \in S : z <= y
  BY <1>5
<1> QED BY <1>6 DEF Min

\* A set of naturals with a bound has a greatest element, and Max picks it: the
\* one whose distance to the bound is least.
LEMMA MaxOfNaturals ==
  ASSUME NEW S \in SUBSET Nat, S # {}, NEW bound \in Nat, \A x \in S : x <= bound
  PROVE  Max(S) \in S /\ \A x \in S : x <= Max(S)
<1> DEFINE D == {bound - x : x \in S}
<1>1. D \in SUBSET Nat /\ D # {}
  <2>1. \A x \in S : bound - x \in Nat
    OBVIOUS
  <2> QED BY <2>1
<1> HIDE DEF D
<1>2. Min(D) \in D /\ \A d \in D : Min(D) <= d
  BY <1>1, MinOfNaturals
<1>3. PICK x \in S : Min(D) = bound - x
  BY <1>2 DEF D
<1>4. \A y \in S : bound - x <= bound - y
  BY <1>2, <1>3 DEF D
<1>5. \A y \in S : x >= y
  BY <1>4
<1>6. \E z \in S : \A y \in S : z >= y
  BY <1>5
<1> QED BY <1>6 DEF Max

\* A finite set of naturals has a greatest element: else, of its subsets without
\* one, take one with as few elements as possible, and remove an element.
LEMMA FiniteHasGreatest ==
  ASSUME NEW S \in SUBSET Nat, IsFiniteSet(S), S # {}
  PROVE  \E m \in S : \A x \in S : x <= m
<1> DEFINE Greatest(T) == \E m \in T : \A x \in T : x <= m
           Bad   == {T \in SUBSET S : T # {} /\ ~Greatest(T)}
           Cards == {Cardinality(T) : T \in Bad}
<1> SUFFICES ASSUME Bad # {} PROVE FALSE
  OBVIOUS
<1>1. \A T \in SUBSET S : IsFiniteSet(T) /\ Cardinality(T) \in Nat
  BY FS_Subset, FS_CardinalityType
<1>2. Cards \in SUBSET Nat /\ Cards # {}
  BY <1>1
<1> HIDE DEF Cards
<1>3. Min(Cards) \in Cards /\ \A n \in Cards : Min(Cards) <= n
  BY <1>2, MinOfNaturals
<1>4. PICK T \in Bad : \A U \in Bad : Cardinality(T) <= Cardinality(U)
  BY <1>3 DEF Cards
<1>5. PICK x \in T : x \in Nat
  BY <1>4
<1> DEFINE U == T \ {x}
<1>6. U \in SUBSET S /\ Cardinality(U) = Cardinality(T) - 1 /\ Cardinality(T) \in Nat
  BY <1>1, <1>4, <1>5, FS_RemoveElement
<1>7. U \notin Bad
  <2>1. ~(Cardinality(T) <= Cardinality(U))
    BY <1>6
  <2> HIDE DEF U, Bad
  <2> QED BY <1>4, <2>1
<1>8. CASE U = {}
  <2>1. \A y \in T : y <= x
    BY <1>5, <1>8
  <2> QED BY <1>4, <1>5, <2>1
<1>9. CASE U # {}
  <2>1. PICK m \in U : \A y \in U : y <= m
    BY <1>6, <1>7, <1>9
  <2>2. m \in Nat /\ m \in T
    BY <1>6, <2>1
  <2>3. CASE x <= m
    <3>1. \A y \in T : y <= m
      BY <2>1, <2>3
    <3> QED BY <1>4, <2>2, <3>1
  <2>4. CASE m <= x
    <3>1. \A y \in T : y \in Nat
      BY <1>4
    <3>2. \A y \in T : y <= x
      BY <1>5, <2>1, <2>2, <2>4, <3>1
    <3> QED BY <1>4, <1>5, <3>2
  <2> QED BY <1>5, <2>2, <2>3, <2>4
<1> QED BY <1>8, <1>9

LEMMA MaxOfFinite ==
  ASSUME NEW S \in SUBSET Nat, IsFiniteSet(S), S # {}
  PROVE  Max(S) \in S /\ \A x \in S : x <= Max(S)
<1>1. PICK m \in S : \A x \in S : x <= m
  BY FiniteHasGreatest
<1> QED BY <1>1, MaxOfNaturals

LEMMA MaxIs ==
  ASSUME NEW S \in SUBSET Nat, NEW m \in S, \A x \in S : x <= m
  PROVE  Max(S) = m
<1>1. Max(S) \in S /\ \A x \in S : x <= Max(S)
  BY MaxOfNaturals
<1>2. Max(S) \in Nat /\ m \in Nat /\ m <= Max(S) /\ Max(S) <= m
  BY <1>1
<1> QED BY <1>2

LEMMA SeqOfMembers ==
  ASSUME NEW S, NEW T, NEW s \in Seq(S), \A i \in 1..Len(s) : s[i] \in T
  PROVE  s \in Seq(T)
<1>1. Len(s) \in Nat /\ s = [i \in 1..Len(s) |-> s[i]]
  OBVIOUS
<1> QED BY <1>1, IsASeq
-----------------------------------------------------------------------------

\* The client pauses before it asks for a state, and does not send more between
\* two frames than rx can hold.
WellBehaved == "state_while_running" \notin Exposed /\ "rx_full" \notin Exposed

\* How many requests have been dispatched, and which one's answer may be due.
Dispatched == Len(replies) + (IF due = {} THEN 0 ELSE 1)
Current == Len(replies) + 1

\* The last "run" or "pause" of the first n requests is a "run".
RunsAfter(n) ==
  \E k \in 1..n : /\ requests[k].cmd = "run"
                  /\ \A j \in (k + 1)..n : requests[j].cmd # "pause"

TypeInv ==
  /\ requests \in Seq(Commands) /\ Len(requests) <= MaxRequests
  /\ replies \in Seq([to : Ids, ok : BOOLEAN, frames : 0..MaxFrames])
  /\ frames \in [Ids -> 0..MaxFrames]
  /\ wire \in Seq(Nat) /\ rx \in Seq(Nat)
  /\ at \in Places
  /\ step_remaining \in Nat
  /\ open \in BOOLEAN /\ until_active \in BOOLEAN /\ running \in BOOLEAN
  /\ state_op \in BOOLEAN
  /\ pad_desired \in Pads /\ pad_applied \in Pads

\* At most one answer is due; what follows its request lies in rx and then on
\* the wire, complete and in order, and rx has room for all of it.
QueueInv ==
  /\ due = {} \/ due = {Current}
  /\ Len(rx) + Len(wire) = Len(requests) - Dispatched
  /\ \A i \in 1..Len(rx) : rx[i] = Dispatched + i
  /\ \A i \in 1..Len(wire) : wire[i] = Dispatched + Len(rx) + i
  /\ Len(rx) + Len(wire) < RxSize

\* What running, step_remaining, until_active and state_op say together.
ModeInv ==
  /\ running = RunsAfter(Dispatched)
  /\ \A k \in 1..Len(requests) : requests[k].cmd = "state" => RunsAfter(k - 1) = FALSE
  /\ due = {} => step_remaining = 0 /\ state_op = FALSE /\ until_active = FALSE
  /\ due # {} =>
       /\ running = FALSE
       /\ \/ /\ Steps(requests[Current]) /\ at = "executing" /\ step_remaining > 0
             /\ state_op = FALSE
             /\ until_active = (requests[Current].cmd = "step_until")
          \/ /\ requests[Current].cmd = "state" /\ at \in {"executing", "synced"}
             /\ step_remaining = 0 /\ state_op = TRUE /\ until_active = FALSE

\* Where the emulation thread may be meanwhile.
PlaceInv ==
  /\ at = "synced" => due # {}
  /\ at \in {"booting", "pausing", "held"} => running = FALSE
  /\ at = "polling" => running = TRUE
  /\ at = "executing" /\ due = {} => running = TRUE

\* The frames a step has run are the ones it does not miss any more.
CountInv ==
  /\ \A id \in Ids : id > Dispatched => frames[id] = 0
  /\ due # {} /\ Steps(requests[Current]) =>
       frames[Current] + step_remaining = requests[Current].arg

ControlInv ==
  /\ TypeInv /\ QueueInv /\ ModeInv /\ PlaceInv /\ CountInv
  /\ pad_desired = LastPad(Dispatched)
  /\ AnswersInOrder /\ AnsweredAsAsked /\ StepSeesPad
-----------------------------------------------------------------------------
LEMMA CommandFacts ==
  /\ \A r \in Commands :
       /\ r.cmd \in {"inline", "run", "pause", "state", "pad", "step", "step_until"}
       /\ Steps(r) => r.arg \in StepCounts /\ r.arg \in Nat /\ r.arg > 0
       /\ r.cmd = "pad" => r.arg \in Pads
<1> SUFFICES ASSUME NEW r \in Commands
             PROVE  /\ r.cmd \in {"inline", "run", "pause", "state", "pad", "step", "step_until"}
                    /\ Steps(r) => r.arg \in StepCounts /\ r.arg \in Nat /\ r.arg > 0
                    /\ r.cmd = "pad" => r.arg \in Pads
  OBVIOUS
<1>1. CASE r \in [cmd : {"inline", "run", "pause", "state"}, arg : {0}]
  BY <1>1 DEF Steps
<1>2. CASE r \in [cmd : {"pad"}, arg : Pads]
  BY <1>2 DEF Steps
<1>3. CASE r \in [cmd : {"step", "step_until"}, arg : StepCounts]
  <2>1. r.cmd \in {"step", "step_until"} /\ r.arg \in StepCounts
    BY <1>3
  <2>2. r.arg \in Nat /\ r.arg > 0
    <3>1. r.arg \in Nat /\ r.arg # 0
      BY <2>1, ControlAssumption
    <3> QED BY ONLY <3>1
  <2> QED BY <2>1, <2>2
<1> QED BY <1>1, <1>2, <1>3 DEF Commands

LEMMA BoundFacts ==
  /\ Max(StepCounts) \in Nat /\ \A n \in StepCounts : n <= Max(StepCounts)
  /\ Max(Elapsed) \in Nat /\ \A e \in Elapsed : e <= Max(Elapsed) /\ e \in Nat /\ e > 0
  /\ Min(Elapsed) \in Nat /\ \A e \in Elapsed : Min(Elapsed) <= e
  /\ MaxFrames \in Nat
<1>1. StepCounts \in SUBSET Nat /\ Elapsed \in SUBSET Nat
      /\ StepCounts # {} /\ Elapsed # {} /\ IsFiniteSet(StepCounts) /\ IsFiniteSet(Elapsed)
  BY ControlAssumption
<1>2. Max(StepCounts) \in StepCounts /\ \A n \in StepCounts : n <= Max(StepCounts)
  BY <1>1, MaxOfFinite
<1>3. Max(Elapsed) \in Elapsed /\ \A n \in Elapsed : n <= Max(Elapsed)
  BY <1>1, MaxOfFinite
<1>4. Min(Elapsed) \in Elapsed /\ \A n \in Elapsed : Min(Elapsed) <= n
  BY <1>1, MinOfNaturals
<1>5. Max(StepCounts) \in Nat /\ Max(Elapsed) \in Nat /\ Min(Elapsed) \in Nat
  BY <1>1, <1>2, <1>3, <1>4
<1>6. MaxFrames \in Nat
  BY <1>5 DEF MaxFrames
<1> QED BY <1>2, <1>3, <1>4, <1>5, <1>6, ControlAssumption

\* What the last request decides.
LEMMA RunsNext ==
  ASSUME requests \in Seq(Commands), NEW n \in Nat, n < Len(requests)
  PROVE  RunsAfter(n + 1) = CASE requests[n + 1].cmd = "run" -> TRUE
                              [] requests[n + 1].cmd = "pause" -> FALSE
                              [] OTHER -> RunsAfter(n)
<1>1. CASE requests[n + 1].cmd = "run"
  <2>1. n + 1 \in 1..(n + 1) /\ (n + 1 + 1)..(n + 1) = {}
    OBVIOUS
  <2> QED BY <1>1, <2>1 DEF RunsAfter
<1>2. CASE requests[n + 1].cmd = "pause"
  <2> SUFFICES ASSUME NEW k \in 1..(n + 1), requests[k].cmd = "run",
                      \A j \in (k + 1)..(n + 1) : requests[j].cmd # "pause"
               PROVE  FALSE
    BY <1>2 DEF RunsAfter
  <2>1. k # n + 1
    BY <1>2
  <2>2. n + 1 \in (k + 1)..(n + 1)
    BY <2>1
  <2> QED BY <1>2, <2>2
<1>3. CASE requests[n + 1].cmd # "run" /\ requests[n + 1].cmd # "pause"
  <2>1. ASSUME RunsAfter(n) PROVE RunsAfter(n + 1)
    <3>1. PICK k \in 1..n : /\ requests[k].cmd = "run"
                            /\ \A j \in (k + 1)..n : requests[j].cmd # "pause"
      BY <2>1 DEF RunsAfter
    <3>2. \A j \in (k + 1)..(n + 1) : requests[j].cmd # "pause"
      BY <1>3, <3>1
    <3>3. k \in 1..(n + 1)
      OBVIOUS
    <3> QED BY <3>1, <3>2, <3>3 DEF RunsAfter
  <2>2. ASSUME RunsAfter(n + 1) PROVE RunsAfter(n)
    <3>1. PICK k \in 1..(n + 1) : /\ requests[k].cmd = "run"
                                  /\ \A j \in (k + 1)..(n + 1) : requests[j].cmd # "pause"
      BY <2>2 DEF RunsAfter
    <3>2. k \in 1..n
      BY <1>3, <3>1
    <3>3. \A j \in (k + 1)..n : requests[j].cmd # "pause"
      BY <3>1
    <3> QED BY <3>1, <3>2, <3>3 DEF RunsAfter
  <2>3. RunsAfter(n) \in BOOLEAN /\ RunsAfter(n + 1) \in BOOLEAN
    BY DEF RunsAfter
  <2> QED BY <1>3, <2>1, <2>2, <2>3
<1> QED BY <1>1, <1>2, <1>3

\* What the last request does to the buttons.
LEMMA PadNext ==
  ASSUME requests \in Seq(Commands), NEW n \in Nat, n < Len(requests)
  PROVE  LastPad(n + 1) = IF requests[n + 1].cmd = "pad" THEN requests[n + 1].arg
                          ELSE LastPad(n)
<1> DEFINE pads(m) == {k \in 1..m : requests[k].cmd = "pad"}
<1>1. CASE requests[n + 1].cmd = "pad"
  <2>1. n + 1 \in pads(n + 1) /\ pads(n + 1) \in SUBSET Nat /\ \A x \in pads(n + 1) : x <= n + 1
    BY <1>1
  <2>2. Max(pads(n + 1)) = n + 1
    BY <2>1, MaxIs
  <2> QED BY <1>1, <2>1, <2>2 DEF LastPad
<1>2. CASE requests[n + 1].cmd # "pad"
  <2>1. pads(n + 1) = pads(n)
    BY <1>2
  <2> QED BY <1>2, <2>1 DEF LastPad
<1> QED BY <1>1, <1>2

\* A new request changes nothing about earlier ones.
LEMMA EarlierRequests ==
  ASSUME requests \in Seq(Commands), NEW r \in Commands, requests' = Append(requests, r),
         NEW n \in 0..Len(requests)
  PROVE  /\ RunsAfter(n)' = RunsAfter(n) /\ LastPad(n)' = LastPad(n)
         /\ n > 0 => requests'[n] = requests[n]
<1>1. \A k \in 1..n : requests'[k] = requests[k]
  OBVIOUS
<1>2. RunsAfter(n)' = RunsAfter(n)
  <2>1. \A k \in 1..n : \A j \in (k + 1)..n : j \in 1..n
    OBVIOUS
  <2> QED BY <1>1, <2>1 DEF RunsAfter
<1>3. LastPad(n)' = LastPad(n)
  <2>1. {k \in 1..n : requests[k].cmd = "pad"}' = {k \in 1..n : requests[k].cmd = "pad"}
    BY <1>1
  <2>2. CASE {k \in 1..n : requests[k].cmd = "pad"} = {}
    BY <2>1, <2>2 DEF LastPad
  <2>3. CASE {k \in 1..n : requests[k].cmd = "pad"} # {}
    <3> DEFINE pads == {k \in 1..n : requests[k].cmd = "pad"}
    <3>1. pads \in SUBSET Nat /\ \A k \in pads : k <= n /\ k \in 1..n
      OBVIOUS
    <3>4. pads # {}
      BY <2>3
    <3> HIDE DEF pads
    <3>2. Max(pads) \in pads
      <4>1. n \in Nat /\ pads \in SUBSET Nat /\ \A k \in pads : k <= n
        BY <3>1
      <4> QED BY ONLY <3>4, <4>1, MaxOfNaturals
    <3>3. requests'[Max(pads)] = requests[Max(pads)]
      BY <1>1, <3>1, <3>2
    <3> QED BY <2>1, <2>3, <3>3 DEF LastPad, pads
  <2> QED BY <2>2, <2>3
<1> QED BY <1>1, <1>2, <1>3

LEMMA ControlInit == Init => ControlInv
<1> SUFFICES ASSUME Init PROVE ControlInv
  OBVIOUS
<1>1. /\ requests = <<>> /\ replies = <<>> /\ due = {} /\ frames = [id \in Ids |-> 0]
      /\ open = TRUE /\ wire = <<>> /\ rx = <<>> /\ at = "booting"
      /\ step_remaining = 0 /\ until_active = FALSE /\ running = FALSE
      /\ state_op = FALSE
      /\ pad_desired = Released /\ pad_applied = Released
  BY DEF Init
<1>2. Len(requests) = 0 /\ Len(replies) = 0 /\ Len(rx) = 0 /\ Len(wire) = 0
      /\ DOMAIN replies = {} /\ Dispatched = 0
  BY <1>1 DEF Dispatched
<1>3. Released \in Pads /\ MaxRequests \in Nat /\ RxSize \in Nat /\ RxSize > 0
  BY ControlAssumption DEF Released
<1>4. TypeInv
  <2>1. /\ requests \in Seq(Commands) /\ wire \in Seq(Nat) /\ rx \in Seq(Nat)
        /\ replies \in Seq([to : Ids, ok : BOOLEAN, frames : 0..MaxFrames])
    BY <1>1
  <2>2. frames \in [Ids -> 0..MaxFrames]
    BY <1>1, BoundFacts
  <2>3. /\ Len(requests) <= MaxRequests /\ step_remaining \in Nat
    BY <1>1, <1>2, <1>3
  <2>4. /\ at \in Places
        /\ open \in BOOLEAN /\ until_active \in BOOLEAN /\ running \in BOOLEAN
        /\ state_op \in BOOLEAN
        /\ pad_desired \in Pads /\ pad_applied \in Pads
    BY <1>1, <1>3 DEF Places
  <2> QED BY ONLY <2>1, <2>2, <2>3, <2>4 DEF TypeInv
<1>5. QueueInv
  BY <1>1, <1>2, <1>3 DEF QueueInv
<1>6. RunsAfter(0) = FALSE /\ LastPad(0) = Released
  BY DEF RunsAfter, LastPad
<1>7. ModeInv /\ PlaceInv
  <2>1. 1..Len(requests) = {}
    BY <1>2
  <2>2. running = RunsAfter(Dispatched)
    BY <1>1, <1>2, <1>6
  <2> QED BY ONLY <1>1, <2>1, <2>2 DEF ModeInv, PlaceInv
<1>8. CountInv
  BY <1>1, <1>2 DEF CountInv
<1>9. AnswersInOrder /\ AnsweredAsAsked /\ StepSeesPad
  BY <1>1, <1>2 DEF AnswersInOrder, AnsweredAsAsked, StepSeesPad
<1> QED BY <1>1, <1>2, <1>4, <1>5, <1>6, <1>7, <1>8, <1>9 DEF ControlInv

\* Numbers the proofs of all steps need.
LEMMA Numbers ==
  ASSUME ControlInv
  PROVE  /\ Len(requests) \in Nat /\ Len(replies) \in Nat /\ Len(rx) \in Nat /\ Len(wire) \in Nat
         /\ Dispatched \in 0..Len(requests) /\ Current \in Nat /\ Current > 0
         /\ Ids = 1..MaxRequests /\ 1..Len(requests) \subseteq Ids
         /\ DOMAIN requests = 1..Len(requests) /\ DOMAIN replies = 1..Len(replies)
         /\ due = {} => Dispatched = Len(replies)
         /\ due # {} => Dispatched = Current /\ due = {Current} /\ Current \in 1..Len(requests)
<1>1. /\ Len(requests) \in Nat /\ Len(replies) \in Nat /\ Len(rx) \in Nat /\ Len(wire) \in Nat
      /\ DOMAIN requests = 1..Len(requests) /\ DOMAIN replies = 1..Len(replies)
      /\ Len(requests) <= MaxRequests
  BY DEF ControlInv, TypeInv
<1>2. Len(rx) + Len(wire) = Len(requests) - Dispatched /\ (due = {} \/ due = {Current})
  BY DEF ControlInv, QueueInv
<1>5. Ids = 1..MaxRequests /\ MaxRequests \in Nat /\ 1..Len(requests) \subseteq Ids
      /\ Current = Len(replies) + 1
  BY <1>1, ControlAssumption DEF Ids, Current
<1>3. CASE due = {}
  <2>1. Dispatched = Len(replies)
    BY <1>3 DEF Dispatched
  <2> QED BY ONLY <1>1, <1>2, <1>3, <1>5, <2>1
<1>4. CASE due # {}
  <2>1. Dispatched = Len(replies) + 1
    BY <1>4 DEF Dispatched
  <2>2. Current \in 1..Len(requests) /\ Dispatched \in 0..Len(requests)
    BY ONLY <1>1, <1>2, <1>5, <2>1
  <2>3. due = {Current} /\ Dispatched = Current /\ Current > 0 /\ Current \in Nat
    BY ONLY <1>1, <1>2, <1>4, <1>5, <2>1
  <2> QED BY ONLY <1>1, <1>4, <1>5, <2>2, <2>3, Zenon
<1> QED BY <1>3, <1>4

\* Replies that were right stay right when one is added.
LEMMA OneMoreReply ==
  ASSUME ControlInv, requests' = requests, NEW ok \in BOOLEAN, NEW n \in 0..MaxFrames,
         Current \in Ids,
         replies' = Append(replies, [to |-> Current, ok |-> ok, frames |-> n]),
         Steps(requests[Current]) /\ ok =>
           /\ n < requests[Current].arg + Max(Elapsed)
           /\ n >= IF requests[Current].cmd = "step" THEN requests[Current].arg ELSE Min(Elapsed)
  PROVE  /\ replies' \in Seq([to : Ids, ok : BOOLEAN, frames : 0..MaxFrames])
         /\ Len(replies') = Len(replies) + 1
         /\ AnswersInOrder' /\ AnsweredAsAsked'
<1> DEFINE new == [to |-> Current, ok |-> ok, frames |-> n]
<1>1. new \in [to : Ids, ok : BOOLEAN, frames : 0..MaxFrames]
  OBVIOUS
<1>2. replies \in Seq([to : Ids, ok : BOOLEAN, frames : 0..MaxFrames]) /\ Len(replies) \in Nat
  BY DEF ControlInv, TypeInv
<1>3. new.to = Current /\ new.ok = ok /\ new.frames = n
  OBVIOUS
<1> HIDE DEF new
<1>4. replies' = Append(replies, new)
  BY DEF new
<1>5. /\ replies' \in Seq([to : Ids, ok : BOOLEAN, frames : 0..MaxFrames])
      /\ Len(replies') = Len(replies) + 1
      /\ DOMAIN replies' = 1..(Len(replies) + 1)
      /\ \A k \in 1..Len(replies) : replies'[k] = replies[k]
      /\ replies'[Len(replies) + 1] = new
  BY <1>1, <1>2, <1>4
<1>6. \A k \in DOMAIN replies' : k \in 1..Len(replies) \/ k = Len(replies) + 1
  BY <1>2, <1>5
<1>7. DOMAIN replies = 1..Len(replies)
  BY <1>2
<1>8. AnswersInOrder'
  BY <1>3, <1>5, <1>6, <1>7 DEF ControlInv, AnswersInOrder, Current
<1>9. AnsweredAsAsked'
  <2> SUFFICES ASSUME NEW k \in DOMAIN replies',
                      Steps(requests[replies'[k].to]), replies'[k].ok
               PROVE  /\ replies'[k].frames < requests[replies'[k].to].arg + Max(Elapsed)
                      /\ replies'[k].frames >= IF requests[replies'[k].to].cmd = "step"
                                               THEN requests[replies'[k].to].arg ELSE Min(Elapsed)
    BY DEF AnsweredAsAsked, Steps
  <2>1. CASE k \in 1..Len(replies)
    BY <1>5, <1>7, <2>1 DEF ControlInv, AnsweredAsAsked, Steps
  <2>2. CASE k = Len(replies) + 1
    BY <1>3, <1>5, <2>2
  <2> QED BY <1>6, <2>1, <2>2
<1> QED BY <1>5, <1>8, <1>9
-----------------------------------------------------------------------------
LEMMA SameRequests ==
  ASSUME requests' = requests, NEW VARIABLE n, NEW m, n' = m
  PROVE  RunsAfter(n)' = RunsAfter(m) /\ LastPad(n)' = LastPad(m)
BY DEF RunsAfter, LastPad

\* What dispatching a line does when the machine is not in the middle of a
\* step or a state: the answer comes at once, or it is due.
LEMMA Dispatching ==
  ASSUME ControlInv, due = {}, rx # <<>>, Dispatch(Head(rx)), requests' = requests
  PROVE  /\ Head(rx) = Current /\ Current \in 1..Len(requests) /\ frames[Current] = 0
         /\ frames' = frames
         /\ running' = RunsAfter(Current) /\ pad_desired' = LastPad(Current)
         /\ RunsAfter(Current) = CASE requests[Current].cmd = "run" -> TRUE
                                   [] requests[Current].cmd = "pause" -> FALSE
                                   [] OTHER -> running
         /\ \/ /\ due' = {}
               /\ \E ok \in BOOLEAN :
                    /\ replies' = Append(replies, [to |-> Current, ok |-> ok, frames |-> 0])
                    /\ Steps(requests[Current]) => ok = FALSE
               /\ UNCHANGED <<step_remaining, until_active, state_op>>
               /\ \/ requests[Current].cmd \in {"inline", "run", "pause", "pad"}
                  \/ Steps(requests[Current]) /\ running = TRUE
            \/ /\ due' = {Current} /\ replies' = replies
               /\ Steps(requests[Current]) /\ running = FALSE
               /\ step_remaining' = requests[Current].arg
               /\ until_active' = (requests[Current].cmd = "step_until")
               /\ UNCHANGED <<running, state_op>>
            \/ /\ due' = {Current} /\ replies' = replies
               /\ requests[Current].cmd = "state"
               /\ state_op' = TRUE
               /\ UNCHANGED <<step_remaining, until_active, running>>
<1>1. Len(rx) \in Nat /\ Len(rx) > 0 /\ Head(rx) = rx[1] /\ rx \in Seq(Nat)
  BY DEF ControlInv, TypeInv
<1>2. Head(rx) = Current
  <2>1. rx[1] = Dispatched + 1
    BY <1>1 DEF ControlInv, QueueInv
  <2>2. Dispatched = Len(replies)
    BY Numbers
  <2> QED BY <1>1, <2>1, <2>2 DEF Current
<1>3. Current \in 1..Len(requests) /\ Current \in Ids /\ Dispatched = Len(replies)
  <2>1. Len(rx) + Len(wire) = Len(requests) - Dispatched
    BY DEF ControlInv, QueueInv
  <2>2. /\ Len(requests) \in Nat /\ Len(replies) \in Nat /\ Len(wire) \in Nat
        /\ Dispatched = Len(replies) /\ 1..Len(requests) \subseteq Ids
    BY Numbers
  <2>3. Current \in 1..Len(requests)
    BY ONLY <1>1, <2>1, <2>2 DEF Current
  <2> QED BY <2>2, <2>3
<1>4. frames[Current] = 0
  <2>1. Current > Dispatched
    BY <1>3, Numbers DEF Current
  <2> QED BY <1>3, <2>1 DEF ControlInv, CountInv
<1> DEFINE r == requests[Current]
<1>5. r \in Commands
  BY <1>3 DEF ControlInv, TypeInv
<1>6. r.cmd \in {"inline", "run", "pause", "state", "pad", "step", "step_until"}
  BY <1>5, CommandFacts
<1>7. RunsAfter(Current) = CASE r.cmd = "run" -> TRUE [] r.cmd = "pause" -> FALSE
                             [] OTHER -> running
  <2>1. requests \in Seq(Commands) /\ Len(replies) \in Nat /\ Len(replies) < Len(requests)
    BY <1>3, Numbers DEF ControlInv, TypeInv, Current
  <2>2. running = RunsAfter(Len(replies))
    BY <1>3 DEF ControlInv, ModeInv
  <2> QED BY <2>1, <2>2, RunsNext DEF Current
<1>8. LastPad(Current) = IF r.cmd = "pad" THEN r.arg ELSE pad_desired
  <2>1. requests \in Seq(Commands) /\ Len(replies) \in Nat /\ Len(replies) < Len(requests)
    BY <1>3, Numbers DEF ControlInv, TypeInv, Current
  <2>2. pad_desired = LastPad(Len(replies))
    BY <1>3 DEF ControlInv
  <2> QED BY <2>1, <2>2, PadNext DEF Current
<1>9. running \in BOOLEAN /\ state_op = FALSE /\ until_active = FALSE /\ step_remaining = 0
  BY DEF ControlInv, TypeInv, ModeInv
<1>10. Dispatch(Current) /\ frames' = frames /\ frames'[Current] = 0
  BY <1>2, <1>4 DEF Dispatch
<1> HIDE DEF r
<1>11. CASE r.cmd = "inline" \/ r.cmd = "pad" \/ r.cmd \in {"run", "pause"}
  <2>1. ~Steps(r) /\ r.cmd # "state"
    BY <1>11 DEF Steps
  <2>2. /\ replies' = Append(replies, [to |-> Current, ok |-> TRUE, frames |-> 0])
        /\ due' = {}
        /\ UNCHANGED <<step_remaining, until_active, state_op>>
    BY <1>10, <1>11, <2>1 DEF Dispatch, Reply, serverVars, r
  <2>3. running' = RunsAfter(Current)
    BY <1>7, <1>10, <1>11, <2>1 DEF Dispatch, serverVars, r
  <2>4. pad_desired' = LastPad(Current)
    <3>1. pad_desired' = IF r.cmd = "pad" THEN r.arg ELSE pad_desired
      BY <1>10, <1>11, <2>1 DEF Dispatch, serverVars, r
    <3> QED BY ONLY <3>1, <1>8, Zenon
  <2> QED BY <1>2, <1>3, <1>4, <1>7, <1>10, <1>11, <2>1, <2>2, <2>3, <2>4 DEF r
<1>12. CASE Steps(r) /\ running = TRUE
  <2>1. r.cmd \in {"step", "step_until"}
    BY <1>12 DEF Steps
  <2>2. /\ replies' = Append(replies, [to |-> Current, ok |-> FALSE, frames |-> 0])
        /\ due' = {}
        /\ UNCHANGED <<step_remaining, until_active, state_op, running, pad_desired>>
    BY <1>10, <1>12, <2>1 DEF Dispatch, DispatchStep, MayStep, Reply, serverVars, r
  <2> QED BY <1>2, <1>3, <1>4, <1>7, <1>8, <1>10, <1>12, <2>1, <2>2 DEF r
<1>13. CASE Steps(r) /\ running = FALSE
  <2>1. r.cmd \in {"step", "step_until"}
    BY <1>13 DEF Steps
  <2>2. /\ replies' = replies /\ due' = {Current}
        /\ step_remaining' = r.arg
        /\ until_active' = (r.cmd = "step_until")
        /\ UNCHANGED <<state_op, running, pad_desired>>
    BY <1>9, <1>10, <1>13, <2>1 DEF Dispatch, DispatchStep, MayStep, Postpone, r
  <2> QED BY <1>2, <1>3, <1>4, <1>7, <1>8, <1>10, <1>13, <2>1, <2>2 DEF r
<1>14. CASE r.cmd = "state"
  <2>1. ~Steps(r)
    BY <1>14 DEF Steps
  <2>2. /\ replies' = replies /\ due' = {Current} /\ state_op' = TRUE
        /\ UNCHANGED <<step_remaining, until_active, running, pad_desired>>
    BY <1>9, <1>10, <1>14, <2>1 DEF Dispatch, DispatchState, Postpone, r
  <2> QED BY <1>2, <1>3, <1>4, <1>7, <1>8, <1>10, <1>14, <2>1, <2>2 DEF r
<1> QED BY <1>6, <1>9, <1>11, <1>12, <1>13, <1>14 DEF Steps

\* What of the invariant a dispatched line keeps wherever the thread goes on.
LEMMA AfterDispatch ==
  ASSUME ControlInv, due = {}, rx # <<>>, Dispatch(Head(rx)), rx' = Tail(rx), at' \in Places,
         UNCHANGED <<requests, open, wire, pad_applied>>
  PROVE  /\ TypeInv' /\ QueueInv' /\ CountInv' /\ pad_desired' = LastPad(Dispatched)'
         /\ AnswersInOrder' /\ AnsweredAsAsked' /\ StepSeesPad'
         /\ Dispatched' = Current /\ (due' # {} => Current' = Current)
         /\ running' = RunsAfter(Dispatched)'
<1>1. /\ Head(rx) = Current /\ Current \in 1..Len(requests) /\ frames[Current] = 0
      /\ frames' = frames
      /\ running' = RunsAfter(Current) /\ pad_desired' = LastPad(Current)
      /\ \/ /\ due' = {}
            /\ \E ok \in BOOLEAN :
                 /\ replies' = Append(replies, [to |-> Current, ok |-> ok, frames |-> 0])
                 /\ Steps(requests[Current]) => ok = FALSE
            /\ UNCHANGED <<step_remaining, until_active, state_op>>
         \/ /\ due' = {Current} /\ replies' = replies
            /\ Steps(requests[Current])
            /\ step_remaining' = requests[Current].arg
            /\ until_active' = (requests[Current].cmd = "step_until")
            /\ UNCHANGED <<running, state_op>>
         \/ /\ due' = {Current} /\ replies' = replies
            /\ requests[Current].cmd = "state"
            /\ state_op' = TRUE
            /\ UNCHANGED <<step_remaining, until_active, running>>
  BY Dispatching, Zenon
<1>2. /\ Len(requests) \in Nat /\ Len(replies) \in Nat /\ Len(rx) \in Nat /\ Len(wire) \in Nat
      /\ Current \in Nat /\ Current > 0 /\ Current \in Ids
      /\ Dispatched = Len(replies) /\ Current = Len(replies) + 1
  BY <1>1, Numbers DEF Current
<1>3. TypeInv
  BY DEF ControlInv
<1>4. requests[Current] \in Commands
  BY <1>1, <1>3 DEF TypeInv
<1>5. /\ replies' \in Seq([to : Ids, ok : BOOLEAN, frames : 0..MaxFrames])
      /\ AnswersInOrder' /\ AnsweredAsAsked'
      /\ IF due' = {} THEN Len(replies') = Len(replies) + 1
         ELSE due' = {Current} /\ replies' = replies
  <2>1. CASE due' = {}
    <3>1. PICK ok \in BOOLEAN :
            /\ replies' = Append(replies, [to |-> Current, ok |-> ok, frames |-> 0])
            /\ Steps(requests[Current]) => ok = FALSE
      BY <1>1, <2>1
    <3>2. 0 \in 0..MaxFrames
      BY BoundFacts
    <3>3. requests' = requests
      OBVIOUS
    <3>4. ~(Steps(requests[Current]) /\ ok)
      BY <3>1
    <3> QED BY <1>2, <2>1, <3>1, <3>2, <3>3, <3>4, OneMoreReply
  <2>2. CASE due' # {}
    <3>1. due' = {Current} /\ replies' = replies
      BY <1>1, <2>2
    <3>2. AnswersInOrder' /\ AnsweredAsAsked'
      BY <3>1 DEF ControlInv, AnswersInOrder, AnsweredAsAsked, Steps
    <3> QED BY <1>3, <2>2, <3>1, <3>2 DEF TypeInv
  <2> QED BY <2>1, <2>2
<1>6. Dispatched' = Current /\ (due' # {} => Current' = Current)
  BY <1>2, <1>5 DEF Dispatched, Current
<1>7. running' = RunsAfter(Dispatched)' /\ pad_desired' = LastPad(Dispatched)'
  BY <1>1, <1>6, ZenonT(30) DEF RunsAfter, LastPad
<1>8. TypeInv'
  <2>1. requests' \in Seq(Commands) /\ Len(requests') <= MaxRequests
    BY <1>3 DEF TypeInv
  <2>2. wire' \in Seq(Nat) /\ rx' \in Seq(Nat)
    BY <1>3 DEF TypeInv
  <2>3. step_remaining' \in Nat
    BY <1>1, <1>3, <1>4, CommandFacts DEF TypeInv
  <2>4. until_active' \in BOOLEAN /\ state_op' \in BOOLEAN
    BY <1>1, <1>3 DEF TypeInv
  <2>5. running' \in BOOLEAN
    BY <1>1 DEF RunsAfter
  <2>6. pad_desired' \in Pads
    <3>1. requests \in Seq(Commands) /\ Len(replies) \in Nat /\ Len(replies) < Len(requests)
      BY <1>1, <1>2, <1>3 DEF TypeInv
    <3>2. LastPad(Current) = IF requests[Current].cmd = "pad" THEN requests[Current].arg
                             ELSE LastPad(Len(replies))
      BY <1>2, <3>1, PadNext
    <3>3. LastPad(Len(replies)) \in Pads
      BY <1>2, <1>3 DEF ControlInv, TypeInv
    <3> QED BY <1>1, <1>4, <3>2, <3>3, CommandFacts
  <2>7. open' \in BOOLEAN /\ pad_applied' \in Pads /\ frames' \in [Ids -> 0..MaxFrames]
    BY <1>1, <1>3 DEF TypeInv
  <2> QED BY ONLY <1>5, <2>1, <2>2, <2>3, <2>4, <2>5, <2>6, <2>7, at' \in Places DEF TypeInv
<1>9. QueueInv'
  <2>1. rx \in Seq(Nat) /\ wire \in Seq(Nat) /\ Len(rx) > 0
    BY <1>3 DEF TypeInv
  <2>2. /\ Len(rx) + Len(wire) = Len(requests) - Dispatched
        /\ \A i \in 1..Len(rx) : rx[i] = Dispatched + i
        /\ \A i \in 1..Len(wire) : wire[i] = Dispatched + Len(rx) + i
        /\ Len(rx) + Len(wire) < RxSize
    BY DEF ControlInv, QueueInv
  <2>3. Len(rx') = Len(rx) - 1 /\ \A i \in 1..(Len(rx) - 1) : rx'[i] = rx[i + 1]
    BY <2>1
  <2>4. Len(rx') + Len(wire') = Len(requests') - Dispatched'
    <3>1. wire' = wire /\ requests' = requests
      OBVIOUS
    <3>2. Len(rx') + Len(wire) = Len(requests) - Current
      BY ONLY <1>2, <2>2, <2>3
    <3> QED BY ONLY <1>6, <3>1, <3>2
  <2>5. \A i \in 1..Len(rx') : rx'[i] = Dispatched' + i
    <3>1. ASSUME NEW i \in 1..(Len(rx) - 1) PROVE rx'[i] = Current + i
      <4>1. rx'[i] = rx[i + 1]
        BY <2>3
      <4>2. rx[i + 1] = Dispatched + (i + 1)
        <5>1. i + 1 \in 1..Len(rx)
          BY ONLY <1>2, i \in 1..(Len(rx) - 1)
        <5> QED BY ONLY <2>2, <5>1
      <4> QED BY ONLY <1>2, <4>1, <4>2, i \in 1..(Len(rx) - 1)
    <3> QED BY <1>6, <2>3, <3>1
  <2>6. \A i \in 1..Len(wire') : wire'[i] = Dispatched' + Len(rx') + i
    <3>1. wire' = wire
      OBVIOUS
    <3>2. Dispatched' + Len(rx') = Dispatched + Len(rx)
      BY ONLY <1>2, <1>6, <2>3
    <3> QED BY ONLY <2>2, <3>1, <3>2
  <2>7. Len(rx') + Len(wire') < RxSize
    <3>1. wire' = wire /\ RxSize \in Nat
      BY ControlAssumption
    <3> QED BY ONLY <1>2, <2>2, <2>3, <3>1
  <2>8. due' = {} \/ due' = {Current'}
    BY <1>5, <1>6
  <2> QED BY ONLY <2>4, <2>5, <2>6, <2>7, <2>8 DEF QueueInv
<1>10. CountInv'
  <2>1. \A id \in Ids : id > Dispatched' => frames'[id] = 0
    <3>1. \A id \in Ids : id > Dispatched => frames[id] = 0
      BY DEF ControlInv, CountInv
    <3>2. \A id \in Ids : id > Current => id > Dispatched
      BY <1>2, ControlAssumption DEF Ids
    <3> QED BY <1>1, <1>6, <3>1, <3>2
  <2>2. ASSUME due' # {}, Steps(requests'[Current'])
        PROVE  frames'[Current'] + step_remaining' = requests'[Current'].arg
    <3>1. Current' = Current /\ Steps(requests[Current]) /\ requests'[Current'] = requests[Current]
      BY <1>6, <2>2
    <3>2. step_remaining' = requests[Current].arg
      BY <1>1, <2>2, <3>1 DEF Steps
    <3>3. frames'[Current'] = 0
      BY <1>1, <3>1
    <3>4. requests[Current].arg \in Nat
      BY <1>4, <3>1, CommandFacts
    <3> QED BY ONLY <3>1, <3>2, <3>3, <3>4
  <2> QED BY <2>1, <2>2 DEF CountInv, Steps
<1>11. StepSeesPad'
  <2>1. \A id \in due' : frames'[id] = 0
    BY <1>1
  <2> QED BY <2>1 DEF StepSeesPad
<1> QED BY <1>5, <1>6, <1>7, <1>8, <1>9, <1>10, <1>11

LEMMA PauseLineStep ==
  ASSUME ControlInv, PauseLine
  PROVE  ControlInv'
<1>1. running = FALSE /\ due = {} /\ state_op = FALSE /\ step_remaining = 0 /\ until_active = FALSE
  <2>1. at \in {"pausing", "held"}
    BY DEF PauseLine, InPauseLoop
  <2> QED BY <2>1 DEF ControlInv, ModeInv, PlaceInv
<1>2. /\ rx # <<>> /\ Dispatch(Head(rx)) /\ rx' = Tail(rx) /\ at \in {"pausing", "held"}
      /\ UNCHANGED <<requests, open, wire, pad_applied>>
      /\ at' = CASE ~Advances(requests[Head(rx)]) -> at
                 [] at = "held" /\ state_op'      -> "synced"
                 [] OTHER                         -> "executing"
  BY DEF PauseLine, InPauseLoop, clientVars
<1>3. /\ Head(rx) = Current
      /\ RunsAfter(Current) = CASE requests[Current].cmd = "run" -> TRUE
                                [] requests[Current].cmd = "pause" -> FALSE
                                [] OTHER -> running
      /\ \/ /\ due' = {}
            /\ UNCHANGED <<step_remaining, until_active, state_op>>
            /\ requests[Current].cmd \in {"inline", "run", "pause", "pad"}
         \/ /\ due' = {Current} /\ replies' = replies
            /\ Steps(requests[Current])
            /\ step_remaining' = requests[Current].arg
            /\ until_active' = (requests[Current].cmd = "step_until")
            /\ UNCHANGED <<running, state_op>>
         \/ /\ due' = {Current} /\ replies' = replies
            /\ requests[Current].cmd = "state"
            /\ state_op' = TRUE
            /\ UNCHANGED <<step_remaining, until_active, running>>
  BY <1>1, <1>2, Dispatching
<1>4. /\ at' \in {"pausing", "held", "synced", "executing"}
      /\ requests[Current].cmd \in {"inline", "pause", "pad"} => at' = at
      /\ requests[Current].cmd = "run" \/ Steps(requests[Current]) => at' = "executing"
      /\ requests[Current].cmd = "state" => at' \in {"executing", "synced"}
  <2>1. /\ requests[Current].cmd \in {"run", "step", "step_until", "state"}
              => Advances(requests[Current])
        /\ requests[Current].cmd \in {"inline", "pause", "pad"} => ~Advances(requests[Current])
    BY <1>1 DEF Advances, MayStep, Steps
  <2>2. at' = CASE ~Advances(requests[Current]) -> at
                [] at = "held" /\ state_op'      -> "synced"
                [] OTHER                         -> "executing"
    BY <1>2, <1>3
  <2>3. ASSUME requests[Current].cmd = "run" \/ Steps(requests[Current])
        PROVE  at' = "executing"
    <3>1. ~state_op'
      BY <1>1, <1>3, <2>3 DEF Steps
    <3>2. Advances(requests[Current])
      BY <2>1, <2>3 DEF Steps
    <3> QED BY ONLY <2>2, <3>1, <3>2
  <2>4. ASSUME requests[Current].cmd = "state"
        PROVE  at' \in {"executing", "synced"}
    BY ONLY <2>1, <2>2, <2>4
  <2>5. ASSUME requests[Current].cmd \in {"inline", "pause", "pad"}
        PROVE  at' = at
    <3>1. ~state_op'
      BY <1>1, <1>3, <2>5 DEF Steps
    <3> QED BY ONLY <2>1, <2>2, <2>5, <3>1
  <2>6. at' \in {"pausing", "held", "synced", "executing"}
    BY ONLY <1>2, <2>2
  <2> QED BY ONLY <2>3, <2>4, <2>5, <2>6
<1>5. at' \in Places
  BY <1>4 DEF Places
<1>6. /\ TypeInv' /\ QueueInv' /\ CountInv' /\ pad_desired' = LastPad(Dispatched)'
      /\ AnswersInOrder' /\ AnsweredAsAsked' /\ StepSeesPad'
      /\ Dispatched' = Current /\ (due' # {} => Current' = Current)
      /\ running' = RunsAfter(Dispatched)'
  BY <1>1, <1>2, <1>5, AfterDispatch
<1>7. running' = RunsAfter(Current)
  BY <1>2, <1>6, Zenon DEF RunsAfter
<1>8. \A k \in 1..Len(requests') : requests'[k].cmd = "state" => RunsAfter(k - 1)' = FALSE
  BY <1>2 DEF ControlInv, ModeInv, RunsAfter
<1>9. ModeInv' /\ PlaceInv'
  <2>1. CASE requests[Current].cmd \in {"inline", "run", "pause", "pad"}
    <3>1. due' = {} /\ step_remaining' = 0 /\ until_active' = FALSE /\ state_op' = FALSE
      BY <1>1, <1>3, <2>1 DEF Steps
    <3>2. running' = (requests[Current].cmd = "run")
      BY <1>1, <1>3, <1>7, <2>1
    <3>3. /\ at' = "synced" => due' # {}
          /\ at' \in {"booting", "pausing", "held"} => running' = FALSE
          /\ at' = "polling" => running' = TRUE
          /\ at' = "executing" /\ due' = {} => running' = TRUE
      BY <1>2, <1>4, <2>1, <3>1, <3>2
    <3> QED BY ONLY <1>6, <1>8, <3>1, <3>3 DEF ModeInv, PlaceInv
  <2>2. CASE Steps(requests[Current])
    <3>1. /\ due' # {} /\ step_remaining' = requests[Current].arg
          /\ until_active' = (requests[Current].cmd = "step_until")
          /\ running' = FALSE /\ state_op' = FALSE
      BY <1>1, <1>3, <2>2 DEF Steps
    <3>2. at' = "executing"
      BY <1>4, <2>2, <3>1
    <3>3. requests[Current].arg > 0
      <4>1. requests \in Seq(Commands) /\ Current \in 1..Len(requests)
        BY <1>1, <1>2, Dispatching DEF ControlInv, TypeInv
      <4> QED BY <2>2, <4>1, CommandFacts
    <3>4. requests'[Current'] = requests[Current]
      BY <1>2, <1>6, <3>1
    <3> QED BY ONLY <1>6, <1>8, <2>2, <3>1, <3>2, <3>3, <3>4 DEF ModeInv, PlaceInv, Steps
  <2>3. CASE requests[Current].cmd = "state"
    <3>1. /\ due' # {} /\ step_remaining' = 0 /\ until_active' = FALSE
          /\ running' = FALSE /\ state_op' = TRUE
      BY <1>1, <1>3, <2>3 DEF Steps
    <3>2. at' \in {"executing", "synced"}
      BY <1>4, <2>3
    <3>4. requests'[Current'] = requests[Current]
      BY <1>2, <1>6, <3>1
    <3> QED BY ONLY <1>6, <1>8, <2>3, <3>1, <3>2, <3>4 DEF ModeInv, PlaceInv, Steps
  <2> QED BY <1>3, <2>1, <2>2, <2>3
<1> QED BY ONLY <1>6, <1>9 DEF ControlInv

LEMMA PollLineStep ==
  ASSUME ControlInv, PollLine
  PROVE  ControlInv'
<1>1. running = TRUE /\ due = {} /\ state_op = FALSE /\ step_remaining = 0 /\ until_active = FALSE
  <2>1. at = "polling"
    BY DEF PollLine
  <2> QED BY <2>1 DEF ControlInv, ModeInv, PlaceInv
<1>2. /\ rx # <<>> /\ Dispatch(Head(rx)) /\ rx' = Tail(rx)
      /\ UNCHANGED <<requests, open, wire, pad_applied>>
      /\ at' = IF requests[Head(rx)].cmd = "pause" THEN "pausing" ELSE "polling"
  BY DEF PollLine, clientVars
<1>3. /\ Head(rx) = Current /\ Current \in 1..Len(requests)
      /\ RunsAfter(Current) = CASE requests[Current].cmd = "run" -> TRUE
                                [] requests[Current].cmd = "pause" -> FALSE
                                [] OTHER -> running
      /\ \/ due' = {} /\ UNCHANGED <<step_remaining, until_active, state_op>>
         \/ due' = {Current} /\ requests[Current].cmd = "state"
  BY <1>1, <1>2, Dispatching
<1>4. requests[Current].cmd # "state"
  <2>1. Current - 1 = Dispatched
    BY <1>1, Numbers DEF Current
  <2>2. requests[Current].cmd = "state" => RunsAfter(Current - 1) = FALSE
    BY <1>3 DEF ControlInv, ModeInv
  <2>3. running = RunsAfter(Dispatched)
    BY DEF ControlInv, ModeInv
  <2> QED BY ONLY <1>1, <2>1, <2>2, <2>3
<1>5. at' \in Places
  BY <1>2 DEF Places
<1>6. /\ TypeInv' /\ QueueInv' /\ CountInv' /\ pad_desired' = LastPad(Dispatched)'
      /\ AnswersInOrder' /\ AnsweredAsAsked' /\ StepSeesPad'
      /\ Dispatched' = Current /\ (due' # {} => Current' = Current)
      /\ running' = RunsAfter(Dispatched)'
  BY <1>1, <1>2, <1>5, AfterDispatch
<1>7. running' = RunsAfter(Current)
  BY <1>2, <1>6, Zenon DEF RunsAfter
<1>8. \A k \in 1..Len(requests') : requests'[k].cmd = "state" => RunsAfter(k - 1)' = FALSE
  BY <1>2 DEF ControlInv, ModeInv, RunsAfter
<1>9. due' = {} /\ step_remaining' = 0 /\ until_active' = FALSE /\ state_op' = FALSE
  BY <1>1, <1>3, <1>4
<1>10. running' = (requests[Current].cmd # "pause")
  BY <1>1, <1>3, <1>7
<1>11. IF requests[Current].cmd = "pause" THEN at' = "pausing" ELSE at' = "polling"
  BY <1>2, <1>3
<1>12. ModeInv' /\ PlaceInv'
  BY ONLY <1>6, <1>8, <1>9, <1>10, <1>11 DEF ModeInv, PlaceInv
<1> QED BY ONLY <1>6, <1>12 DEF ControlInv

\* A step that moves the thread and nothing else.
LEMMA MoveStep ==
  ASSUME ControlInv, due = {} \/ at' = at,
         at' \in {"exited", at} \/ (at = "polling" /\ at' = "executing"),
         open' \in BOOLEAN,
         UNCHANGED <<requests, replies, due, frames, wire, rx, step_remaining,
                     until_active, running, state_op, pad_desired, pad_applied>>
  PROVE  ControlInv'
<1>1. UNCHANGED <<requests, replies, due, frames, wire, rx, step_remaining, until_active,
                  running, state_op, pad_desired, pad_applied>>
  OBVIOUS
<1>2. Dispatched' = Dispatched /\ Current' = Current
  BY <1>1 DEF Dispatched, Current
<1>3. at' \in Places
  BY DEF ControlInv, TypeInv, Places
<1>4. TypeInv' /\ QueueInv' /\ CountInv' /\ AnswersInOrder' /\ AnsweredAsAsked'
  BY <1>1, <1>2, <1>3
     DEF ControlInv, TypeInv, QueueInv, CountInv, AnswersInOrder, AnsweredAsAsked, Steps
<1>5. StepSeesPad' /\ pad_desired' = LastPad(Dispatched)'
  BY <1>1, <1>2 DEF ControlInv, StepSeesPad, Steps, LastPad
<1>6. running' = RunsAfter(Dispatched)'
  BY <1>1, <1>2 DEF ControlInv, ModeInv, RunsAfter
<1>8. \A k \in 1..Len(requests') : requests'[k].cmd = "state" => RunsAfter(k - 1)' = FALSE
  BY <1>1 DEF ControlInv, ModeInv, RunsAfter
<1>9. ModeInv'
  BY <1>1, <1>2, <1>6, <1>8 DEF ControlInv, ModeInv, Steps
<1>10. PlaceInv'
  BY <1>1 DEF ControlInv, PlaceInv
<1> QED BY ONLY <1>4, <1>5, <1>9, <1>10 DEF ControlInv

LEMMA SendStep ==
  ASSUME WellBehaved, ControlInv, NEW r \in Commands, Send(r)
  PROVE  ControlInv'
<1>1. /\ requests' = Append(requests, r) /\ wire' = Append(wire, Len(requests) + 1)
      /\ Len(requests) < MaxRequests
      /\ Len(rx) + Len(wire) + 1 < RxSize
      /\ r.cmd = "state" => ~Runs
      /\ UNCHANGED <<replies, due, frames, open, rx, at, step_remaining, until_active,
                     running, state_op, pad_desired, pad_applied>>
  <2>1. ~(Len(rx) + Len(wire) + 1 >= RxSize)
    BY DEF Send, WellBehaved
  <2>2. Len(rx) + Len(wire) + 1 < RxSize
    BY ONLY <2>1, Numbers, ControlAssumption
  <2> QED BY <2>2 DEF Send, WellBehaved, historyVars, serverVars
<1>2. TypeInv /\ QueueInv
  BY DEF ControlInv
<1>3. /\ Len(requests) \in Nat /\ Len(replies) \in Nat /\ Len(rx) \in Nat /\ Len(wire) \in Nat
      /\ Dispatched \in 0..Len(requests) /\ Current \in Nat /\ Current > 0
      /\ DOMAIN requests = 1..Len(requests) /\ DOMAIN replies = 1..Len(replies)
      /\ due = {} => Dispatched = Len(replies)
      /\ due # {} => Dispatched = Current /\ due = {Current} /\ Current \in 1..Len(requests)
  BY Numbers
<1>4. Dispatched' = Dispatched /\ Current' = Current
  BY <1>1 DEF Dispatched, Current
<1>5. \A n \in 0..Len(requests) :
        /\ RunsAfter(n)' = RunsAfter(n) /\ LastPad(n)' = LastPad(n)
        /\ n > 0 => requests'[n] = requests[n]
  BY <1>1, <1>2, EarlierRequests DEF TypeInv
<1>6. PICK n \in 0..Len(requests) : n = Dispatched
  BY <1>3
<1>7. running' = RunsAfter(Dispatched)' /\ pad_desired' = LastPad(Dispatched)'
  <2>1. RunsAfter(n)' = RunsAfter(n) /\ LastPad(n)' = LastPad(n)
    BY <1>5, <1>6
  <2>2. running' = RunsAfter(n) /\ pad_desired' = LastPad(n)
    BY <1>1, <1>6 DEF ControlInv, ModeInv
  <2>3. n = Dispatched'
    BY <1>4, <1>6
  <2> QED BY ONLY <2>1, <2>2, <2>3, Zenon DEF RunsAfter, LastPad
<1>8. requests' \in Seq(Commands) /\ Len(requests') = Len(requests) + 1
      /\ requests'[Len(requests) + 1] = r
  BY <1>1, <1>2 DEF TypeInv
<1>20. /\ Len(requests) < MaxRequests /\ Len(rx) + Len(wire) + 1 < RxSize
       /\ MaxRequests \in Nat /\ RxSize \in Nat
  BY <1>1, ControlAssumption
<1>21. wire \in Seq(Nat) /\ wire' = Append(wire, Len(requests) + 1)
  BY <1>1, <1>2 DEF TypeInv
<1>22. /\ Len(requests) \in Nat /\ Len(rx) \in Nat /\ Len(wire) \in Nat /\ Dispatched \in Nat
       /\ Dispatched <= Len(requests) /\ Len(requests') = Len(requests) + 1
       /\ Len(requests) + 1 \in Nat
  <2>1. /\ Len(requests) \in Nat /\ Len(rx) \in Nat /\ Len(wire) \in Nat
        /\ Dispatched \in 0..Len(requests) /\ Len(requests') = Len(requests) + 1
    BY ONLY <1>3, <1>8, Zenon
  <2> QED BY ONLY <2>1
<1>9. TypeInv'
  <2>1. Len(requests') <= MaxRequests
    BY ONLY <1>20, <1>22
  <2>2. wire' \in Seq(Nat)
    BY ONLY <1>21, <1>22
  <2> QED BY ONLY <1>1, <1>2, <1>8, <2>1, <2>2 DEF TypeInv
<1>10. QueueInv'
  <2>2. /\ Len(wire') = Len(wire) + 1 /\ wire'[Len(wire) + 1] = Len(requests) + 1
        /\ \A i \in 1..Len(wire) : wire'[i] = wire[i]
    <3> DEFINE e == Len(requests) + 1
    <3>1. e \in Nat /\ wire' = Append(wire, e) /\ wire \in Seq(Nat) /\ Len(wire) \in Nat
      BY <1>21, <1>22
    <3>2. /\ Len(wire') = Len(wire) + 1 /\ wire'[Len(wire) + 1] = e
          /\ \A i \in 1..Len(wire) : wire'[i] = wire[i]
      <4> HIDE DEF e
      <4> QED BY ONLY <3>1, AppendProperties
    <3> QED BY <3>2
  <2>3. /\ due = {} \/ due = {Current}
        /\ Len(rx) + Len(wire) = Len(requests) - Dispatched
        /\ \A i \in 1..Len(rx) : rx[i] = Dispatched + i
        /\ \A i \in 1..Len(wire) : wire[i] = Dispatched + Len(rx) + i
    BY <1>2 DEF QueueInv
  <2>4. Dispatched \in Nat
    BY <1>3
  <2>5. ASSUME NEW i \in 1..Len(wire')
        PROVE  wire'[i] = Dispatched + Len(rx) + i
    <3>1. CASE i \in 1..Len(wire)
      BY ONLY <2>2, <2>3, <3>1
    <3>2. CASE i = Len(wire) + 1
      <4>1. wire'[i] = Len(requests) + 1
        BY ONLY <2>2, <3>2
      <4>2. Len(requests) + 1 = Dispatched + Len(rx) + i
        <5>1. Len(rx) + Len(wire) = Len(requests) - Dispatched
          BY <2>3
        <5> QED BY ONLY <1>22, <5>1, <3>2
      <4> QED BY ONLY <4>1, <4>2
    <3>3. i \in 1..Len(wire) \/ i = Len(wire) + 1
      <4>1. Len(wire') = Len(wire) + 1 /\ Len(wire) \in Nat
        BY <1>3, <2>2
      <4> QED BY ONLY <4>1, i \in 1..Len(wire')
    <3> QED BY <3>1, <3>2, <3>3
  <2>6. /\ Len(rx) + Len(wire') = Len(requests') - Dispatched
        /\ Len(rx) + Len(wire') < RxSize
    <3>1. Len(rx) + Len(wire) = Len(requests) - Dispatched
      BY <2>3
    <3>2. Len(wire') = Len(wire) + 1 /\ Len(requests') = Len(requests) + 1
      BY <1>8, <2>2
    <3>3. Len(requests) \in Nat /\ Len(rx) \in Nat /\ Len(wire) \in Nat
      BY <1>3
    <3> QED BY ONLY <1>20, <2>4, <3>1, <3>2, <3>3
  <2>7. rx' = rx /\ due' = due
    BY <1>1
  <2> QED BY ONLY <1>4, <2>3, <2>5, <2>6, <2>7 DEF QueueInv
<1>11. due # {} => requests'[Current'] = requests[Current]
  BY <1>3, <1>4, <1>5
<1>12. CountInv'
  BY <1>1, <1>4, <1>11 DEF ControlInv, CountInv, Steps
<1>13. AnswersInOrder'
  BY <1>1 DEF ControlInv, AnswersInOrder
<1>14. AnsweredAsAsked'
  <2> SUFFICES ASSUME NEW k \in DOMAIN replies
               PROVE  requests'[replies[k].to] = requests[replies[k].to]
    BY <1>1, Zenon DEF ControlInv, AnsweredAsAsked, Steps
  <2>1. replies[k].to = k
    BY DEF ControlInv, AnswersInOrder
  <2>2. k \in 1..Len(requests)
    <3>1. Dispatched <= Len(requests) /\ Len(replies) <= Dispatched
      <4>1. Dispatched = Len(replies) \/ Dispatched = Len(replies) + 1
        BY DEF Dispatched
      <4>2. Len(replies) \in Nat
        BY <1>3
      <4> QED BY ONLY <1>22, <4>1, <4>2
    <3>2. k \in 1..Len(replies)
      BY <1>3
    <3>3. Len(requests) \in Nat /\ Len(replies) \in Nat /\ Dispatched \in Nat
      BY <1>3
    <3> QED BY ONLY <3>1, <3>2, <3>3
  <2> QED BY <1>1, <1>2, <2>1, <2>2 DEF TypeInv
<1>15. StepSeesPad'
  <2>1. CASE due = {}
    BY <1>1, <2>1 DEF StepSeesPad
  <2>2. CASE due # {}
    <3>1. PICK c \in 0..Len(requests) : c = Current /\ c > 0
      BY <1>3, <2>2
    <3>2. LastPad(c)' = LastPad(c) /\ requests'[c] = requests[c] /\ due' = {c} /\ c \in due
      BY <1>1, <1>3, <1>5, <2>2, <3>1
    <3>3. Steps(requests[c]) /\ frames[c] > 0 => pad_applied = LastPad(c)
      BY <3>2 DEF ControlInv, StepSeesPad
    <3>4. frames' = frames /\ pad_applied' = pad_applied
      BY <1>1
    <3>5. Steps(requests'[c]) /\ frames'[c] > 0 => pad_applied' = LastPad(c)'
      BY ONLY <3>2, <3>3, <3>4, Zenon
    <3> HIDE <3>1
    <3> QED BY ONLY <3>2, <3>5 DEF StepSeesPad, Steps, LastPad
  <2> QED BY <2>1, <2>2
<1>16. ASSUME NEW k \in 1..Len(requests'), requests'[k].cmd = "state"
       PROVE  RunsAfter(k - 1)' = FALSE
  <2>00. Len(requests') = Len(requests) + 1 /\ Len(requests) \in Nat
    BY <1>3, <1>8
  <2>0. k - 1 \in 0..Len(requests) /\ (k \in 1..Len(requests) \/ k = Len(requests) + 1)
    BY ONLY <2>00, k \in 1..Len(requests')
  <2>1. RunsAfter(k - 1)' = RunsAfter(k - 1)
    BY <1>5, <2>0
  <2>2. CASE k \in 1..Len(requests)
    <3>1. requests'[k] = requests[k]
      BY <1>1, <1>2, <2>2 DEF TypeInv
    <3>2. RunsAfter(k - 1) = FALSE
      BY <1>16, <2>2, <3>1 DEF ControlInv, ModeInv
    <3> QED BY ONLY <2>1, <3>2
  <2>3. CASE k = Len(requests) + 1
    <3>1. k - 1 = Len(requests)
      BY ONLY <2>00, <2>3
    <3>2. ~Runs
      BY <1>1, <1>8, <1>16, <2>3
    <3>3. RunsAfter(Len(requests)) = FALSE
      BY <1>3, <3>2 DEF Runs, RunsAfter
    <3> QED BY ONLY <2>1, <3>1, <3>3
  <2> QED BY ONLY <2>0, <2>2, <2>3
<1>17. ModeInv'
  BY <1>1, <1>4, <1>7, <1>11, <1>16 DEF ControlInv, ModeInv, Steps
<1>18. PlaceInv'
  BY <1>1 DEF ControlInv, PlaceInv
<1> QED BY ONLY <1>7, <1>9, <1>10, <1>12, <1>13, <1>14, <1>15, <1>17, <1>18 DEF ControlInv

\* Everything on the wire has been read into rx.
LEMMA Received ==
  ASSUME ControlInv, rx' = rx \o wire, wire' = <<>>, UNCHANGED <<requests, replies, due>>
  PROVE  QueueInv' /\ rx' \in Seq(Nat) /\ wire' \in Seq(Nat)
<1>1. rx \in Seq(Nat) /\ wire \in Seq(Nat)
  BY DEF ControlInv, TypeInv
<1>2. /\ Len(rx) \in Nat /\ Len(wire) \in Nat /\ Dispatched \in Nat /\ Len(requests) \in Nat
  BY Numbers
<1>3. Dispatched' = Dispatched /\ Current' = Current
  BY DEF Dispatched, Current
<1>4. /\ due = {} \/ due = {Current}
      /\ Len(rx) + Len(wire) = Len(requests) - Dispatched
      /\ \A i \in 1..Len(rx) : rx[i] = Dispatched + i
      /\ \A i \in 1..Len(wire) : wire[i] = Dispatched + Len(rx) + i
      /\ Len(rx) + Len(wire) < RxSize
  BY DEF ControlInv, QueueInv
<1>5. /\ rx' \in Seq(Nat) /\ Len(rx') = Len(rx) + Len(wire)
      /\ \A i \in 1..Len(rx) : rx'[i] = rx[i]
      /\ \A i \in 1..Len(wire) : rx'[Len(rx) + i] = wire[i]
  <2>1. rx' = rx \o wire
    OBVIOUS
  <2> QED BY ONLY <1>1, <1>2, <2>1
<1>6. ASSUME NEW i \in 1..(Len(rx) + Len(wire))
      PROVE  rx'[i] = Dispatched + i
  <2>1. CASE i \in 1..Len(rx)
    BY ONLY <1>4, <1>5, <2>1
  <2>2. CASE i \notin 1..Len(rx)
    <3>1. PICK j \in 1..Len(wire) : i = Len(rx) + j
      <4>1. i - Len(rx) \in 1..Len(wire) /\ i = Len(rx) + (i - Len(rx))
        BY ONLY <1>2, <2>2, i \in 1..(Len(rx) + Len(wire))
      <4> QED BY <4>1
    <3>2. rx'[Len(rx) + j] = Dispatched + Len(rx) + j
      BY ONLY <1>4, <1>5, j \in 1..Len(wire)
    <3>3. Dispatched + Len(rx) + j = Dispatched + i
      BY ONLY <1>2, <3>1, j \in 1..Len(wire)
    <3> QED BY ONLY <3>1, <3>2, <3>3
  <2> QED BY <2>1, <2>2
<1>7. Len(wire') = 0 /\ wire' \in Seq(Nat)
  OBVIOUS
<1>8. /\ Len(rx') + Len(wire') = Len(rx) + Len(wire)
      /\ 1..Len(wire') = {}
  BY ONLY <1>2, <1>5, <1>7
<1>9. requests' = requests /\ due' = due
  OBVIOUS
<1>10. QueueInv'
  BY ONLY <1>3, <1>4, <1>5, <1>6, <1>8, <1>9 DEF QueueInv
<1> QED BY <1>5, <1>7, <1>10

LEMMA RecvStep ==
  ASSUME ControlInv, Recv
  PROVE  ControlInv'
<1>1. /\ rx = <<>> /\ rx' = SubSeq(wire, 1, Min({Len(wire), RxSize}))
      /\ wire' = SubSeq(wire, Min({Len(wire), RxSize}) + 1, Len(wire))
      /\ UNCHANGED <<requests, open, replies, due, frames, at, step_remaining, until_active,
                     running, state_op, pad_desired, pad_applied>>
  BY DEF Recv, clientVars, historyVars, serverVars
<1>2. wire \in Seq(Nat) /\ Len(wire) \in Nat /\ RxSize \in Nat
  BY ControlAssumption DEF ControlInv, TypeInv
<1>3. Len(wire) < RxSize
  <2>1. Len(rx) + Len(wire) < RxSize
    BY DEF ControlInv, QueueInv
  <2>2. Len(rx) = 0
    BY <1>1
  <2> QED BY ONLY <1>2, <2>1, <2>2
<1>4. Min({Len(wire), RxSize}) = Len(wire)
  <2> DEFINE S == {Len(wire), RxSize}
  <2>1. S \in SUBSET Nat /\ S # {} /\ Len(wire) \in S /\ \A x \in S : x = Len(wire) \/ x = RxSize
    BY <1>2
  <2> HIDE DEF S
  <2>2. Min(S) \in S /\ \A x \in S : Min(S) <= x
    BY ONLY <2>1, MinOfNaturals
  <2>3. Min(S) = Len(wire)
    <3>1. Min(S) <= Len(wire) /\ (Min(S) = Len(wire) \/ Min(S) = RxSize)
      BY ONLY <2>1, <2>2, Zenon
    <3> QED BY ONLY <1>2, <1>3, <3>1
  <2> QED BY <2>3 DEF S
<1>5. rx' = rx \o wire /\ wire' = <<>>
  <2>1. rx' = SubSeq(wire, 1, Len(wire)) /\ wire' = SubSeq(wire, Len(wire) + 1, Len(wire))
    BY ONLY <1>1, <1>4, Zenon
  <2>2. SubSeq(wire, 1, Len(wire)) = wire /\ SubSeq(wire, Len(wire) + 1, Len(wire)) = <<>>
    BY ONLY <1>2
  <2>3. <<>> \o wire = wire
    BY ONLY <1>2
  <2> QED BY ONLY <1>1, <2>1, <2>2, <2>3, Zenon
<1>6. QueueInv' /\ rx' \in Seq(Nat) /\ wire' \in Seq(Nat)
  BY <1>1, <1>5, Received
<1>7. Dispatched' = Dispatched /\ Current' = Current
  BY <1>1 DEF Dispatched, Current
<1>8. TypeInv'
  BY <1>1, <1>6 DEF ControlInv, TypeInv
<1>9. CountInv' /\ AnswersInOrder' /\ AnsweredAsAsked'
  BY <1>1, <1>7 DEF ControlInv, CountInv, AnswersInOrder, AnsweredAsAsked, Steps
<1>10. StepSeesPad' /\ pad_desired' = LastPad(Dispatched)'
  BY <1>1, <1>7 DEF ControlInv, StepSeesPad, Steps, LastPad
<1>11. running' = RunsAfter(Dispatched)'
  BY <1>1, <1>7 DEF ControlInv, ModeInv, RunsAfter
<1>12. \A k \in 1..Len(requests') : requests'[k].cmd = "state" => RunsAfter(k - 1)' = FALSE
  BY <1>1 DEF ControlInv, ModeInv, RunsAfter
<1>13. ModeInv'
  BY <1>1, <1>7, <1>11, <1>12 DEF ControlInv, ModeInv, Steps
<1>14. PlaceInv'
  BY <1>1 DEF ControlInv, PlaceInv
<1> QED BY ONLY <1>6, <1>8, <1>9, <1>10, <1>13, <1>14 DEF ControlInv

\* What no boundary changes.
LEMMA SameProgress ==
  ASSUME ControlInv, UNCHANGED <<requests, running, pad_desired>>, Dispatched' = Dispatched
  PROVE  /\ running' = RunsAfter(Dispatched)' /\ pad_desired' = LastPad(Dispatched)'
         /\ \A k \in 1..Len(requests') : requests'[k].cmd = "state" => RunsAfter(k - 1)' = FALSE
         /\ pad_applied' = pad_desired /\ due' \subseteq due => StepSeesPad'
<1>1. running' = RunsAfter(Dispatched)'
  BY DEF ControlInv, ModeInv, RunsAfter
<1>2. pad_desired' = LastPad(Dispatched)'
  BY DEF ControlInv, LastPad
<1>3. \A k \in 1..Len(requests') : requests'[k].cmd = "state" => RunsAfter(k - 1)' = FALSE
  BY DEF ControlInv, ModeInv, RunsAfter
<1>4. ASSUME pad_applied' = pad_desired, due' \subseteq due
      PROVE  StepSeesPad'
  <2>1. due # {} => due = {Dispatched}
    BY Numbers
  <2>2. \A id \in due' : id = Dispatched'
    BY <1>4, <2>1
  <2>3. pad_applied' = LastPad(Dispatched)'
    BY <1>2, <1>4
  <2> QED BY <2>2, <2>3, Zenon DEF StepSeesPad, LastPad, Steps
<1> QED BY <1>1, <1>2, <1>3, <1>4

\* Counted frames, the bound of the count aside.
LEMMA CountedFrames ==
  ASSUME ControlInv, NEW e \in Elapsed, CountFrames(e)
  PROVE  /\ frames' \in [Ids -> 0..MaxFrames]
         /\ \A id \in Ids : id \notin due => frames'[id] = frames[id]
         /\ \A id \in Ids : id \in due /\ frames[id] + e <= MaxFrames => frames'[id] = frames[id] + e
<1>1. frames \in [Ids -> 0..MaxFrames]
  BY DEF ControlInv, TypeInv
<1>2. e \in Nat /\ MaxFrames \in Nat
  BY BoundFacts
<1>3. frames' = [id \in Ids |->
                   IF id \in due THEN Min({frames[id] + e, MaxFrames}) ELSE frames[id]]
  BY DEF CountFrames
<1>4. ASSUME NEW n \in 0..MaxFrames
      PROVE  /\ Min({n + e, MaxFrames}) \in 0..MaxFrames
             /\ n + e <= MaxFrames => Min({n + e, MaxFrames}) = n + e
  <2> DEFINE S == {n + e, MaxFrames}
             m == Min(S)
  <2>1. S \in SUBSET Nat /\ S # {} /\ n + e \in S /\ MaxFrames \in S
        /\ \A x \in S : x = n + e \/ x = MaxFrames
    BY <1>2
  <2> HIDE DEF S
  <2>2. m \in S /\ \A x \in S : m <= x
    BY ONLY <2>1, MinOfNaturals
  <2>3. m \in Nat /\ m <= n + e /\ m <= MaxFrames /\ (m = n + e \/ m = MaxFrames)
    BY ONLY <2>1, <2>2, Zenon
  <2> HIDE DEF m
  <2>4. m \in 0..MaxFrames /\ (n + e <= MaxFrames => m = n + e)
    BY ONLY <1>2, <2>3, n \in 0..MaxFrames
  <2> QED BY <2>4 DEF m, S
<1>5. ASSUME NEW id \in Ids
      PROVE  /\ frames'[id] \in 0..MaxFrames
             /\ id \notin due => frames'[id] = frames[id]
             /\ id \in due /\ frames[id] + e <= MaxFrames => frames'[id] = frames[id] + e
  <2>1. frames[id] \in 0..MaxFrames
    BY <1>1
  <2>2. /\ Min({frames[id] + e, MaxFrames}) \in 0..MaxFrames
        /\ frames[id] + e <= MaxFrames => Min({frames[id] + e, MaxFrames}) = frames[id] + e
    BY <1>4, <2>1
  <2>3. frames'[id] = IF id \in due THEN Min({frames[id] + e, MaxFrames}) ELSE frames[id]
    BY ONLY <1>3, id \in Ids, Zenon
  <2> HIDE DEF Ids
  <2> QED BY ONLY <2>1, <2>2, <2>3
<1>6. frames' \in [Ids -> 0..MaxFrames]
  <2>1. frames' = [id \in Ids |-> frames'[id]]
    BY <1>3
  <2> QED BY ONLY <1>5, <2>1
<1> QED BY <1>5, <1>6

LEMMA InstructionStep ==
  ASSUME ControlInv, InstructionBoundary
  PROVE  ControlInv'
<1>1. /\ at \in {"executing", "synced"} /\ state_op = TRUE /\ state_op' = FALSE /\ frames' = frames
      /\ \E ok \in BOOLEAN : Reply(DueState, ok)
      /\ at' = IF GoesOn THEN "executing" ELSE "held"
      /\ UNCHANGED <<requests, open, wire, rx, step_remaining, until_active, running,
                     pad_desired, pad_applied>>
  BY DEF InstructionBoundary, clientVars, ControlInv, TypeInv
<1>2. /\ due = {Current} /\ requests[Current].cmd = "state" /\ running = FALSE
      /\ step_remaining = 0 /\ until_active = FALSE
  BY <1>1 DEF ControlInv, ModeInv, QueueInv
<1>3. Current \in Ids /\ ~Steps(requests[Current])
  BY <1>2, Numbers DEF Steps
<1>4. DueState = Current
  BY <1>2 DEF DueState
<1>5. PICK ok \in BOOLEAN :
        replies' = Append(replies, [to |-> Current, ok |-> ok, frames |-> frames[Current]])
  BY <1>1, <1>4 DEF Reply
<1>6. due' = {}
  BY <1>1, <1>2, <1>4 DEF Reply
<1>7. /\ replies' \in Seq([to : Ids, ok : BOOLEAN, frames : 0..MaxFrames])
      /\ Len(replies') = Len(replies) + 1
      /\ AnswersInOrder' /\ AnsweredAsAsked'
  <2>1. frames[Current] \in 0..MaxFrames
    BY <1>3 DEF ControlInv, TypeInv
  <2> QED BY <1>1, <1>3, <1>5, <2>1, OneMoreReply
<1>8. Dispatched' = Dispatched
  BY <1>2, <1>6, <1>7 DEF Dispatched
<1>9. /\ running' = RunsAfter(Dispatched)' /\ pad_desired' = LastPad(Dispatched)'
      /\ \A k \in 1..Len(requests') : requests'[k].cmd = "state" => RunsAfter(k - 1)' = FALSE
  BY <1>1, <1>8, SameProgress
<1>10. at' = "held"
  BY <1>1, <1>2 DEF GoesOn
<1>11. TypeInv'
  BY <1>1, <1>7, <1>10 DEF ControlInv, TypeInv, Places
<1>12. QueueInv'
  BY <1>1, <1>6, <1>8 DEF ControlInv, QueueInv
<1>13. ModeInv' /\ PlaceInv'
  BY ONLY <1>1, <1>2, <1>6, <1>9, <1>10 DEF ModeInv, PlaceInv
<1>14. CountInv'
  BY <1>1, <1>6, <1>8 DEF ControlInv, CountInv
<1>15. StepSeesPad'
  BY <1>6 DEF StepSeesPad
<1> QED BY ONLY <1>7, <1>9, <1>11, <1>12, <1>13, <1>14, <1>15 DEF ControlInv

\* What a boundary keeps that leaves requests, replies and modes alone.
LEMMA IdleBoundary ==
  ASSUME ControlInv, NEW e \in Elapsed, CountFrames(e), pad_applied' = pad_desired,
         due = {} \/ ~Steps(requests[Current]),
         UNCHANGED <<requests, open, replies, due, step_remaining, until_active, running,
                     state_op, pad_desired>>,
         QueueInv', PlaceInv', at' \in Places, wire' \in Seq(Nat), rx' \in Seq(Nat),
         due # {} => at' = "executing"
  PROVE  ControlInv'
<1>1. Dispatched' = Dispatched /\ Current' = Current
  BY DEF Dispatched, Current
<1>2. /\ running' = RunsAfter(Dispatched)' /\ pad_desired' = LastPad(Dispatched)'
      /\ \A k \in 1..Len(requests') : requests'[k].cmd = "state" => RunsAfter(k - 1)' = FALSE
      /\ StepSeesPad'
  BY <1>1, SameProgress
<1>3. /\ frames' \in [Ids -> 0..MaxFrames]
      /\ \A id \in Ids : id \notin due => frames'[id] = frames[id]
  BY CountedFrames
<1>4. TypeInv'
  BY <1>3 DEF ControlInv, TypeInv
<1>5. AnswersInOrder' /\ AnsweredAsAsked'
  BY DEF ControlInv, AnswersInOrder, AnsweredAsAsked, Steps
<1>6. CountInv'
  <2>1. ASSUME NEW id \in Ids, id > Dispatched
        PROVE  frames'[id] = 0
    <3>1. id \notin due
      BY <2>1, Numbers
    <3> QED BY <1>3, <2>1, <3>1 DEF ControlInv, CountInv
  <2> QED BY <1>1, <2>1 DEF CountInv, Steps
<1>7. ModeInv'
  <2>1. CASE due = {}
    BY <1>1, <1>2, <2>1 DEF ControlInv, ModeInv
  <2>2. CASE due # {}
    BY <1>1, <1>2, <2>2 DEF ControlInv, ModeInv, Steps
  <2> QED BY <2>1, <2>2
<1> QED BY ONLY <1>2, <1>4, <1>5, <1>6, <1>7, QueueInv', PlaceInv' DEF ControlInv

LEMMA StepInProgress ==
  ASSUME ControlInv, NEW e \in Elapsed, CountFrames(e), pad_applied' = pad_desired,
         state_op = FALSE, step_remaining > 0, NEW matched \in BOOLEAN,
         StepBoundary(e, matched), UNCHANGED <<requests, open>>
  PROVE  ControlInv'
<1>1. /\ due = {Current} /\ Steps(requests[Current]) /\ running = FALSE /\ at = "executing"
      /\ until_active = (requests[Current].cmd = "step_until")
  BY DEF ControlInv, ModeInv, QueueInv
<1>2. /\ Current \in Ids /\ Current \in 1..Len(requests) /\ Dispatched = Current
      /\ Len(replies) \in Nat /\ Current = Len(replies) + 1
  BY <1>1, Numbers DEF Current
<1> DEFINE r == requests[Current]
           n == frames[Current]
           m == frames'[Current]
<1>3. /\ r \in Commands /\ r.cmd \in {"step", "step_until"} /\ r.arg \in StepCounts
      /\ r.arg \in Nat
  <2>1. r \in Commands
    BY <1>2 DEF ControlInv, TypeInv
  <2> QED BY <1>1, <2>1, CommandFacts DEF Steps
<1>4. n \in Nat /\ step_remaining \in Nat /\ n + step_remaining = r.arg
  <2>1. n \in 0..MaxFrames /\ step_remaining \in Nat
    BY <1>2 DEF ControlInv, TypeInv
  <2>2. n + step_remaining = r.arg
    BY <1>1 DEF ControlInv, CountInv
  <2>3. n \in Nat
    BY <2>1, BoundFacts
  <2> QED BY <2>1, <2>2, <2>3
<1>5. /\ e \in Nat /\ e <= Max(Elapsed) /\ Min(Elapsed) <= e /\ r.arg <= Max(StepCounts)
      /\ Max(Elapsed) \in Nat /\ Min(Elapsed) \in Nat /\ Max(StepCounts) \in Nat
      /\ MaxFrames = Max(StepCounts) + 2 * Max(Elapsed)
  BY <1>3, BoundFacts DEF MaxFrames
<1>6. /\ frames' \in [Ids -> 0..MaxFrames]
      /\ \A id \in Ids : id \notin due => frames'[id] = frames[id]
      /\ m = n + e
  <2>1. n + e <= MaxFrames
    <3> HIDE DEF n, r
    <3> QED BY ONLY <1>4, <1>5, step_remaining > 0
  <2> QED BY <1>1, <1>2, <2>1, CountedFrames
<1>7. /\ wire' = wire /\ rx' = rx /\ running' = running /\ state_op' = state_op
      /\ pad_desired' = pad_desired
      /\ matched => until_active
      /\ IF StepEnds(e, matched)
         THEN /\ step_remaining' = 0 /\ until_active' = FALSE
              /\ Reply(DueStep, TRUE)
              /\ at' = "pausing"
         ELSE /\ step_remaining' = step_remaining - e
              /\ at' = "executing"
              /\ UNCHANGED <<until_active, replies, due>>
  BY DEF StepBoundary, Cleared, Left
<1>8. DueStep = Current
  BY <1>1 DEF DueStep
<1> HIDE DEF n, m
<1>9. CASE StepEnds(e, matched)
  <2>1. /\ step_remaining' = 0 /\ until_active' = FALSE /\ at' = "pausing" /\ due' = {}
        /\ replies' = Append(replies, [to |-> Current, ok |-> TRUE, frames |-> m])
    BY <1>1, <1>7, <1>8, <1>9 DEF Reply, m
  <2>2. m < r.arg + Max(Elapsed)
    <3> HIDE DEF r
    <3> QED BY ONLY <1>4, <1>5, <1>6, step_remaining > 0
  <2>3. m >= IF r.cmd = "step" THEN r.arg ELSE Min(Elapsed)
    <3>1. CASE r.cmd = "step"
      <4>1. ~matched
        BY <1>1, <1>7, <3>1
      <4>2. step_remaining - e <= 0
        BY <1>9, <4>1 DEF StepEnds, Left
      <4>3. m >= r.arg
        <5> HIDE DEF r
        <5> QED BY ONLY <1>4, <1>5, <1>6, <4>2
      <4> QED BY <3>1, <4>3
    <3>2. CASE r.cmd # "step"
      <4>1. m >= Min(Elapsed)
        BY ONLY <1>4, <1>5, <1>6
      <4> QED BY <3>2, <4>1
    <3> QED BY <3>1, <3>2
  <2>4. /\ replies' \in Seq([to : Ids, ok : BOOLEAN, frames : 0..MaxFrames])
        /\ Len(replies') = Len(replies) + 1
        /\ AnswersInOrder' /\ AnsweredAsAsked'
    <3>1. m \in 0..MaxFrames
      BY <1>2, <1>6 DEF m
    <3> QED BY <1>2, <2>1, <2>2, <2>3, <3>1, OneMoreReply
  <2>5. Dispatched' = Dispatched
    BY <1>1, <1>2, <2>1, <2>4 DEF Dispatched
  <2>6. /\ running' = RunsAfter(Dispatched)' /\ pad_desired' = LastPad(Dispatched)'
        /\ \A k \in 1..Len(requests') : requests'[k].cmd = "state" => RunsAfter(k - 1)' = FALSE
    BY <1>7, <2>5, SameProgress
  <2>7. TypeInv'
    BY <1>6, <1>7, <2>1, <2>4 DEF ControlInv, TypeInv, Places
  <2>8. QueueInv'
    BY <1>7, <2>1, <2>5 DEF ControlInv, QueueInv
  <2>9. ModeInv' /\ PlaceInv'
    BY <1>1, <1>7, <2>1, <2>6 DEF ModeInv, PlaceInv
  <2>10. CountInv'
    <3>1. ASSUME NEW id \in Ids, id > Dispatched
          PROVE  frames'[id] = 0
      <4>1. id \notin due
        BY <1>1, <1>2, <3>1
      <4> QED BY <1>6, <3>1, <4>1 DEF ControlInv, CountInv
    <3> QED BY <2>1, <2>5, <3>1 DEF CountInv
  <2>11. StepSeesPad'
    BY <2>1 DEF StepSeesPad
  <2> QED BY ONLY <2>4, <2>6, <2>7, <2>8, <2>9, <2>10, <2>11 DEF ControlInv
<1>10. CASE ~StepEnds(e, matched)
  <2>1. /\ step_remaining' = step_remaining - e /\ at' = "executing"
        /\ UNCHANGED <<until_active, replies, due>>
    BY <1>7, <1>10
  <2>2. Dispatched' = Dispatched /\ Current' = Current
    BY <2>1 DEF Dispatched, Current
  <2>3. step_remaining' \in Nat /\ step_remaining' > 0 /\ m + step_remaining' = r.arg
    <3>1. ~(step_remaining - e <= 0)
      BY <1>10 DEF StepEnds, Left
    <3>2. step_remaining' = step_remaining - e
      BY <2>1
    <3> HIDE DEF r
    <3> QED BY ONLY <1>4, <1>5, <1>6, <3>1, <3>2
  <2>4. /\ running' = RunsAfter(Dispatched)' /\ pad_desired' = LastPad(Dispatched)'
        /\ \A k \in 1..Len(requests') : requests'[k].cmd = "state" => RunsAfter(k - 1)' = FALSE
        /\ StepSeesPad'
    BY <1>7, <2>1, <2>2, SameProgress
  <2>5. TypeInv'
    BY <1>6, <1>7, <2>1, <2>3 DEF ControlInv, TypeInv, Places
  <2>6. QueueInv'
    BY <1>7, <2>1, <2>2 DEF ControlInv, QueueInv
  <2>7. AnswersInOrder' /\ AnsweredAsAsked'
    BY <2>1 DEF ControlInv, AnswersInOrder, AnsweredAsAsked, Steps
  <2>8. ModeInv' /\ PlaceInv'
    BY <1>1, <1>7, <2>1, <2>2, <2>3, <2>4 DEF ModeInv, PlaceInv, Steps
  <2>9. CountInv'
    <3>1. ASSUME NEW id \in Ids, id > Dispatched
          PROVE  frames'[id] = 0
      <4>1. id \notin due
        BY <1>1, <1>2, <3>1
      <4> QED BY <1>6, <3>1, <4>1 DEF ControlInv, CountInv
    <3>2. frames'[Current'] + step_remaining' = requests'[Current'].arg
      BY <2>2, <2>3 DEF m
    <3> QED BY <2>2, <3>1, <3>2 DEF CountInv
  <2> QED BY ONLY <2>4, <2>5, <2>6, <2>7, <2>8, <2>9 DEF ControlInv
<1> QED BY <1>9, <1>10

LEMMA FrameStep ==
  ASSUME ControlInv, NEW e \in Elapsed, FrameBoundary(e)
  PROVE  ControlInv'
<1>1. /\ at \in {"booting", "executing"} /\ CountFrames(e) /\ pad_applied' = pad_desired
      /\ UNCHANGED <<requests, open>>
      /\ \/ state_op /\ at' = "executing" /\ Idle /\ UNCHANGED <<wire, rx>>
         \/ ~state_op /\ step_remaining > 0 /\ \E matched \in BOOLEAN : StepBoundary(e, matched)
         \/ ~state_op /\ step_remaining <= 0 /\ running /\ Poll /\ Idle
         \/ /\ ~state_op /\ step_remaining <= 0 /\ ~running
            /\ at' = "pausing" /\ Idle /\ UNCHANGED <<wire, rx>>
  BY DEF FrameBoundary, clientVars, AppliedPad
<1>2. /\ state_op \in BOOLEAN /\ running \in BOOLEAN /\ step_remaining \in Nat
      /\ rx \in Seq(Nat) /\ wire \in Seq(Nat)
  BY DEF ControlInv, TypeInv
<1>3. Idle => UNCHANGED <<replies, due, step_remaining, until_active, running, state_op, pad_desired>>
  BY DEF Idle, serverVars
<1>4. step_remaining > 0 \/ step_remaining = 0
  BY <1>2
<1>5. ASSUME UNCHANGED <<requests, wire, rx, replies, due>>
      PROVE  QueueInv' /\ wire' \in Seq(Nat) /\ rx' \in Seq(Nat)
  <2>1. Dispatched' = Dispatched /\ Current' = Current
    BY <1>5 DEF Dispatched, Current
  <2> QED BY <1>2, <1>5, <2>1 DEF ControlInv, QueueInv
<1>6. CASE state_op /\ at' = "executing" /\ Idle /\ UNCHANGED <<wire, rx>>
  <2>1. due # {} /\ requests[Current].cmd = "state"
    BY <1>6 DEF ControlInv, ModeInv
  <2>2. ~Steps(requests[Current])
    BY <2>1 DEF Steps
  <2>3. PlaceInv' /\ at' \in Places
    BY <1>3, <1>6, <2>1 DEF PlaceInv, Places
  <2> QED BY <1>1, <1>3, <1>5, <1>6, <2>1, <2>2, <2>3, IdleBoundary
<1>7. CASE ~state_op /\ step_remaining > 0 /\ \E matched \in BOOLEAN : StepBoundary(e, matched)
  <2>1. PICK matched \in BOOLEAN : StepBoundary(e, matched)
    BY <1>7
  <2>2. state_op = FALSE
    BY <1>2, <1>7
  <2> QED BY <1>1, <1>7, <2>1, <2>2, StepInProgress
<1>8. CASE ~state_op /\ step_remaining <= 0 /\ running /\ Poll /\ Idle
  <2>1. due = {} /\ running = TRUE
    BY <1>2, <1>8 DEF ControlInv, ModeInv
  <2>2. Len(rx) + Len(wire) < RxSize /\ Len(rx) \in Nat /\ Len(wire) \in Nat /\ RxSize \in Nat
    BY Numbers, ControlAssumption DEF ControlInv, QueueInv
  <2>3. ~(Len(wire) >= RxSize - Len(rx))
    BY ONLY <2>2
  <2>4. rx' = rx \o wire /\ wire' = SubSeq(wire, Len(wire) + 1, Len(wire))
        /\ at' \in {"exited", "polling"}
    BY <1>8, <2>3 DEF Poll
  <2>5. wire' = <<>>
    <3>1. SubSeq(wire, Len(wire) + 1, Len(wire)) = <<>>
      BY ONLY <1>2, <2>2
    <3> QED BY ONLY <2>4, <3>1
  <2>6. QueueInv' /\ rx' \in Seq(Nat) /\ wire' \in Seq(Nat)
    BY <1>1, <1>3, <1>8, <2>4, <2>5, Received
  <2>7. PlaceInv' /\ at' \in Places
    BY <1>3, <1>8, <2>1, <2>4 DEF PlaceInv, Places
  <2> QED BY <1>1, <1>3, <1>8, <2>1, <2>6, <2>7, IdleBoundary
<1>9. CASE /\ ~state_op /\ step_remaining <= 0 /\ ~running
           /\ at' = "pausing" /\ Idle /\ UNCHANGED <<wire, rx>>
  <2>1. due = {}
    <3>1. ~(step_remaining > 0) /\ state_op = FALSE
      BY <1>2, <1>9
    <3> QED BY <3>1 DEF ControlInv, ModeInv
  <2>2. running = FALSE
    BY <1>2, <1>9
  <2>3. PlaceInv' /\ at' \in Places
    BY <1>3, <1>9, <2>2 DEF PlaceInv, Places
  <2> QED BY <1>1, <1>3, <1>5, <1>9, <2>1, <2>3, IdleBoundary
<1> QED BY <1>1, <1>6, <1>7, <1>8, <1>9

LEMMA ControlStep ==
  ASSUME WellBehaved, ControlInv, [Next]_vars
  PROVE  ControlInv'
<1>1. CASE \E r \in Commands : Send(r)
  BY <1>1, SendStep
<1>2. CASE HangUp
  <2>1. at' = at /\ open' = FALSE
        /\ UNCHANGED <<requests, replies, due, frames, wire, rx, step_remaining,
                     until_active, running, state_op, pad_desired, pad_applied>>
    BY <1>2 DEF HangUp, historyVars, serverVars
  <2>2. at' \in {"exited", at} /\ open' \in BOOLEAN
    BY <2>1
  <2> QED BY ONLY ControlInv, <2>1, <2>2, MoveStep
<1>3. CASE Recv
  BY <1>3, RecvStep
<1>4. CASE PauseLine
  BY <1>4, PauseLineStep
<1>5. CASE Disconnected
  <2>1. at \in {"pausing", "held"} /\ at' = "exited" /\ open' = open
        /\ UNCHANGED <<requests, replies, due, frames, wire, rx, step_remaining,
                     until_active, running, state_op, pad_desired, pad_applied>>
    BY <1>5 DEF Disconnected, InPauseLoop, clientVars, historyVars, serverVars
  <2>2. due = {} /\ open' \in BOOLEAN /\ at' \in {"exited", at}
    BY <2>1 DEF ControlInv, ModeInv, TypeInv
  <2> QED BY ONLY ControlInv, <2>1, <2>2, MoveStep
<1>6. CASE PollLine
  BY <1>6, PollLineStep
<1>7. CASE PollDone
  <2>1. at = "polling" /\ at' = "executing" /\ open' = open
        /\ UNCHANGED <<requests, replies, due, frames, wire, rx, step_remaining,
                     until_active, running, state_op, pad_desired, pad_applied>>
    BY <1>7 DEF PollDone, clientVars, historyVars, serverVars
  <2>2. due = {} /\ open' \in BOOLEAN
    BY <2>1 DEF ControlInv, ModeInv, TypeInv
  <2> QED BY <2>1, <2>2, MoveStep
<1>8. CASE \E e \in Elapsed : FrameBoundary(e)
  BY <1>8, FrameStep
<1>9. CASE InstructionBoundary
  BY <1>9, InstructionStep
<1>10. CASE UNCHANGED vars
  <2>1. at' = at /\ open' = open
        /\ UNCHANGED <<requests, replies, due, frames, wire, rx, step_remaining,
                     until_active, running, state_op, pad_desired, pad_applied>>
    BY <1>10 DEF vars, clientVars, historyVars, serverVars
  <2>2. open' \in BOOLEAN /\ at' \in {"exited", at}
    BY <2>1 DEF ControlInv, TypeInv
  <2> QED BY ONLY ControlInv, <2>1, <2>2, MoveStep
<1> QED BY <1>1, <1>2, <1>3, <1>4, <1>5, <1>6, <1>7, <1>8, <1>9, <1>10 DEF Next, Serve
-----------------------------------------------------------------------------
\* The nth reply is the answer to the nth request, be it written by
\* control_dispatch, by control_frame_boundary at the end of a step or by
\* do_state_op: never is a second answer due when one is.
THEOREM RepliesMatchRequests ==
  ASSUME WellBehaved
  PROVE  Spec => []AnswersInOrder
<1>1. WellBehaved
  OBVIOUS
<1>2. ControlInv /\ [Next]_vars => ControlInv'
  BY <1>1, ControlStep
<1>3. ControlInv => AnswersInOrder
  BY DEF ControlInv
<1> QED BY ControlInit, <1>2, <1>3, PTL DEF Spec

\* A machine that has answered everything and was not told to run since it was
\* last told to pause is held by control_pause_loop: neither the end of a step
\* nor a saved state lets it go on.
THEOREM PausedMachinesStandStill ==
  ASSUME WellBehaved
  PROVE  Spec => []HeldStill
<1>1. WellBehaved
  OBVIOUS
<1>2. ControlInv /\ [Next]_vars => ControlInv'
  BY <1>1, ControlStep
<1>3. ASSUME ControlInv, Len(replies) = Len(requests), ~Runs
      PROVE  at \in {"booting", "pausing", "held", "exited"}
  <2>1. due = {} /\ Dispatched = Len(requests)
    <3>1. /\ Dispatched \in 0..Len(requests) /\ Len(requests) \in Nat /\ Len(replies) \in Nat
          /\ due # {} => Dispatched = Current
          /\ due = {} => Dispatched = Len(replies)
      BY <1>3, Numbers
    <3>2. due = {}
      BY <1>3, <3>1 DEF Current
    <3> QED BY <1>3, <3>1, <3>2
  <2>2. running = FALSE
    <3>1. RunsAfter(Len(requests)) = FALSE
      BY <1>3, Numbers DEF Runs, RunsAfter
    <3> QED BY <1>3, <2>1, <3>1 DEF ControlInv, ModeInv
  <2>3. at \in Places
    BY <1>3 DEF ControlInv, TypeInv
  <2> QED BY <1>3, <2>1, <2>2, <2>3 DEF ControlInv, PlaceInv, Places
<1>4. ControlInv => HeldStill
  BY <1>3 DEF HeldStill
<1> QED BY ControlInit, <1>2, <1>4, PTL DEF Spec

\* The count of frames and what is left of it make up what was asked, so a step that
\* is due has not run it yet.
LEMMA DueStepsMissFrames == ControlInv => NoneOverdue
<1> SUFFICES ASSUME ControlInv, NEW id \in due, Steps(requests[id])
             PROVE  frames[id] < requests[id].arg
  BY DEF NoneOverdue
<1>1. id = Current /\ due # {}
  BY DEF ControlInv, QueueInv
<1>2. step_remaining \in Nat /\ step_remaining > 0
  BY <1>1 DEF ControlInv, TypeInv, ModeInv, Steps
<1>3. frames[id] + step_remaining = requests[id].arg
  BY <1>1 DEF ControlInv, CountInv
<1>4. frames[id] \in Nat
  <2>1. Current \in Ids /\ frames \in [Ids -> 0..MaxFrames] /\ MaxFrames \in Nat
    BY <1>1, Numbers, BoundFacts DEF ControlInv, TypeInv, Ids
  <2> QED BY <1>1, <2>1
<1> QED BY ONLY <1>2, <1>3, <1>4

\* A step ends at the first boundary by which it has run the frames it was asked
\* for, whatever control_frame has skipped: until then it is not answered, and the
\* answer counts no more than that boundary adds.  A step_until ends at that
\* boundary or an earlier one.
THEOREM StepsTakeAsLong ==
  ASSUME WellBehaved
  PROVE  Spec => []StepsAsAsked
<1>1. WellBehaved
  OBVIOUS
<1>2. ControlInv /\ [Next]_vars => ControlInv'
  BY <1>1, ControlStep
<1>3. ControlInv => StepsAsAsked
  BY DueStepsMissFrames DEF ControlInv, StepsAsAsked
<1> QED BY ControlInit, <1>2, <1>3, PTL DEF Spec

LEMMA AnsweredRequests ==
  ASSUME ControlInv
  PROVE  \A k \in 1..Len(replies) :
           requests[replies[k].to] \in Commands /\ replies[k].frames \in Int
<1>1. Len(replies) \in Nat /\ Len(requests) \in Nat
  BY Numbers
<1>2. Len(replies) <= Len(requests)
  <2>1. CASE due = {}
    <3>1. Dispatched \in 0..Len(requests) /\ Dispatched = Len(replies)
      BY <2>1, Numbers
    <3> QED BY ONLY <1>1, <3>1
  <2>2. CASE due # {}
    <3>1. Len(replies) + 1 \in 1..Len(requests)
      BY <2>2, Numbers DEF Current
    <3> QED BY ONLY <1>1, <3>1
  <2> QED BY <2>1, <2>2
<1>3. ASSUME NEW k \in 1..Len(replies)
      PROVE  requests[replies[k].to] \in Commands
  <2>1. replies[k].to = k
    BY <1>3, Numbers DEF ControlInv, AnswersInOrder
  <2>2. k \in 1..Len(requests)
    BY ONLY <1>1, <1>2, k \in 1..Len(replies)
  <2>3. requests \in Seq(Commands)
    BY DEF ControlInv, TypeInv
  <2> QED BY <2>1, <2>2, <2>3
<1>4. ASSUME NEW k \in 1..Len(replies)
      PROVE  replies[k].frames \in Int
  <2>1. replies \in Seq([to : Ids, ok : BOOLEAN, frames : 0..MaxFrames])
    BY DEF ControlInv, TypeInv
  <2>2. replies[k] \in [to : Ids, ok : BOOLEAN, frames : 0..MaxFrames]
    BY <1>4, <2>1, ElementOfSeq
  <2> QED BY <2>2, BoundFacts
<1> QED BY <1>3, <1>4

\* Where every boundary is one frame after the last, a step runs exactly the frames
\* it was asked for.
StepsExact ==
  \A k \in DOMAIN replies :
    requests[replies[k].to].cmd = "step" /\ replies[k].ok
      => replies[k].frames = requests[replies[k].to].arg

THEOREM StepsAreExact ==
  ASSUME WellBehaved, Elapsed = {1}
  PROVE  Spec => []StepsExact
<1>1. WellBehaved
  OBVIOUS
<1>2. ControlInv /\ [Next]_vars => ControlInv'
  BY <1>1, ControlStep
<1>3. Max(Elapsed) = 1
  <2>1. Elapsed \in SUBSET Nat /\ 1 \in Elapsed /\ \A x \in Elapsed : x <= 1
    OBVIOUS
  <2> QED BY <2>1, MaxIs
<1>4. ASSUME ControlInv, NEW k \in DOMAIN replies,
             requests[replies[k].to].cmd = "step", replies[k].ok
      PROVE  replies[k].frames = requests[replies[k].to].arg
  <2> DEFINE r == requests[replies[k].to]
  <2>1. replies[k].frames < r.arg + 1 /\ replies[k].frames >= r.arg
    BY <1>3, <1>4 DEF ControlInv, AnsweredAsAsked, Steps
  <2>2. r \in Commands /\ replies[k].frames \in Int
    BY <1>4, AnsweredRequests, Numbers
  <2>3. r.arg \in Int
    BY <1>4, <2>2, CommandFacts DEF Steps
  <2> QED BY ONLY <2>1, <2>2, <2>3
<1>5. ControlInv => StepsExact
  BY <1>4 DEF StepsExact
<1> QED BY ControlInit, <1>2, <1>5, PTL DEF Spec

\* From its first boundary on a step runs with the buttons of the last "pad"
\* sent before it, however many requests the client has pipelined behind it.
THEOREM StepsHoldTheirButtons ==
  ASSUME WellBehaved
  PROVE  Spec => []StepSeesPad
<1>1. WellBehaved
  OBVIOUS
<1>2. ControlInv /\ [Next]_vars => ControlInv'
  BY <1>1, ControlStep
<1>3. ControlInv => StepSeesPad
  BY DEF ControlInv
<1> QED BY ControlInit, <1>2, <1>3, PTL DEF Spec

\* The variables keep their types, and rx never overflows: what is due, in rx
\* and on the wire is what has been sent and not answered.
THEOREM ControlTypeCorrect ==
  ASSUME WellBehaved
  PROVE  Spec => []TypeOK
<1>1. WellBehaved
  OBVIOUS
<1>2. ControlInv /\ [Next]_vars => ControlInv'
  BY <1>1, ControlStep
<1>3. ASSUME ControlInv PROVE TypeOK
  <2>1. TypeInv
    BY <1>3 DEF ControlInv
  <2>2. /\ Len(requests) \in Nat /\ Len(rx) \in Nat /\ Len(wire) \in Nat /\ Dispatched \in Nat
        /\ 1..Len(requests) \subseteq Ids /\ RxSize \in Nat
    BY <1>3, Numbers, ControlAssumption
  <2>3. /\ Len(rx) + Len(wire) = Len(requests) - Dispatched
        /\ \A i \in 1..Len(rx) : rx[i] = Dispatched + i
        /\ \A i \in 1..Len(wire) : wire[i] = Dispatched + Len(rx) + i
        /\ Len(rx) + Len(wire) < RxSize
    BY <1>3 DEF ControlInv, QueueInv
  <2>4. rx \in Seq(Ids)
    <3>1. ASSUME NEW i \in 1..Len(rx) PROVE rx[i] \in Ids
      <4>1. Dispatched + i \in 1..Len(requests)
        <5>1. Len(rx) + Len(wire) = Len(requests) - Dispatched
          BY <2>3
        <5> QED BY ONLY <2>2, <5>1, i \in 1..Len(rx)
      <4> QED BY <2>2, <2>3, <4>1
    <3> QED BY <2>1, <3>1, SeqOfMembers DEF TypeInv
  <2>5. wire \in Seq(Ids)
    <3>1. ASSUME NEW i \in 1..Len(wire) PROVE wire[i] \in Ids
      <4>1. Dispatched + Len(rx) + i \in 1..Len(requests)
        <5>1. Len(rx) + Len(wire) = Len(requests) - Dispatched
          BY <2>3
        <5> QED BY ONLY <2>2, <5>1, i \in 1..Len(wire)
      <4> QED BY <2>2, <2>3, <4>1
    <3> QED BY <2>1, <3>1, SeqOfMembers DEF TypeInv
  <2>6. due \subseteq 1..Len(requests)
    BY <1>3, Numbers
  <2>7. Len(rx) <= RxSize
    BY ONLY <2>2, <2>3
  <2> QED BY ONLY <2>1, <2>4, <2>5, <2>6, <2>7 DEF TypeOK, TypeInv
<1> QED BY ControlInit, <1>2, <1>3, PTL DEF Spec
=============================================================================
