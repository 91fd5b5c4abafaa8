------------------------- MODULE EventRemotesProofs -------------------------
(***************************************************************************)
(* What the event log does for its TCP remotes, for any number of clients, *)
(* pads and events, any threshold and any choice deflate makes: the stream *)
(* a remote is sent is complete (StreamComplete) and is the one promised   *)
(* by EventStream (RemotesFollow), whatever clients do; pads are conserved *)
(* (PadsConserved) and events have an audience (ActiveHasAudience) as long *)
(* as no client hangs up before it got its first state.                    *)
(***************************************************************************)
EXTENDS EventRemotes, SequencesExt, SequenceTheorems, WellFoundedInduction, TLAPS

-----------------------------------------------------------------------------
(* Numbers, concatenations, and runs of consecutive numbers.                   *)

LEMMA LessOnNaturals ==
  \A x, y \in Nat : <<x, y>> \in OpToRel(<, Nat) <=> x < y
<1>1. OpToRel(<, Nat) = {p \in Nat \X Nat : p[1] < p[2]}
  BY DEF OpToRel
<1> QED BY <1>1

\* A set of naturals has a least element, and Min of FiniteSetsExt picks it.
LEMMA MinOfNaturals ==
  ASSUME NEW S \in SUBSET Nat, S # {}
  PROVE  Min(S) \in S /\ \A x \in S : Min(S) <= x
<1> DEFINE R == OpToRel(<, Nat)
<1>1. \A x, y \in Nat : <<x, y>> \in R <=> x < y
  BY LessOnNaturals
<1>2. IsWellFoundedOn(R, Nat)
  BY NatLessThanWellFounded
<1> HIDE DEF R
<1>3. PICK x \in S : \A y \in S : ~(<<y, x>> \in R)
  BY <1>2, WFMin
<1>4. \A y \in S : ~(y < x)
  BY <1>1, <1>3, Zenon
<1>5. \A y \in S : x <= y
  BY ONLY <1>4, S \subseteq Nat, x \in S
<1>6. \E z \in S : \A y \in S : z <= y
  BY <1>5
<1> QED BY <1>6 DEF Min

LEMMA ConcatOfThree ==
  ASSUME NEW a \in Seq(Nat), NEW b \in Seq(Nat), NEW c \in Seq(Nat)
  PROVE  (a \o b) \o c = a \o (b \o c)
BY ConcatAssociative

LEMMA ConcatOfNumbers ==
  \A a, b, c \in Seq(Nat) : (a \o b) \o c = a \o (b \o c)
BY ConcatOfThree

LEMMA ConcatOfFourLast ==
  \A a, b, c, d \in Seq(Nat) : a \o b \o (c \o d) = a \o b \o c \o d
<1> TAKE a, b, c, d \in Seq(Nat)
<1>1. a \o b \in Seq(Nat)
  OBVIOUS
<1>2. \A e \in Seq(Nat) : e \o c \o d = e \o (c \o d)
  BY ConcatOfNumbers, SMTT(30)
<1> QED BY ONLY <1>1, <1>2, Zenon

LEMMA ConcatOfFourMiddle ==
  \A a, b, c, d \in Seq(Nat) : a \o (b \o c) \o d = a \o b \o (c \o d)
<1> TAKE a, b, c, d \in Seq(Nat)
<1>1. a \o b \o c = a \o (b \o c)
  BY ConcatOfThree
<1>2. a \o b \o (c \o d) = a \o b \o c \o d
  <2>1. \A e, f \in Seq(Nat) : a \o b \o (e \o f) = a \o b \o e \o f
    BY ConcatOfFourLast, Zenon
  <2> QED BY <2>1, Zenon
<1> QED BY ONLY <1>1, <1>2, Zenon

LEMMA ConcatOfFourFirst ==
  \A a, b, c, d \in Seq(Nat) : a \o (b \o c \o d) = a \o b \o c \o d
<1> TAKE a, b, c, d \in Seq(Nat)
<1>1. b \o c \in Seq(Nat)
  OBVIOUS
<1>2. \A e \in Seq(Nat) : a \o e \o d = a \o (e \o d)
  BY ConcatOfNumbers, SMTT(30)
<1>3. a \o b \o c = a \o (b \o c)
  BY ConcatOfThree
<1> QED BY ONLY <1>1, <1>2, <1>3, Zenon

LEMMA AppendToConcat ==
  ASSUME NEW s \in Seq(Nat), NEW t \in Seq(Nat), NEW e \in Nat
  PROVE  s \o Append(t, e) = Append(s \o t, e)
OBVIOUS

\* A sequence falls apart where one likes.
LEMMA SplitAt ==
  ASSUME NEW S, NEW s \in Seq(S), NEW n \in 0..Len(s)
  PROVE  /\ SubSeq(s, 1, n) \in Seq(S) /\ SubSeq(s, n + 1, Len(s)) \in Seq(S)
         /\ Len(SubSeq(s, 1, n)) = n /\ Len(SubSeq(s, n + 1, Len(s))) = Len(s) - n
         /\ SubSeq(s, 1, n) \o SubSeq(s, n + 1, Len(s)) = s
<1>1. Len(s) \in Nat /\ \A i \in 1..Len(s) : s[i] \in S
  BY LenProperties, ElementOfSeq
<1>2. SubSeq(s, 1, n) \in Seq(S) /\ Len(SubSeq(s, 1, n)) = n
  BY <1>1, SubSeqProperties
<1>3. SubSeq(s, n + 1, Len(s)) \in Seq(S) /\ Len(SubSeq(s, n + 1, Len(s))) = Len(s) - n
  BY <1>1, SubSeqProperties
<1>4. SubSeq(s, 1, n) \o SubSeq(s, n + 1, Len(s)) = SubSeq(s, 1, Len(s))
  <2>1. 1 \in 1..(Len(s) + 1) /\ n \in (1 - 1)..Len(s) /\ Len(s) \in n..Len(s)
    BY <1>1
  <2> QED BY ONLY <2>1, s \in Seq(S), ConcatAdjacentSubSeq
<1> QED BY <1>2, <1>3, <1>4, SubSeqFull

\* The tail of a concatenation that starts within its first part.
LEMMA TailOfConcat ==
  ASSUME NEW S, NEW s \in Seq(S), NEW t \in Seq(S), NEW p \in 0..Len(s)
  PROVE  SubSeq(s \o t, p + 1, Len(s \o t)) = SubSeq(s, p + 1, Len(s)) \o t
<1>1. s \o t \in Seq(S) /\ Len(s \o t) = Len(s) + Len(t) /\ Len(s) \in Nat /\ Len(t) \in Nat
  BY ConcatProperties, LenProperties
<1>2. p \in 0..Len(s \o t)
  BY <1>1
<1> DEFINE left == SubSeq(s \o t, p + 1, Len(s \o t))
           rest == SubSeq(s, p + 1, Len(s))
<1>3. left \in Seq(S) /\ Len(left) = Len(s) + Len(t) - p
  BY ONLY <1>1, <1>2, SplitAt
<1>4. rest \in Seq(S) /\ Len(rest) = Len(s) - p
  BY SplitAt
<1>5. \A i \in 1..(Len(s) + Len(t) - p) : left[i] = (s \o t)[p + i]
  BY <1>1
<1>6. \A i \in 1..(Len(s) - p) : rest[i] = s[p + i]
  BY <1>1
<1> HIDE DEF left, rest
<1>0. Len(s) \in Nat /\ Len(t) \in Nat /\ p \in Nat /\ p <= Len(s)
  BY <1>1
<1>7. rest \o t \in Seq(S) /\ Len(rest \o t) = Len(s) + Len(t) - p
  <2>1. rest \o t \in Seq(S) /\ Len(rest \o t) = Len(rest) + Len(t)
    BY <1>4, ConcatProperties
  <2> QED BY ONLY <1>0, <1>4, <2>1
<1>8. ASSUME NEW i \in 1..Len(left)
      PROVE  left[i] = (rest \o t)[i]
  <2>0. i \in Nat /\ 1 <= i /\ i <= Len(s) + Len(t) - p
    BY <1>0, <1>3
  <2>3. left[i] = (s \o t)[p + i]
    BY <1>0, <1>3, <1>5
  <2>1. CASE i <= Len(s) - p
    <3>0. p + i \in 1..Len(s) /\ i \in 1..Len(rest)
      BY ONLY <1>0, <1>4, <2>0, <2>1
    <3>1. (s \o t)[p + i] = s[p + i]
      BY <3>0, ConcatProperties
    <3>2. (rest \o t)[i] = rest[i]
      BY <1>4, <3>0, ConcatProperties
    <3>3. rest[i] = s[p + i]
      BY <1>4, <1>6, <3>0
    <3> QED BY ONLY <2>3, <3>1, <3>2, <3>3, Zenon
  <2>2. CASE i > Len(s) - p
    <3> DEFINE j == i - (Len(s) - p)
    <3>0. j \in 1..Len(t) /\ p + i = Len(s) + j /\ i = Len(rest) + j
      BY ONLY <1>0, <1>4, <2>0, <2>2
    <3> HIDE DEF j
    <3>1. (s \o t)[Len(s) + j] = t[j]
      BY <1>0, <3>0
    <3>2. (rest \o t)[Len(rest) + j] = t[j]
      <4>1. rest \in Seq(S) /\ t \in Seq(S)
        BY <1>4
      <4> QED BY ONLY <4>1, <1>0, <1>4, <3>0
    <3>4. (s \o t)[p + i] = t[j] /\ (rest \o t)[i] = t[j]
      BY ONLY <3>0, <3>1, <3>2, Zenon
    <3> QED BY ONLY <2>3, <3>4, Zenon
  <2>4. i <= Len(s) - p \/ i > Len(s) - p
    BY ONLY <1>0, <2>0
  <2> QED BY ONLY <2>1, <2>2, <2>4, Zenon
<1>9. left = rest \o t
  BY <1>3, <1>7, <1>8, SeqEqual
<1> QED BY <1>9 DEF left, rest

\* The n numbers that follow b.
After(b, n) == [k \in 1..n |-> b + k]

LEMMA AfterType ==
  ASSUME NEW b \in Nat, NEW n \in Nat
  PROVE  After(b, n) \in Seq(Nat) /\ Len(After(b, n)) = n
BY DEF After

LEMMA AfterNone ==
  ASSUME NEW b \in Nat
  PROVE  After(b, 0) = <<>>
BY DEF After

LEMMA AfterGrows ==
  ASSUME NEW b \in Nat, NEW n \in Nat
  PROVE  Append(After(b, n), b + n + 1) = After(b, n + 1)
BY DEF After

\* What consecutive numbers are made of is consecutive numbers.
LEMMA AfterSplitsUp ==
  ASSUME NEW b \in Nat, NEW n \in Nat, NEW s \in Seq(Nat), NEW t \in Seq(Nat), NEW u \in Seq(Nat),
         s \o t \o u = After(b, n)
  PROVE  /\ s = After(b, Len(s)) /\ t = After(b + Len(s), Len(t))
         /\ Len(s) \in Nat /\ Len(t) \in 0..(n - Len(s))
<1>1. Len(s) \in Nat /\ Len(t) \in Nat /\ Len(u) \in Nat
  OBVIOUS
<1>2. Len(After(b, n)) = n /\ \A i \in 1..n : After(b, n)[i] = b + i
  BY DEF After
<1>3. Len(s) + Len(t) + Len(u) = n
  <2>1. Len(s \o t \o u) = Len(s) + Len(t) + Len(u)
    OBVIOUS
  <2> QED BY <1>2, <2>1
<1>4. \A i \in 1..Len(s) : s[i] = b + i
  <2> TAKE i \in 1..Len(s)
  <2>1. i \in 1..n
    BY <1>1, <1>3
  <2>2. (s \o t \o u)[i] = s[i]
    BY ONLY s \in Seq(Nat), t \in Seq(Nat), u \in Seq(Nat), <1>1, i \in 1..Len(s)
  <2> QED BY <1>2, <2>1, <2>2
<1>5. \A i \in 1..Len(t) : t[i] = b + Len(s) + i
  <2> TAKE i \in 1..Len(t)
  <2>1. Len(s) + i \in 1..n
    BY <1>1, <1>3
  <2>2. (s \o t \o u)[Len(s) + i] = t[i]
    BY ONLY s \in Seq(Nat), t \in Seq(Nat), u \in Seq(Nat), <1>1, i \in 1..Len(t)
  <2>3. After(b, n)[Len(s) + i] = b + (Len(s) + i)
    BY <1>2, <2>1
  <2> QED BY <1>1, <2>2, <2>3
<1>6. s = After(b, Len(s))
  BY <1>1, <1>4, AfterType, SeqEqual DEF After
<1>7. t = After(b + Len(s), Len(t))
  BY <1>1, <1>5, AfterType, SeqEqual DEF After
<1> QED BY <1>1, <1>3, <1>6, <1>7

LEMMA AfterSplits ==
  \A b, n \in Nat : \A s, t, u \in Seq(Nat) :
    s \o t \o u = After(b, n) =>
      /\ s = After(b, Len(s)) /\ t = After(b + Len(s), Len(t))
      /\ Len(s) \in Nat /\ Len(t) \in 0..(n - Len(s))
BY AfterSplitsUp, Zenon
-----------------------------------------------------------------------------

\* What a remote still has to be sent, given the compressed buffer.
Unsent(c, out) == SubSeq(out, send_progress[c] + 1, Len(out))

Streaming == \A c \in In("streaming") : fully_active = TRUE /\ base[c] <= machine

\* Nothing is sent to a remote before its state.
NothingBefore ==
  \A c \in Clients : phase[c] \in {"away", "backlog", "joining"} => received[c] = <<>>

StreamInv == TypeOK /\ Streaming /\ NothingBefore /\ StreamComplete

-----------------------------------------------------------------------------
(* Algebra of the stream: r was received, c is the compressed buffer, of   *)
(* which p bytes were sent, h is in deflate and b in the buffer.           *)

\* Flushing deflate moves what it holds behind what it put out.
LEMMA Flushing ==
  ASSUME compressed \in Seq(Nat), held \in Seq(Nat), buffer \in Seq(Nat),
         NEW r \in Seq(Nat), NEW p \in 0..Len(compressed)
  PROVE  /\ SubSeq(SyncFlushed, p + 1, Len(SyncFlushed)) \in Seq(Nat)
         /\ r \o SubSeq(SyncFlushed, p + 1, Len(SyncFlushed))
              = r \o SubSeq(compressed, p + 1, Len(compressed)) \o held \o buffer
<1> DEFINE put  == compressed \o held
           tail == SubSeq(compressed, p + 1, Len(compressed))
<1>1. put \in Seq(Nat) /\ Len(put) = Len(compressed) + Len(held)
      /\ put \o buffer \in Seq(Nat) /\ Len(put \o buffer) = Len(put) + Len(buffer)
  OBVIOUS
<1>2. SubSeq(put, p + 1, Len(put)) = tail \o held
  BY TailOfConcat
<1>3. tail \in Seq(Nat)
  BY SplitAt
<1> HIDE DEF put, tail
<1>4. p \in 0..Len(put) /\ p \in 0..Len(put \o buffer)
  BY <1>1
<1>5. SubSeq(put \o buffer, p + 1, Len(put \o buffer)) = SubSeq(put, p + 1, Len(put)) \o buffer
  BY <1>1, <1>4, TailOfConcat
<1>6. SubSeq(put \o buffer, p + 1, Len(put \o buffer)) \in Seq(Nat)
  BY <1>1, <1>4, SplitAt
<1>7. r \o (tail \o held \o buffer) = r \o tail \o held \o buffer
  <2>1. \A x, y \in Seq(Nat) : r \o (tail \o x \o y) = r \o tail \o x \o y
    BY <1>3, ConcatOfFourFirst, Zenon
  <2> QED BY <2>1, Zenon
<1>8. SyncFlushed = put \o buffer
  BY DEF SyncFlushed, put
<1> QED BY ONLY <1>2, <1>5, <1>6, <1>7, <1>8, Zenon DEF tail

\* Logging event e puts it at the end of the stream, however much deflate puts
\* out of what it now holds.
LEMMA Logging ==
  ASSUME compressed \in Seq(Nat), held \in Seq(Nat), buffer \in Seq(Nat), NEW e \in Nat,
         NEW n \in 0..Len(held \o Append(buffer, e)),
         NEW r \in Seq(Nat), NEW p \in 0..Len(compressed)
  PROVE  LET taken  == held \o Append(buffer, e)
             out    == compressed \o SubSeq(taken, 1, n)
             inside == SubSeq(taken, n + 1, Len(taken))
         IN /\ p \in 0..Len(out)
            /\ SubSeq(out, p + 1, Len(out)) \in Seq(Nat)
            /\ r \o SubSeq(out, p + 1, Len(out)) \o inside
                 = Append(r \o SubSeq(compressed, p + 1, Len(compressed)) \o held \o buffer, e)
<1> DEFINE taken  == held \o Append(buffer, e)
           first  == SubSeq(taken, 1, n)
           inside == SubSeq(taken, n + 1, Len(taken))
           out    == compressed \o first
           tail   == SubSeq(compressed, p + 1, Len(compressed))
<1>1. taken \in Seq(Nat)
  OBVIOUS
<1>2. /\ first \in Seq(Nat) /\ inside \in Seq(Nat) /\ first \o inside = taken
  <2> HIDE DEF taken
  <2> QED BY <1>1, SplitAt DEF taken
<1>3. tail \in Seq(Nat)
  BY SplitAt
<1>4. SubSeq(out, p + 1, Len(out)) = tail \o first
  <2> HIDE DEF first
  <2> QED BY <1>2, TailOfConcat
<1>5. taken = held \o (buffer \o <<e>>)
  <2>1. Append(buffer, e) = buffer \o <<e>>
    BY AppendIsConcat
  <2> QED BY <2>1
<1>6. Append(r \o tail \o held \o buffer, e) = r \o tail \o held \o buffer \o <<e>>
  <2> HIDE DEF tail
  <2>1. r \o tail \o held \o buffer \in Seq(Nat)
    BY <1>3
  <2> QED BY <2>1, AppendIsConcat
<1>7. out \in Seq(Nat) /\ p \in 0..Len(out)
  <2> HIDE DEF first
  <2> QED BY <1>2
<1>8. SubSeq(out, p + 1, Len(out)) \in Seq(Nat)
  BY <1>7, SplitAt
<1> HIDE DEF first, inside, taken, tail, out
<1>9. r \o (tail \o first) \o inside = r \o tail \o held \o buffer \o <<e>>
  <2>0. r \o tail \in Seq(Nat) /\ <<e>> \in Seq(Nat) /\ buffer \o <<e>> \in Seq(Nat)
        /\ r \o tail \o held \in Seq(Nat) /\ held \in Seq(Nat)
    BY <1>3
  <2>1. r \o (tail \o first) \o inside = r \o tail \o (first \o inside)
    <3>1. \A x, y \in Seq(Nat) : r \o (tail \o x) \o y = r \o tail \o (x \o y)
      BY <1>3, ConcatOfFourMiddle, Zenon
    <3> QED BY <1>2, <3>1, Zenon
  <2>2. r \o tail \o (held \o (buffer \o <<e>>)) = r \o tail \o held \o (buffer \o <<e>>)
    <3>1. \A x, y \in Seq(Nat) : r \o tail \o (x \o y) = r \o tail \o x \o y
      BY <1>3, ConcatOfFourLast, Zenon
    <3> QED BY ONLY <2>0, <3>1, Zenon
  <2>3. r \o tail \o held \o buffer \o <<e>> = r \o tail \o held \o (buffer \o <<e>>)
    <3>1. \A x, y \in Seq(Nat) : x \o buffer \o y = x \o (buffer \o y)
      BY ConcatOfNumbers, Zenon
    <3> QED BY ONLY <2>0, <3>1, Zenon
  <2> QED BY ONLY <1>2, <1>5, <2>1, <2>2, <2>3, Zenon
<1> QED BY <1>2, <1>4, <1>6, <1>7, <1>8, <1>9 DEF first, inside, taken, tail, out
-----------------------------------------------------------------------------
(* The stream. *)

\* The next pad is one that can be handed out, if there is one.
LEMMA NextPad ==
  ASSUME available_players \subseteq Players
  PROVE  /\ NextAvailablePlayer \in Players \cup {NoPlayer}
         /\ NextAvailablePlayer # NoPlayer => NextAvailablePlayer \in available_players
<1>1. CASE available_players = {}
  BY <1>1 DEF NextAvailablePlayer
<1>2. CASE available_players # {}
  <2>1. available_players \in SUBSET Nat
    BY RemotesAssumption
  <2>2. Min(available_players) \in available_players
    BY <1>2, <2>1, MinOfNaturals
  <2> QED BY <1>2, <2>2 DEF NextAvailablePlayer
<1> QED BY <1>1, <1>2

LEMMA StreamInit == Init => StreamInv /\ Stream!StreamInit
<1> SUFFICES ASSUME Init PROVE StreamInv /\ Stream!StreamInit
  OBVIOUS
<1> USE DEF Init
<1>1. In("streaming") = {}
  BY DEF In
<1>2. TypeOK
  <2>1. send_progress \in [Clients -> 0..Len(compressed)]
    <3>1. Len(compressed) = 0
      OBVIOUS
    <3> QED BY <3>1
  <2>2. base \in [Clients -> Nat] /\ received \in [Clients -> Seq(Nat)]
    OBVIOUS
  <2>3. /\ machine \in Nat /\ buffer \in Seq(Nat) /\ held \in Seq(Nat) /\ compressed \in Seq(Nat)
        /\ gone \subseteq Clients /\ save_state \in {"none", "eventlog", "user"}
    OBVIOUS
  <2>4. /\ fully_active \in BOOLEAN /\ wrote_since_last_flush \in BOOLEAN
    OBVIOUS
  <2>5. /\ phase \in [Clients -> {"away", "backlog", "joining", "streaming", "closed"}]
        /\ player \in [Clients -> Players \cup {NoPlayer}] /\ available_players \subseteq Players
    OBVIOUS
  <2> QED BY ONLY <2>1, <2>2, <2>3, <2>4, <2>5 DEF TypeOK
<1>3. StreamInv
  BY <1>1, <1>2 DEF StreamInv, Streaming, NothingBefore, StreamComplete
<1>4. Stream!StreamInit
  BY <1>1 DEF Stream!StreamInit
<1> QED BY <1>3, <1>4

\* A call of flush_socket, given what the stream is at the call: every remote
\* it keeps is sent the rest of the compressed buffer, which is then empty.
LEMMA FlushStep ==
  ASSUME TypeOK, Streaming, NothingBefore,
         NEW now \in {machine, machine + 1}, NEW out \in Seq(Nat), NEW inside \in Seq(Nat),
         NEW more \in BOOLEAN,
         \A c \in Clients : send_progress[c] \in 0..Len(out),
         \A c \in In("streaming") :
           /\ Unsent(c, out) \in Seq(Nat)
           /\ received[c] \o Unsent(c, out) \o inside = After(base[c], now - base[c]),
         FlushSocket(out, inside, more), machine' = now, buffer' = <<>>,
         wrote_since_last_flush' \in BOOLEAN, UNCHANGED <<gone, base>>
  PROVE  /\ StreamInv'
         /\ \E left \in SUBSET In("streaming") : Stream!Advance(now, left)
<1>1. PICK arrived \in Accepted, lost \in SUBSET MayFail(out, more) :
    LET new    == IF HasRoom THEN arrived ELSE {}
        served == In("streaming") \ lost
        left   == (Remotes \cup new) \ lost
        given  == IF new = {} THEN {} ELSE {NextAvailablePlayer} \ {NoPlayer}
        reset  == Deserted(lost, left)
        rewound == reset \/ \E c \in served : IsSent(c, out, more)
    IN
    /\ phase' = [c \in Clients |->
                   CASE c \in new -> "joining"
                     [] c \in (arrived \ new) \cup lost -> "closed"
                     [] OTHER -> phase[c]]
    /\ player' = [c \in Clients |->
                    IF c \in new THEN NextAvailablePlayer ELSE player[c]]
    /\ available_players' = (available_players \ given) \cup Returned(lost)
    /\ save_state' = Request(new)
    /\ received' = [c \in Clients |->
                      IF c \in served THEN received[c] \o Sent(c, out) ELSE received[c]]
    /\ held' = IF reset THEN <<>> ELSE inside
    /\ fully_active' = (fully_active /\ ~reset)
    /\ compressed' = IF rewound THEN <<>> ELSE out
    /\ send_progress' = [c \in Clients |->
                           IF c \in served /\ ~rewound THEN Len(out) ELSE 0]
  BY DEF FlushSocket
<1> DEFINE new    == IF HasRoom THEN arrived ELSE {}
           served == In("streaming") \ lost
           left   == (Remotes \cup new) \ lost
           given  == IF new = {} THEN {} ELSE {NextAvailablePlayer} \ {NoPlayer}
           reset  == Deserted(lost, left)
           rewound == reset \/ \E c \in served : IsSent(c, out, more)
<1>2. arrived \subseteq In("backlog") /\ new \subseteq In("backlog") /\ lost \subseteq In("streaming")
      /\ In("backlog") \subseteq Clients /\ In("streaming") \subseteq Clients
      /\ In("backlog") \cap In("streaming") = {}
  BY DEF Accepted, MayFail, In
<1>3. served # {} => reset = FALSE
  BY DEF Deserted, Remotes
<1> HIDE DEF new, served, left, given, reset, rewound
<1>4. /\ phase' = [c \in Clients |->
                   CASE c \in new -> "joining"
                     [] c \in (arrived \ new) \cup lost -> "closed"
                     [] OTHER -> phase[c]]
      /\ player' = [c \in Clients |->
                      IF c \in new THEN NextAvailablePlayer ELSE player[c]]
      /\ available_players' = (available_players \ given) \cup Returned(lost)
      /\ save_state' = Request(new)
      /\ received' = [c \in Clients |->
                        IF c \in served THEN received[c] \o Sent(c, out) ELSE received[c]]
      /\ held' = (IF reset THEN <<>> ELSE inside)
      /\ fully_active' = (fully_active /\ ~reset)
      /\ compressed' = (IF rewound THEN <<>> ELSE out)
      /\ send_progress' = [c \in Clients |->
                             IF c \in served /\ ~rewound THEN Len(out) ELSE 0]
  BY <1>1 DEF new, served, left, given, reset, rewound
<1>5. \A c \in Clients :
        /\ c \in new => phase'[c] = "joining" /\ phase[c] = "backlog"
        /\ c \notin new /\ c \in (arrived \ new) \cup lost => phase'[c] = "closed"
        /\ c \notin new /\ c \notin (arrived \ new) \cup lost => phase'[c] = phase[c]
  BY <1>2, <1>4 DEF In
<1>6. In("streaming")' = served
  BY <1>2, <1>5 DEF In, served
<1>7. \A c \in served : /\ received'[c] = received[c] \o Unsent(c, out)
                        /\ c \in In("streaming") /\ c \in Clients
  BY <1>2, <1>4 DEF served, Sent, Unsent
<1>8. TypeOK'
  <2>1. phase' \in [Clients -> {"away", "backlog", "joining", "streaming", "closed"}]
    BY <1>4, <1>5 DEF TypeOK
  <2>2. compressed' \in Seq(Nat) /\ held' \in Seq(Nat)
    BY <1>4
  <2>3. send_progress' \in [Clients -> (0..Len(compressed))']
    <3>1. Len(out) \in Nat /\ (~rewound => compressed' = out)
      BY <1>4
    <3>2. \A c \in Clients : send_progress'[c] \in (0..Len(compressed))'
      <4>1. Len(compressed') \in Nat
        BY <2>2
      <4>2. \A c \in Clients : send_progress'[c] = (IF c \in served /\ ~rewound THEN Len(out) ELSE 0)
        BY <1>4
      <4> QED BY <3>1, <4>1, <4>2
    <3> QED BY <1>4, <3>2
  <2>4. player' \in [Clients -> Players \cup {NoPlayer}]
    BY <1>4, NextPad DEF TypeOK
  <2>5. available_players' \subseteq Players
    BY <1>2, <1>4 DEF TypeOK, Returned
  <2>6. save_state' \in {"none", "eventlog", "user"}
    BY <1>4 DEF TypeOK, Request
  <2>7. received' \in [Clients -> Seq(Nat)]
    <3>1. \A c \in Clients : received'[c] \in Seq(Nat)
      <4> TAKE c \in Clients
      <4>1. received[c] \in Seq(Nat)
        BY DEF TypeOK
      <4>2. CASE c \in served
        <5>1. Unsent(c, out) \in Seq(Nat) /\ received'[c] = received[c] \o Unsent(c, out)
          BY <1>7, <4>2
        <5> QED BY ONLY <4>1, <5>1
      <4>3. CASE c \notin served
        BY <1>4, <4>1, <4>3
      <4> QED BY <4>2, <4>3
    <3>2. received' = [c \in Clients |-> received'[c]]
      BY <1>4
    <3> HIDE DEF served
    <3> QED BY <3>1, <3>2
  <2>8. machine' \in Nat /\ fully_active' \in BOOLEAN /\ buffer' \in Seq(Nat)
        /\ gone' \subseteq Clients /\ base' \in [Clients -> Nat]
    BY <1>4 DEF TypeOK
  <2> QED BY <2>1, <2>2, <2>3, <2>4, <2>5, <2>6, <2>7, <2>8 DEF TypeOK
<1>9. Streaming'
  <2>1. \A c \in served : fully_active = TRUE /\ base[c] <= machine
    BY <1>7 DEF Streaming
  <2>2. \A c \in served : fully_active' = TRUE
    BY <1>3, <1>4, <2>1
  <2>3. \A c \in served : base[c] <= machine' /\ base'[c] = base[c]
    BY <1>7, <2>1 DEF TypeOK
  <2> QED BY <1>6, <2>2, <2>3 DEF Streaming
<1>10. NothingBefore'
  <2> SUFFICES ASSUME NEW c \in Clients, phase'[c] \in {"away", "backlog", "joining"}
               PROVE  received'[c] = <<>>
    BY DEF NothingBefore
  <2>1. phase[c] \in {"away", "backlog", "joining"}
    BY <1>5
  <2>2. c \notin served
    BY <2>1 DEF served, In
  <2> QED BY <1>4, <2>1, <2>2 DEF NothingBefore
<1>11. ASSUME NEW c \in In("streaming")
       PROVE  /\ c \in Clients /\ Len(received[c]) \in Nat
              /\ Unsent(c, out) = After(base[c] + Len(received[c]), Len(Unsent(c, out)))
              /\ Len(Unsent(c, out)) \in 0..(now - base[c] - Len(received[c]))
  <2> DEFINE got  == received[c]
             next == Unsent(c, out)
             b    == base[c]
             n    == now - base[c]
  <2>1. c \in Clients /\ got \in Seq(Nat) /\ next \in Seq(Nat) /\ b \in Nat /\ n \in Nat
    BY <1>2 DEF TypeOK, Streaming
  <2>2. got \o next \o inside = After(b, n)
    OBVIOUS
  <2> HIDE DEF got, next, b, n
  <2>3. \A s, t, u \in Seq(Nat) :
          s \o t \o u = After(b, n) =>
            /\ s = After(b, Len(s)) /\ t = After(b + Len(s), Len(t))
            /\ Len(s) \in Nat /\ Len(t) \in 0..(n - Len(s))
    BY <2>1, AfterSplits, Zenon
  <2>4. /\ next = After(b + Len(got), Len(next)) /\ Len(got) \in Nat
        /\ Len(next) \in 0..(n - Len(got))
    BY <2>1, <2>2, <2>3, Zenon
  <2> QED BY <2>1, <2>4 DEF got, next, b, n
<1>12. StreamComplete'
  <2> SUFFICES ASSUME NEW c \in served
               PROVE  received'[c] \o SubSeq(compressed', send_progress'[c] + 1, Len(compressed'))
                        \o held' \o buffer'
                      = [k \in 1..(machine' - base'[c]) |-> base'[c] + k]
    BY <1>6 DEF StreamComplete
  <2>1. held' = inside /\ send_progress'[c] = Len(compressed') /\ compressed' \in Seq(Nat)
    <3>1. reset = FALSE /\ c \in Clients
      BY <1>3, <1>7
    <3>2. held' = inside
      BY <1>4, <3>1
    <3>3. compressed' \in Seq(Nat)
      BY <1>4
    <3>4. send_progress'[c] = (IF ~rewound THEN Len(out) ELSE 0)
      BY <1>4, <3>1
    <3>5. compressed' = (IF rewound THEN <<>> ELSE out)
      BY <1>4
    <3>6. send_progress'[c] = Len(compressed')
      BY ONLY <3>4, <3>5
    <3> QED BY <3>2, <3>3, <3>6
  <2>2. SubSeq(compressed', send_progress'[c] + 1, Len(compressed')) = <<>>
    BY <2>1
  <2>3. received'[c] \in Seq(Nat)
    BY <1>7, <1>8 DEF TypeOK
  <2>4. received'[c] \o <<>> = received'[c] /\ (received'[c] \o inside) \o <<>> = received'[c] \o inside
    BY <2>3
  <2>5. received'[c] \o inside = [k \in 1..(machine' - base'[c]) |-> base'[c] + k]
    <3>1. received'[c] \o inside = received[c] \o Unsent(c, out) \o inside
      BY <1>7
    <3>2. received[c] \o Unsent(c, out) \o inside = After(base[c], now - base[c])
      BY <1>7
    <3> QED BY <3>1, <3>2 DEF After
  <2> QED BY ONLY <2>1, <2>2, <2>4, <2>5, buffer' = <<>>
<1>13. Stream!Advance(now, lost)
  <2>1. received' = [f \in Clients |-> received'[f]]
    BY <1>4
  <2>2. \A f \in In("streaming") : \E n \in 0..Stream!Missing(f, now) :
          received'[f] = received[f] \o Stream!NextEvents(f, n)
    <3> TAKE f \in In("streaming")
    <3>1. CASE f \in served
      <4>1. Len(Unsent(f, out)) \in 0..Stream!Missing(f, now)
        BY <1>11, <3>1 DEF Stream!Missing
      <4>2. Unsent(f, out) = Stream!NextEvents(f, Len(Unsent(f, out)))
        BY <1>11, <3>1 DEF Stream!NextEvents, After
      <4> QED BY <1>7, <3>1, <4>1, <4>2
    <3>2. CASE f \notin served
      <4>1. received'[f] = received[f] /\ f \in Clients
        BY <1>2, <1>4, <3>2
      <4>2. Stream!Missing(f, now) \in Nat
        BY <1>11, <4>1 DEF Stream!Missing, TypeOK
      <4>3. Stream!NextEvents(f, 0) = <<>>
        BY DEF Stream!NextEvents
      <4>4. received[f] \o <<>> = received[f]
        BY <4>1 DEF TypeOK
      <4>5. 0 \in 0..Stream!Missing(f, now)
        BY <4>2
      <4> QED BY <4>1, <4>3, <4>4, <4>5, Zenon
    <3> QED BY <3>1, <3>2
  <2>3. \A f \in Clients \ In("streaming") : received'[f] = received[f]
    BY <1>4 DEF served
  <2> QED BY <1>6, <2>1, <2>2, <2>3 DEF Stream!Advance, served
<1> QED BY <1>2, <1>8, <1>9, <1>10, <1>12, <1>13 DEF StreamInv

\* What StreamInv says of one remote.
LEMMA StreamOf ==
  ASSUME StreamInv, NEW c \in In("streaming")
  PROVE  /\ c \in Clients /\ received[c] \in Seq(Nat) /\ base[c] \in Nat
         /\ machine - base[c] \in Nat
         /\ send_progress[c] \in 0..Len(compressed) /\ Unsent(c, compressed) \in Seq(Nat)
         /\ received[c] \o Unsent(c, compressed) \o held \o buffer
              = After(base[c], machine - base[c])
<1>1. c \in Clients
  BY DEF In
<1>2. received[c] \in Seq(Nat) /\ base[c] \in Nat /\ machine - base[c] \in Nat
      /\ send_progress[c] \in 0..Len(compressed) /\ compressed \in Seq(Nat)
  BY <1>1 DEF StreamInv, TypeOK, Streaming
<1>3. Unsent(c, compressed) \in Seq(Nat)
  BY <1>2, SplitAt DEF Unsent
<1>4. received[c] \o Unsent(c, compressed) \o held \o buffer
        = After(base[c], machine - base[c])
  BY DEF StreamInv, StreamComplete, Unsent, After
<1> QED BY <1>1, <1>2, <1>3, <1>4

\* What a flush starts from once deflate has put out everything it was given.
LEMMA AllFlushed ==
  ASSUME StreamInv
  PROVE  /\ SyncFlushed \in Seq(Nat)
         /\ \A c \in Clients : send_progress[c] \in 0..Len(SyncFlushed)
         /\ \A c \in In("streaming") :
              /\ Unsent(c, SyncFlushed) \in Seq(Nat)
              /\ received[c] \o Unsent(c, SyncFlushed) \o <<>>
                   = After(base[c], machine - base[c])
<1>1. compressed \in Seq(Nat) /\ held \in Seq(Nat) /\ buffer \in Seq(Nat)
  BY DEF StreamInv, TypeOK
<1>2. SyncFlushed \in Seq(Nat) /\ Len(compressed) \in Nat /\ Len(SyncFlushed) \in Nat
      /\ Len(compressed) <= Len(SyncFlushed)
  BY <1>1 DEF SyncFlushed
<1>3. ASSUME NEW c \in Clients
      PROVE  send_progress[c] \in 0..Len(SyncFlushed)
  <2>1. send_progress[c] \in 0..Len(compressed)
    BY DEF StreamInv, TypeOK
  <2> QED BY <1>2, <2>1
<1>4. ASSUME NEW c \in In("streaming")
      PROVE  /\ Unsent(c, SyncFlushed) \in Seq(Nat)
             /\ received[c] \o Unsent(c, SyncFlushed) \o <<>>
                  = After(base[c], machine - base[c])
  <2> DEFINE got  == received[c]
             sent == send_progress[c]
             rest == Unsent(c, SyncFlushed)
  <2>1. got \in Seq(Nat) /\ sent \in 0..Len(compressed)
    BY StreamOf
  <2>2. got \o Unsent(c, compressed) \o held \o buffer = After(base[c], machine - base[c])
    BY StreamOf
  <2>3. rest = SubSeq(SyncFlushed, sent + 1, Len(SyncFlushed))
        /\ Unsent(c, compressed) = SubSeq(compressed, sent + 1, Len(compressed))
    BY DEF Unsent
  <2> HIDE DEF got, sent, rest
  <2>4. /\ SubSeq(SyncFlushed, sent + 1, Len(SyncFlushed)) \in Seq(Nat)
        /\ got \o SubSeq(SyncFlushed, sent + 1, Len(SyncFlushed))
             = got \o SubSeq(compressed, sent + 1, Len(compressed)) \o held \o buffer
    BY ONLY <1>1, <2>1, Flushing, Zenon
  <2>5. (got \o rest) \o <<>> = got \o rest
    BY <2>1, <2>3, <2>4
  <2>6. (got \o rest) \o <<>> = After(base[c], machine - base[c])
    BY ONLY <2>2, <2>3, <2>4, <2>5, Zenon
  <2> QED BY <2>3, <2>4, <2>6 DEF rest, got
<1> QED BY <1>2, <1>3, <1>4

\* What a logged event leaves behind, whatever deflate puts out.
LEMMA AllLogged ==
  ASSUME StreamInv, NEW n \in 0..Len(held \o Append(buffer, machine + 1))
  PROVE  LET taken  == held \o Append(buffer, machine + 1)
             out    == compressed \o SubSeq(taken, 1, n)
             inside == SubSeq(taken, n + 1, Len(taken))
         IN /\ out \in Seq(Nat) /\ inside \in Seq(Nat)
            /\ \A c \in Clients : send_progress[c] \in 0..Len(out)
            /\ \A c \in In("streaming") :
                 /\ Unsent(c, out) \in Seq(Nat)
                 /\ received[c] \o Unsent(c, out) \o inside
                      = After(base[c], machine + 1 - base[c])
<1> DEFINE taken  == held \o Append(buffer, machine + 1)
           first  == SubSeq(taken, 1, n)
           out    == compressed \o first
           inside == SubSeq(taken, n + 1, Len(taken))
<1>1. compressed \in Seq(Nat) /\ held \in Seq(Nat) /\ buffer \in Seq(Nat) /\ machine + 1 \in Nat
      /\ machine \in Nat
  BY DEF StreamInv, TypeOK
<1>2. taken \in Seq(Nat)
  BY <1>1
<1>3. first \in Seq(Nat) /\ inside \in Seq(Nat)
  <2> HIDE DEF taken
  <2> QED BY <1>2, SplitAt DEF taken
<1>4. out \in Seq(Nat) /\ Len(compressed) \in Nat /\ Len(out) \in Nat
      /\ Len(compressed) <= Len(out)
  <2> HIDE DEF first
  <2> QED BY <1>1, <1>3
<1>5. ASSUME NEW c \in Clients
      PROVE  send_progress[c] \in 0..Len(out)
  <2> HIDE DEF out
  <2>1. send_progress[c] \in 0..Len(compressed)
    BY DEF StreamInv, TypeOK
  <2> QED BY <1>4, <2>1
<1>6. ASSUME NEW c \in In("streaming")
      PROVE  /\ Unsent(c, out) \in Seq(Nat)
             /\ received[c] \o Unsent(c, out) \o inside
                  = After(base[c], machine + 1 - base[c])
  <2> DEFINE got  == received[c]
             sent == send_progress[c]
  <2>1. got \in Seq(Nat) /\ sent \in 0..Len(compressed)
        /\ base[c] \in Nat /\ machine - base[c] \in Nat
    BY StreamOf
  <2>2. got \o Unsent(c, compressed) \o held \o buffer = After(base[c], machine - base[c])
    BY StreamOf
  <2> HIDE DEF got, sent
  <2>3. /\ SubSeq(out, sent + 1, Len(out)) \in Seq(Nat)
        /\ got \o SubSeq(out, sent + 1, Len(out)) \o inside
             = Append(got \o SubSeq(compressed, sent + 1, Len(compressed)) \o held \o buffer,
                      machine + 1)
    BY ONLY <1>1, <2>1, n \in 0..Len(taken), Logging, Zenon
  <2> HIDE DEF out, inside
  <2>4. Unsent(c, out) = SubSeq(out, sent + 1, Len(out))
        /\ Unsent(c, compressed) = SubSeq(compressed, sent + 1, Len(compressed))
    BY DEF Unsent, sent
  <2>5. Append(After(base[c], machine - base[c]), machine + 1)
          = After(base[c], machine + 1 - base[c])
    <3>1. /\ base[c] + (machine - base[c]) + 1 = machine + 1
          /\ (machine - base[c]) + 1 = machine + 1 - base[c]
      BY ONLY <1>1, <2>1
    <3>2. Append(After(base[c], machine - base[c]), base[c] + (machine - base[c]) + 1)
            = After(base[c], (machine - base[c]) + 1)
      BY ONLY <2>1, AfterGrows
    <3> QED BY ONLY <3>1, <3>2, Zenon
  <2>6. got \o Unsent(c, out) \o inside = After(base[c], machine + 1 - base[c])
    BY ONLY <2>2, <2>3, <2>4, <2>5, Zenon
  <2> QED BY <2>3, <2>4, <2>6 DEF got
<1> QED BY <1>3, <1>4, <1>5, <1>6

\* What remotes are sent does not change: the step is one of StreamNext if an
\* event happens, and else none.
LEMMA NothingSent ==
  ASSUME StreamInv, machine' \in {machine, machine + 1},
         In("streaming")' = In("streaming"), UNCHANGED <<base, received>>
  PROVE  machine' # machine => Stream!Advance(machine', {})
<1>1. ASSUME NEW c \in In("streaming")
      PROVE  \E n \in 0..Stream!Missing(c, machine') :
               received'[c] = received[c] \o Stream!NextEvents(c, n)
  <2> DEFINE got  == received[c]
             next == Unsent(c, compressed)
             b    == base[c]
             n    == machine - base[c]
  <2>1. got \in Seq(Nat) /\ next \in Seq(Nat) /\ b \in Nat /\ n \in Nat
    BY StreamOf
  <2>2. got \o next \o held \o buffer = After(b, n) /\ held \in Seq(Nat) /\ buffer \in Seq(Nat)
    BY StreamOf DEF StreamInv, TypeOK
  <2> HIDE DEF got, next, b, n
  <2>3. Len(got) \in Nat /\ Len(got) <= n
    <3>1. Len(got \o next \o held \o buffer) = Len(got) + Len(next) + Len(held) + Len(buffer)
      BY <2>1, <2>2
    <3>2. Len(After(b, n)) = n
      BY ONLY <2>1, AfterType
    <3>3. Len(got) \in Nat /\ Len(next) \in Nat /\ Len(held) \in Nat /\ Len(buffer) \in Nat
      BY <2>1, <2>2
    <3> QED BY ONLY <2>1, <2>2, <3>1, <3>2, <3>3
  <2>4. Stream!Missing(c, machine') \in Nat
    <3>1. machine \in Nat /\ base[c] \in Nat
      BY StreamOf DEF StreamInv, TypeOK
    <3>2. machine' - base[c] - Len(got) \in Nat
      BY <2>3, <3>1 DEF n
    <3> QED BY <3>2 DEF Stream!Missing, got
  <2>5. 0 \in 0..Stream!Missing(c, machine')
    BY <2>4
  <2>6. received[c] \o Stream!NextEvents(c, 0) = received'[c]
    <3>1. Stream!NextEvents(c, 0) = <<>>
      BY DEF Stream!NextEvents
    <3>2. got \o <<>> = got
      BY <2>1
    <3> QED BY <3>1, <3>2 DEF got
  <2> QED BY ONLY <2>5, <2>6, Zenon
<1>2. received' = [f \in Clients |-> received'[f]]
  BY DEF StreamInv, TypeOK
<1> QED BY <1>1, <1>2 DEF Stream!Advance

\* The state new remotes start from: nothing of the stream is theirs yet, and
\* what the others still miss lies before the point they start at.
LEMMA StateStep ==
  ASSUME StreamInv, EventState
  PROVE  StreamInv' /\ Stream!StreamNext
<1>0. TypeOK /\ Streaming /\ NothingBefore /\ compressed \in Seq(Nat) /\ machine \in Nat
      /\ Len(compressed) \in Nat
  BY DEF StreamInv, TypeOK
<1>1. PICK failed \in SUBSET (In("joining") \cap gone) :
       LET joined == In("joining") \ failed IN
       /\ phase' = [c \in Clients |-> CASE c \in failed -> "closed"
                                        [] c \in joined -> "streaming"
                                        [] OTHER -> phase[c]]
       /\ base' = [c \in Clients |-> IF c \in joined THEN machine ELSE base[c]]
       /\ fully_active' = (fully_active \/ joined # {})
       /\ \E started \in {joined, joined \cup failed} :
            IF started = {}
            THEN UNCHANGED <<buffer, held, compressed, send_progress>>
            ELSE /\ compressed' = Finished
                 /\ held' = <<>> /\ buffer' = <<>>
                 /\ send_progress' = [c \in Clients |->
                      IF c \in joined THEN Len(Finished) ELSE send_progress[c]]
  BY DEF EventState
<1> DEFINE joined == In("joining") \ failed
<1>2. /\ phase' = [c \in Clients |-> CASE c \in failed -> "closed"
                                        [] c \in joined -> "streaming"
                                        [] OTHER -> phase[c]]
      /\ base' = [c \in Clients |-> IF c \in joined THEN machine ELSE base[c]]
      /\ fully_active' = (fully_active \/ joined # {})
      /\ \/ /\ joined = {}
            /\ UNCHANGED <<buffer, held, compressed, send_progress>>
         \/ /\ compressed' = Finished
            /\ held' = <<>> /\ buffer' = <<>>
            /\ send_progress' = [c \in Clients |->
                 IF c \in joined THEN Len(Finished) ELSE send_progress[c]]
  BY <1>1
<1>3. /\ save_state' = "none"
      /\ UNCHANGED <<machine, wrote_since_last_flush, player, available_players, gone, received>>
  BY DEF EventState
<1>4. /\ joined \subseteq Clients /\ \A c \in joined : phase[c] = "joining"
      /\ failed \subseteq Clients /\ \A c \in failed : phase[c] = "joining"
      /\ joined \cap failed = {}
  BY DEF In
<1> HIDE DEF joined
<1>5. \A c \in Clients :
        /\ c \in joined => phase'[c] = "streaming"
        /\ c \in failed => phase'[c] = "closed"
        /\ c \notin joined /\ c \notin failed => phase'[c] = phase[c]
  BY <1>2, <1>4
<1>6. In("streaming")' = In("streaming") \cup joined
  BY <1>4, <1>5 DEF In
<1>7. Finished \in Seq(Nat) /\ \A c \in Clients : send_progress[c] \in 0..Len(Finished)
  <2>1. \A c \in Clients : send_progress[c] \in 0..Len(compressed)
    BY <1>0 DEF TypeOK
  <2> QED BY <1>0, <2>1, AllFlushed DEF Finished
<1>8. TypeOK'
  <2>1. phase' \in [Clients -> {"away", "backlog", "joining", "streaming", "closed"}]
    BY <1>0, <1>2, <1>5 DEF TypeOK
  <2>2. base' \in [Clients -> Nat]
    BY <1>0, <1>2 DEF TypeOK
  <2>3. compressed' \in Seq(Nat) /\ held' \in Seq(Nat) /\ buffer' \in Seq(Nat)
    <3>1. held \in Seq(Nat) /\ buffer \in Seq(Nat) /\ <<>> \in Seq(Nat)
      BY <1>0 DEF TypeOK
    <3> QED BY ONLY <1>0, <1>2, <1>7, <3>1, Zenon
  <2>4. send_progress' \in [Clients -> (0..Len(compressed))']
    <3>1. CASE UNCHANGED <<buffer, held, compressed, send_progress>>
      BY <1>0, <3>1 DEF TypeOK
    <3>2. CASE /\ compressed' = Finished
               /\ send_progress' = [c \in Clients |->
                    IF c \in joined THEN Len(Finished) ELSE send_progress[c]]
      <4>1. Len(Finished) \in 0..Len(Finished)
        BY <1>7
      <4> QED BY <1>7, <3>2, <4>1
    <3> QED BY <1>2, <3>1, <3>2
  <2>5. fully_active' \in BOOLEAN
    BY <1>2
  <2> QED BY <1>0, <1>3, <2>1, <2>2, <2>3, <2>4, <2>5 DEF TypeOK
<1>9. Streaming'
  <2> SUFFICES ASSUME NEW c \in In("streaming") \cup joined
               PROVE  fully_active' = TRUE /\ base'[c] <= machine
    BY <1>3, <1>6 DEF Streaming
  <2>1. CASE c \in joined
    <3>1. fully_active' = TRUE /\ base'[c] = machine
      BY <1>2, <1>4, <2>1
    <3> QED BY <1>0, <3>1
  <2>2. CASE c \notin joined
    <3>1. c \in In("streaming") /\ c \in Clients
      BY <2>2 DEF In
    <3>2. fully_active = TRUE /\ base[c] <= machine
      BY <1>0, <3>1 DEF Streaming
    <3>3. base'[c] = base[c]
      BY <1>2, <2>2, <3>1
    <3>4. fully_active' = TRUE
      BY <1>2, <3>2
    <3> QED BY <3>2, <3>3, <3>4
  <2> QED BY <2>1, <2>2
<1>10. NothingBefore'
  BY <1>0, <1>3, <1>5 DEF NothingBefore
<1>11. StreamComplete'
  <2> SUFFICES ASSUME NEW c \in In("streaming") \cup joined
               PROVE  received[c] \o SubSeq(compressed', send_progress'[c] + 1, Len(compressed'))
                        \o held' \o buffer'
                      = After(base'[c], machine - base'[c])
    BY <1>3, <1>6 DEF StreamComplete, After
  <2>1. CASE c \in joined
    <3>1. /\ compressed' = Finished /\ held' = <<>> /\ buffer' = <<>>
          /\ send_progress'[c] = Len(Finished) /\ base'[c] = machine /\ received[c] = <<>>
      BY <1>0, <1>2, <1>4, <2>1 DEF NothingBefore
    <3>2. SubSeq(Finished, Len(Finished) + 1, Len(Finished)) = <<>>
      BY <1>7
    <3>3. <<>> \o <<>> = <<>>
      OBVIOUS
    <3>4. After(machine, machine - machine) = <<>>
      BY <1>0, AfterNone
    <3> QED BY ONLY <3>1, <3>2, <3>3, <3>4, Zenon
  <2>2. CASE c \notin joined
    <3>0. c \in In("streaming")
      BY <2>2
    <3>1. base'[c] = base[c] /\ fully_active = TRUE
      BY <1>0, <1>2, <2>2, <3>0 DEF Streaming, In
    <3>2. CASE UNCHANGED <<buffer, held, compressed, send_progress>>
      BY <3>0, <3>1, <3>2, StreamOf DEF Unsent
    <3>3. CASE /\ compressed' = Finished /\ held' = <<>> /\ buffer' = <<>>
               /\ send_progress' = [d \in Clients |->
                    IF d \in joined THEN Len(Finished) ELSE send_progress[d]]
      <4> DEFINE seen == received[c] \o Unsent(c, SyncFlushed)
      <4>1. compressed' = SyncFlushed /\ send_progress'[c] = send_progress[c]
        BY <2>2, <3>0, <3>1, <3>3 DEF Finished, In
      <4>2. SubSeq(compressed', send_progress'[c] + 1, Len(compressed')) = Unsent(c, SyncFlushed)
        BY <4>1 DEF Unsent
      <4>3. /\ received[c] \in Seq(Nat) /\ Unsent(c, SyncFlushed) \in Seq(Nat)
            /\ seen \o <<>> = After(base[c], machine - base[c])
        BY <3>0, AllFlushed, StreamOf
      <4>4. seen \in Seq(Nat)
        BY <4>3
      <4> HIDE DEF seen
      <4>5. (seen \o <<>>) \o <<>> = seen \o <<>>
        BY <4>4
      <4> QED BY ONLY <3>1, <3>3, <4>2, <4>3, <4>5, Zenon DEF seen
    <3> QED BY <1>2, <3>2, <3>3
  <2> QED BY <2>1, <2>2
<1>12. Stream!StreamNext
  <2>1. joined \in SUBSET (Clients \ In("streaming"))
    BY <1>4 DEF In
  <2>2. Stream!Join(joined)
    BY <1>2, <1>3, <1>6 DEF Stream!Join
  <2> QED BY <2>1, <2>2 DEF Stream!StreamNext
<1> QED BY <1>8, <1>9, <1>10, <1>11, <1>12 DEF StreamInv

LEMMA StreamStep ==
  ASSUME StreamInv, [Next]_vars
  PROVE  StreamInv' /\ [Stream!StreamNext]_(Stream!streamVars)
<1> USE DEF StreamInv
<1>0. machine \in Nat /\ TypeOK /\ Streaming /\ NothingBefore
  BY DEF TypeOK
<1>1. ASSUME machine' \in {machine, machine + 1}, phase' = phase, TypeOK', UNCHANGED <<base, received>>,
             In("streaming") # {} =>
               /\ fully_active' = TRUE
               /\ UNCHANGED <<compressed, send_progress, held>>
               /\ \/ machine' = machine /\ buffer' = buffer
                  \/ machine' = machine + 1 /\ buffer' = Append(buffer, machine + 1)
      PROVE  StreamInv' /\ [Stream!StreamNext]_(Stream!streamVars)
  <2>1. In("streaming")' = In("streaming")
    BY <1>1 DEF In
  <2>2. Streaming'
    <3> SUFFICES ASSUME NEW c \in In("streaming")
                 PROVE  fully_active' = TRUE /\ base'[c] <= machine'
      BY <2>1 DEF Streaming
    <3>1. base[c] \in Nat /\ base[c] <= machine
      BY <1>0, StreamOf DEF Streaming
    <3> QED BY <1>0, <1>1, <3>1
  <2>3. NothingBefore'
    BY <1>1 DEF NothingBefore
  <2>4. StreamComplete'
    <3> SUFFICES ASSUME NEW c \in In("streaming")
                 PROVE  received[c] \o Unsent(c, compressed) \o held \o buffer'
                          = After(base[c], machine' - base[c])
      BY <1>1, <2>1 DEF StreamComplete, Unsent, After
    <3> DEFINE upto == received[c] \o Unsent(c, compressed) \o held
    <3>1. /\ received[c] \in Seq(Nat) /\ base[c] \in Nat /\ machine - base[c] \in Nat
          /\ Unsent(c, compressed) \in Seq(Nat) /\ held \in Seq(Nat) /\ buffer \in Seq(Nat)
      BY StreamOf DEF TypeOK
    <3>2. upto \o buffer = After(base[c], machine - base[c])
      BY StreamOf
    <3>3. upto \in Seq(Nat) /\ machine \in Nat /\ machine + 1 \in Nat
      BY <1>0, <3>1
    <3>7. \A e \in Nat : upto \o Append(buffer, e) = Append(upto \o buffer, e)
      BY <3>1, <3>3, AppendToConcat
    <3>6. /\ base[c] + (machine - base[c]) + 1 = machine + 1
          /\ (machine - base[c]) + 1 = machine + 1 - base[c]
      BY ONLY <3>1, <3>3
    <3> HIDE DEF upto
    <3>4. CASE machine' = machine /\ buffer' = buffer
      BY <3>2, <3>4 DEF upto
    <3>5. CASE machine' = machine + 1 /\ buffer' = Append(buffer, machine + 1)
      <4>1. upto \o Append(buffer, machine + 1) = Append(upto \o buffer, machine + 1)
        BY ONLY <3>3, <3>7, Zenon
      <4>2. Append(After(base[c], machine - base[c]), base[c] + (machine - base[c]) + 1)
              = After(base[c], (machine - base[c]) + 1)
        BY ONLY <3>1, AfterGrows
      <4>3. Append(upto \o buffer, machine + 1) = After(base[c], machine + 1 - base[c])
        BY ONLY <3>2, <3>6, <4>2, Zenon
      <4>4. upto \o buffer' = After(base[c], machine' - base[c])
        <5>1. upto \o buffer' = upto \o Append(buffer, machine + 1)
          BY <3>5, Zenon
        <5>0. machine' = machine + 1
          BY <3>5
        <5>3. machine' - base[c] = machine + 1 - base[c]
          <6>1. machine \in Nat /\ base[c] \in Nat
            BY <3>1, <3>3
          <6> QED BY ONLY <5>0, <6>1
        <5>2. After(base[c], machine' - base[c]) = After(base[c], machine + 1 - base[c])
          BY ONLY <5>3 DEF After
        <5> QED BY ONLY <4>1, <4>3, <5>1, <5>2, Zenon
      <4> QED BY <4>4 DEF upto
    <3> QED BY <1>1, <3>4, <3>5
  <2>5. machine' # machine => Stream!StreamNext
    BY <1>1, <2>1, NothingSent DEF Stream!StreamNext
  <2>6. machine' = machine => UNCHANGED Stream!streamVars
    BY <1>1, <2>1 DEF Stream!streamVars
  <2> QED BY <1>1, <2>2, <2>3, <2>4, <2>5, <2>6
<1>2. CASE Unlogged
  <2>1. In("streaming") = {}
    BY <1>0, <1>2 DEF Unlogged, Streaming
  <2>2. TypeOK'
    BY <1>0, <1>2 DEF Unlogged, TypeOK, streamVars, remoteVars
  <2> QED BY <1>1, <1>2, <2>1, <2>2 DEF Unlogged, remoteVars
<1>3. CASE EventCycleAdjust
  <2>1. TypeOK'
    BY <1>0, <1>3 DEF EventCycleAdjust, TypeOK, remoteVars
  <2>2. fully_active' = TRUE
    BY <1>0, <1>3 DEF EventCycleAdjust, TypeOK
  <2> QED BY <1>1, <1>3, <2>1, <2>2 DEF EventCycleAdjust, remoteVars
<1>4. CASE EventLog
  <2> DEFINE taken == held \o Append(buffer, machine + 1)
  <2>1. PICK n \in 0..Len(taken), more \in BOOLEAN :
          LET out    == compressed \o SubSeq(taken, 1, n)
              inside == SubSeq(taken, n + 1, Len(taken))
          IN IF Len(out) > SendThreshold
             THEN /\ FlushSocket(out, inside, more)
                  /\ wrote_since_last_flush' = TRUE
             ELSE /\ compressed' = out
                  /\ held' = inside
                  /\ UNCHANGED <<fully_active, wrote_since_last_flush, remoteVars,
                                 save_state, received>>
    BY <1>4 DEF EventLog
  <2> DEFINE out    == compressed \o SubSeq(taken, 1, n)
             inside == SubSeq(taken, n + 1, Len(taken))
             now    == machine + 1
  <2>2. machine' = now /\ buffer' = <<>> /\ UNCHANGED <<gone, base>> /\ fully_active = TRUE
    BY <1>0, <1>4 DEF EventLog, TypeOK
  <2>3. /\ out \in Seq(Nat) /\ inside \in Seq(Nat)
        /\ \A c \in Clients : send_progress[c] \in 0..Len(out)
        /\ \A c \in In("streaming") :
             /\ Unsent(c, out) \in Seq(Nat)
             /\ received[c] \o Unsent(c, out) \o inside
                  = After(base[c], now - base[c])
    <3>1. /\ out \in Seq(Nat) /\ inside \in Seq(Nat)
          /\ \A c \in Clients : send_progress[c] \in 0..Len(out)
          /\ \A c \in In("streaming") :
               /\ Unsent(c, out) \in Seq(Nat)
               /\ received[c] \o Unsent(c, out) \o inside
                    = After(base[c], machine + 1 - base[c])
      BY AllLogged
    <3> HIDE DEF taken, out, inside
    <3>2. ASSUME NEW c \in In("streaming")
          PROVE  now - base[c] = machine + 1 - base[c]
      <4>1. base[c] \in Nat
        BY StreamOf
      <4> QED BY ONLY <1>0, <4>1
    <3> HIDE DEF now
    <3>3. \A c \in In("streaming") :
            received[c] \o Unsent(c, out) \o inside = After(base[c], now - base[c])
      BY ONLY <3>1, <3>2, Zenon
    <3> QED BY ONLY <3>1, <3>3, Zenon
  <2>7. now \in {machine, machine + 1} /\ now \in Nat
    BY <1>0
  <2>8. machine' # machine
    BY <1>0, <2>2
  <2>9. ASSUME NEW c \in In("streaming") PROVE base[c] <= now
    <3>1. base[c] \in Nat /\ base[c] <= machine
      BY <1>0, StreamOf DEF Streaming
    <3> QED BY ONLY <1>0, <3>1
  <2> HIDE DEF taken, out, inside, now
  <2>4. \/ FlushSocket(out, inside, more) /\ wrote_since_last_flush' = TRUE
        \/ /\ compressed' = out /\ held' = inside
           /\ UNCHANGED <<fully_active, wrote_since_last_flush, remoteVars,
                          save_state, received>>
    BY <2>1 DEF out, inside
  <2>5. CASE FlushSocket(out, inside, more) /\ wrote_since_last_flush' = TRUE
    <3>1. /\ StreamInv'
          /\ \E left \in SUBSET In("streaming") : Stream!Advance(now, left)
      <4>1. wrote_since_last_flush' \in BOOLEAN
        BY <2>5
      <4> QED BY ONLY <1>0, <2>2, <2>3, <2>5, <2>7, <4>1, FlushStep
    <3> QED BY <2>7, <3>1 DEF Stream!StreamNext
  <2>6. CASE /\ compressed' = out /\ held' = inside
             /\ UNCHANGED <<fully_active, wrote_since_last_flush, remoteVars,
                            save_state, received>>
    <3>1. In("streaming")' = In("streaming")
      BY <2>6 DEF In, remoteVars
    <3>2. TypeOK'
      <4>1. send_progress' \in [Clients -> (0..Len(compressed))']
        BY <1>0, <2>3, <2>6 DEF TypeOK, remoteVars
      <4> QED BY <1>0, <2>2, <2>3, <2>6, <2>7, <4>1 DEF TypeOK, remoteVars
    <3>3. Streaming' /\ NothingBefore'
      <4> QED BY <1>0, <2>2, <2>6, <2>9, <3>1 DEF Streaming, NothingBefore, remoteVars
    <3>4. StreamComplete'
      <4>0. /\ received' = received /\ send_progress' = send_progress /\ base' = base
            /\ compressed' = out /\ held' = inside /\ buffer' = <<>> /\ machine' = now
        BY <2>2, <2>6 DEF remoteVars
      <4> SUFFICES ASSUME NEW c \in In("streaming")
                   PROVE  received'[c] \o SubSeq(compressed', send_progress'[c] + 1, Len(compressed'))
                            \o held' \o buffer' = After(base'[c], machine' - base'[c])
        BY <3>1 DEF StreamComplete, After
      <4>1. received[c] \o Unsent(c, out) \o inside \in Seq(Nat)
        BY <2>3, StreamOf
      <4>2. received[c] \o Unsent(c, out) \o inside \o <<>> = received[c] \o Unsent(c, out) \o inside
        BY <4>1
      <4>3. SubSeq(compressed', send_progress'[c] + 1, Len(compressed')) = Unsent(c, out)
        BY <4>0 DEF Unsent
      <4> QED BY ONLY <2>3, <4>0, <4>2, <4>3, Zenon
    <3>5. Stream!Advance(machine', {})
      <4>1. machine' \in {machine, machine + 1}
        BY <2>2, <2>7
      <4> QED BY <2>2, <2>6, <2>8, <3>1, <4>1, NothingSent DEF remoteVars
    <3> QED BY <2>2, <2>7, <3>2, <3>3, <3>4, <3>5 DEF Stream!StreamNext
  <2> QED BY <2>4, <2>5, <2>6
<1>5. CASE EventFlush \/ EventSoftFlush
  <2>1. /\ FlushSocket(SyncFlushed, <<>>, TRUE) /\ buffer' = <<>> /\ machine' = machine
        /\ UNCHANGED <<gone, base>> /\ wrote_since_last_flush' \in BOOLEAN
    BY <1>0, <1>5 DEF EventFlush, EventSoftFlush, TypeOK
  <2>2. <<>> \in Seq(Nat)
    OBVIOUS
  <2>3. /\ StreamInv'
        /\ \E left \in SUBSET In("streaming") : Stream!Advance(machine, left)
    BY <1>0, <2>1, <2>2, AllFlushed, FlushStep
  <2> QED BY <2>3 DEF Stream!StreamNext
<1>6. CASE EventState
  BY <1>6, StateStep
<1>7. CASE UserSaveDone \/ UserSave \/ UNCHANGED vars
  <2>1. TypeOK'
    BY <1>0, <1>7 DEF UserSaveDone, UserSave, vars, TypeOK, streamVars, remoteVars
  <2> QED BY <1>0, <1>1, <1>7, <2>1
          DEF UserSaveDone, UserSave, vars, streamVars, remoteVars, Streaming
<1>8. CASE \E c \in Clients : HangUp(c)
  <2>1. TypeOK'
    BY <1>0, <1>8 DEF HangUp, TypeOK, streamVars, remoteVars
  <2> QED BY <1>0, <1>1, <1>8, <2>1 DEF HangUp, streamVars, remoteVars, Streaming
<1>9. ASSUME NEW c \in Clients, Connect(c)
      PROVE  StreamInv' /\ [Stream!StreamNext]_(Stream!streamVars)
  <2>1. /\ phase[c] = "away" /\ phase' = [phase EXCEPT ![c] = "backlog"]
        /\ UNCHANGED <<machine, streamVars, wrote_since_last_flush, send_progress, player,
                       available_players, gone, save_state, base, received>>
    BY <1>9 DEF Connect
  <2>2. In("streaming")' = In("streaming")
    BY <1>0, <2>1 DEF In, TypeOK
  <2>3. TypeOK'
    BY <1>0, <2>1 DEF TypeOK, streamVars
  <2>4. Streaming' /\ NothingBefore'
    BY <1>0, <2>1, <2>2 DEF Streaming, NothingBefore, streamVars, TypeOK
  <2>5. StreamComplete'
    BY <2>1, <2>2 DEF StreamComplete, streamVars
  <2> QED BY <2>1, <2>2, <2>3, <2>4, <2>5 DEF Stream!streamVars
<1> QED BY <1>2, <1>3, <1>4, <1>5, <1>6, <1>7, <1>8, <1>9 DEF Next, Sync

\* Type correctness of the event log's state, with any number of clients.
THEOREM TypeCorrect == Spec => []TypeOK
<1>1. StreamInv => TypeOK
  BY DEF StreamInv
<1> QED BY <1>1, StreamInit, StreamStep, PTL DEF Spec

\* What send, deflate and the shared compressed buffer do to the stream of a
\* remote of event_log.c never loses, repeats or reorders an event, whoever
\* else joins, is lost or hangs up, even while joining.
THEOREM StreamsAreComplete == Spec => []StreamComplete
<1>1. StreamInv => StreamComplete
  BY DEF StreamInv
<1> QED BY <1>1, StreamInit, StreamStep, PTL DEF Spec

\* event_log.c implements EventStream for its remotes: flush_socket gives every
\* remote it keeps its next events, event_state lets remotes join at the state
\* the machine is in, nothing else changes what a remote has.
THEOREM ImplementsEventStream == Spec => RemotesFollow
<1> QED BY StreamInit, StreamStep, PTL DEF Spec, RemotesFollow, Stream!StreamSpec
-----------------------------------------------------------------------------
(* Pads, and an audience for events. *)

\* No client hangs up before it got its first state.
Unexposed == "join_fails" \notin Exposed

PadInv == StreamInv /\ PadsConserved /\ ActiveHasAudience

LEMMA PadInit == Init => PadInv
<1> SUFFICES ASSUME Init PROVE PadInv
  OBVIOUS
<1>1. Remotes = {}
  BY DEF Remotes, In, Init
<1>2. PadsConserved /\ ActiveHasAudience
  BY <1>1 DEF PadsConserved, ActiveHasAudience, Init
<1> QED BY <1>2, StreamInit DEF PadInv

\* A call of flush_socket: a lost remote's pad can be handed out again, a new
\* remote gets one nobody else has, and the stream ends with its last remote.
LEMMA PadFlush ==
  ASSUME PadInv, NEW out, NEW inside, NEW more, FlushSocket(out, inside, more)
  PROVE  PadsConserved' /\ ActiveHasAudience'
<1>1. PICK arrived \in Accepted, lost \in SUBSET MayFail(out, more) :
    LET new    == IF HasRoom THEN arrived ELSE {}
        left   == (Remotes \cup new) \ lost
        given  == IF new = {} THEN {} ELSE {NextAvailablePlayer} \ {NoPlayer}
        reset  == Deserted(lost, left)
    IN
    /\ phase' = [c \in Clients |->
                   CASE c \in new -> "joining"
                     [] c \in (arrived \ new) \cup lost -> "closed"
                     [] OTHER -> phase[c]]
    /\ player' = [c \in Clients |->
                    IF c \in new THEN NextAvailablePlayer ELSE player[c]]
    /\ available_players' = (available_players \ given) \cup Returned(lost)
    /\ fully_active' = (fully_active /\ ~reset)
  BY DEF FlushSocket
<1> DEFINE new   == IF HasRoom THEN arrived ELSE {}
           left  == (Remotes \cup new) \ lost
           given == IF new = {} THEN {} ELSE {NextAvailablePlayer} \ {NoPlayer}
           reset == Deserted(lost, left)
<1>2. /\ arrived \subseteq In("backlog") /\ new \subseteq In("backlog")
      /\ lost \subseteq In("streaming") /\ \A c, d \in new : c = d
  BY DEF Accepted, MayFail
<1>3. /\ available_players \subseteq Players
      /\ player \in [Clients -> Players \cup {NoPlayer}] /\ NoPlayer \notin Players
  BY RemotesAssumption DEF PadInv, StreamInv, TypeOK
<1>4. /\ \A c \in Remotes : player[c] \notin available_players
      /\ \A c, d \in Remotes : player[c] = player[d] /\ player[c] # NoPlayer => c = d
      /\ Players = available_players \cup ({player[c] : c \in Remotes} \ {NoPlayer})
  BY DEF PadInv, PadsConserved
<1>5. /\ NextAvailablePlayer \in Players \cup {NoPlayer}
      /\ NextAvailablePlayer # NoPlayer => NextAvailablePlayer \in available_players
  BY <1>3, NextPad
<1> HIDE DEF new, left, given, reset
<1>6. /\ phase' = [c \in Clients |->
                   CASE c \in new -> "joining"
                     [] c \in (arrived \ new) \cup lost -> "closed"
                     [] OTHER -> phase[c]]
      /\ player' = [c \in Clients |->
                      IF c \in new THEN NextAvailablePlayer ELSE player[c]]
      /\ available_players' = (available_players \ given) \cup Returned(lost)
      /\ fully_active' = (fully_active /\ ~reset)
  BY <1>1 DEF new, left, given, reset
<1>7. /\ lost \subseteq Remotes /\ new \cap Remotes = {} /\ Remotes \subseteq Clients
      /\ new \subseteq Clients /\ arrived \cap Remotes = {}
  BY <1>2 DEF Remotes, In
<1>8. Remotes' = left
  <2>1. \A c \in Clients :
          /\ c \in new => phase'[c] = "joining" /\ phase[c] = "backlog"
          /\ c \notin new /\ c \in (arrived \ new) \cup lost => phase'[c] = "closed"
          /\ c \notin new /\ c \notin (arrived \ new) \cup lost => phase'[c] = phase[c]
    BY <1>2, <1>6 DEF In
  <2>2. \A c \in Clients : phase'[c] \in {"joining", "streaming"} <=> c \in left
    BY <1>2, <2>1 DEF left, Remotes, In
  <2> QED BY <1>7, <2>2 DEF Remotes, In, left
<1>9. /\ \A c \in left \cap new : player'[c] = NextAvailablePlayer
      /\ \A c \in left \ new : player'[c] = player[c] /\ c \in Remotes /\ c \notin lost
      /\ left \ new = Remotes \ lost /\ left \cap new = new
  BY <1>6, <1>7 DEF left
<1>10. \A p \in Returned(lost) : p # NoPlayer /\ \E c \in lost : c \in Remotes /\ p = player[c]
  BY <1>7 DEF Returned
<1>11. new # {} => given = {NextAvailablePlayer} \ {NoPlayer}
  BY DEF given
<1>12. \A c \in left : player'[c] \notin available_players'
  BY <1>3, <1>4, <1>5, <1>6, <1>9, <1>10, <1>11
<1>13. ASSUME NEW c \in left, NEW d \in left, player'[c] = player'[d], player'[c] # NoPlayer
       PROVE  c = d
  BY <1>2, <1>4, <1>5, <1>9, <1>13
<1>14. Players \subseteq available_players' \cup ({player'[c] : c \in left} \ {NoPlayer})
  <2> SUFFICES ASSUME NEW p \in Players,
                      p \notin available_players', \A c \in left : p # player'[c]
               PROVE  FALSE
    BY <1>3
  <2>1. p # NoPlayer
    BY <1>3
  <2>2. CASE p \in available_players
    <3>1. p \in given
      BY <1>6, <2>2
    <3>2. new # {} /\ p = NextAvailablePlayer
      BY <3>1 DEF given
    <3> QED BY <1>9, <3>2
  <2>3. CASE p \notin available_players
    <3>1. PICK c \in Remotes : p = player[c]
      BY <1>4, <2>3
    <3>2. c \in lost
      BY <1>9, <3>1
    <3> QED BY <1>6, <2>1, <3>1, <3>2 DEF Returned
  <2> QED BY <2>2, <2>3
<1>15. available_players' \cup ({player'[c] : c \in left} \ {NoPlayer}) \subseteq Players
  BY <1>3, <1>5, <1>6, <1>7, <1>9, <1>10
<1>16. PadsConserved'
  <2>1. \A c, d \in left : player'[c] = player'[d] /\ player'[c] # NoPlayer => c = d
    BY <1>13
  <2> QED BY <1>8, <1>12, <1>14, <1>15, <2>1 DEF PadsConserved
<1>17. ActiveHasAudience'
  <2> SUFFICES ASSUME fully_active', left = {} PROVE FALSE
    BY <1>8 DEF ActiveHasAudience
  <2>1. fully_active /\ lost = {}
    BY <1>6 DEF reset, Deserted
  <2>2. Remotes # {}
    BY <2>1 DEF PadInv, ActiveHasAudience
  <2> QED BY <2>1, <2>2 DEF left
<1> QED BY <1>16, <1>17

LEMMA PadStep ==
  ASSUME Unexposed, PadInv, [Next]_vars
  PROVE  PadInv'
<1>1. StreamInv'
  BY StreamStep DEF PadInv
<1> SUFFICES PadsConserved' /\ ActiveHasAudience'
  BY <1>1 DEF PadInv
<1>2. ASSUME Remotes' = Remotes, UNCHANGED <<player, available_players>>,
             fully_active' => fully_active \/ Remotes # {}
      PROVE  PadsConserved' /\ ActiveHasAudience'
  BY <1>2 DEF PadInv, PadsConserved, ActiveHasAudience
<1>3. CASE \E out, inside, more : FlushSocket(out, inside, more)
  BY <1>3, PadFlush
<1>4. CASE UNCHANGED <<phase, player, available_players, fully_active>>
  BY <1>2, <1>4 DEF Remotes, In
<1>5. CASE EventState
  <2>1. PICK failed \in SUBSET (In("joining") \cap gone) :
          /\ failed # {} => "join_fails" \in Exposed
          /\ phase' = [c \in Clients |-> CASE c \in failed -> "closed"
                                           [] c \in In("joining") \ failed -> "streaming"
                                           [] OTHER -> phase[c]]
          /\ fully_active' = (fully_active \/ In("joining") \ failed # {})
    BY <1>5 DEF EventState
  <2>2. failed = {}
    BY <2>1 DEF Unexposed
  <2>3. \A c \in Clients : phase'[c] \in {"joining", "streaming"} <=> phase[c] \in {"joining", "streaming"}
    BY <2>1, <2>2 DEF In
  <2>4. Remotes' = Remotes
    BY <2>3 DEF Remotes, In
  <2>5. fully_active' => fully_active \/ Remotes # {}
    BY <2>1 DEF Remotes
  <2> QED BY <1>2, <1>5, <2>4, <2>5 DEF EventState
<1>6. ASSUME NEW c \in Clients, Connect(c)
      PROVE  PadsConserved' /\ ActiveHasAudience'
  <2>1. phase[c] = "away" /\ phase' = [phase EXCEPT ![c] = "backlog"]
        /\ UNCHANGED <<player, available_players, fully_active>>
    BY <1>6 DEF Connect, streamVars
  <2>2. phase \in [Clients -> {"away", "backlog", "joining", "streaming", "closed"}]
    BY DEF PadInv, StreamInv, TypeOK
  <2>3. Remotes' = Remotes
    BY <2>1, <2>2 DEF Remotes, In
  <2> QED BY <1>2, <2>1, <2>3
<1>7. CASE EventLog
  BY <1>3, <1>4, <1>7 DEF EventLog, remoteVars
<1>8. CASE EventFlush \/ EventSoftFlush
  BY <1>3, <1>8 DEF EventFlush, EventSoftFlush
<1>9. CASE \/ Unlogged \/ EventCycleAdjust \/ UserSave \/ UserSaveDone
           \/ UNCHANGED vars \/ \E c \in Clients : HangUp(c)
  BY <1>4, <1>9 DEF Unlogged, EventCycleAdjust, UserSave, UserSaveDone, HangUp, vars,
                    streamVars, remoteVars
<1> QED BY <1>5, <1>6, <1>7, <1>8, <1>9 DEF Next, Sync

\* A pad of event_log.c belongs to one remote or can be handed out, whoever
\* joins, is turned away or is lost, unless a client is lost while it joins:
\* event_state does not put its pad back.
THEOREM PadsAreConserved ==
  ASSUME Unexposed
  PROVE  Spec => []PadsConserved
<1>1. PadInv => PadsConserved
  BY DEF PadInv
<1>2. Unexposed
  OBVIOUS
<1>3. PadInv /\ [Next]_vars => PadInv'
  BY <1>2, PadStep
<1> QED BY <1>1, <1>3, PadInit, PTL DEF Spec

\* Events are only logged for somebody: flush_socket resets the stream when the
\* last remote is lost, unless it is lost while it joins.
THEOREM EventsHaveAnAudience ==
  ASSUME Unexposed
  PROVE  Spec => []ActiveHasAudience
<1>1. PadInv => ActiveHasAudience
  BY DEF PadInv
<1>2. Unexposed
  OBVIOUS
<1>3. PadInv /\ [Next]_vars => PadInv'
  BY <1>2, PadStep
<1> QED BY <1>1, <1>3, PadInit, PTL DEF Spec
=============================================================================
