--------------------------- MODULE EventMemProofs ---------------------------
(***************************************************************************)
(* What a render thread decodes is what the emulation thread logged        *)
(* (DecodesWhatWasLogged), for any game, any number of sessions and        *)
(* events, and however the two threads interleave: render threads follow   *)
(* the stream of EventStream (RenderThreadsFollow).  What has to be shown  *)
(* is that the reader's last address is, at each event of the buffer, the  *)
(* one the encoder subtracted, although neither ever sees the other's and  *)
(* the buffer is moved in between.                                         *)
(***************************************************************************)
EXTENDS EventMem, SequencesExt, SequenceTheorems, WellFoundedInduction, TLAPS

-----------------------------------------------------------------------------
(* Sets of numbers, sequences, and runs of consecutive numbers.                *)

LEMMA LessOnNaturals ==
  \A x, y \in Nat : <<x, y>> \in OpToRel(<, Nat) <=> x < y
<1>1. OpToRel(<, Nat) = {p \in Nat \X Nat : p[1] < p[2]}
  BY DEF OpToRel
<1> QED BY <1>1

\* A set of naturals has a least element, and Min of FiniteSetsExt picks it.
LEMMA MinOfNaturals ==
  ASSUME NEW S \in SUBSET Nat, S # {}
  PROVE  Min(S) \in S /\ \A x \in S : Min(S) <= x
<1> DEFINE R == OpToRel(<, Nat)
<1>1. \A x, y \in Nat : <<x, y>> \in R <=> x < y
  BY LessOnNaturals
<1>2. IsWellFoundedOn(R, Nat)
  BY NatLessThanWellFounded
<1> HIDE DEF R
<1>3. PICK x \in S : \A y \in S : ~(<<y, x>> \in R)
  BY <1>2, WFMin
<1>4. \A y \in S : ~(y < x)
  BY <1>1, <1>3, Zenon
<1>5. \A y \in S : x <= y
  BY ONLY <1>4, S \subseteq Nat, x \in S
<1>6. \E z \in S : \A y \in S : z <= y
  BY <1>5
<1> QED BY <1>6 DEF Min

\* A set of naturals with a bound has a greatest element, and Max picks it: the
\* one whose distance to the bound is least.
LEMMA MaxOfNaturals ==
  ASSUME NEW S \in SUBSET Nat, S # {}, NEW bound \in Nat, \A x \in S : x <= bound
  PROVE  Max(S) \in S /\ \A x \in S : x <= Max(S)
<1> DEFINE D == {bound - x : x \in S}
<1>1. D \in SUBSET Nat /\ D # {}
  <2>1. \A x \in S : bound - x \in Nat
    OBVIOUS
  <2> QED BY <2>1
<1> HIDE DEF D
<1>2. Min(D) \in D /\ \A d \in D : Min(D) <= d
  BY <1>1, MinOfNaturals
<1>3. PICK x \in S : Min(D) = bound - x
  BY <1>2 DEF D
<1>4. \A y \in S : bound - x <= bound - y
  BY <1>2, <1>3 DEF D
<1>5. \A y \in S : x >= y
  BY <1>4
<1>6. \E z \in S : \A y \in S : z >= y
  BY <1>5
<1> QED BY <1>6 DEF Max

LEMMA MaxIs ==
  ASSUME NEW S \in SUBSET Nat, NEW m \in S, \A x \in S : x <= m
  PROVE  Max(S) = m
<1>1. Max(S) \in S /\ \A x \in S : x <= Max(S)
  BY MaxOfNaturals
<1>2. Max(S) \in Nat /\ m \in Nat /\ m <= Max(S) /\ Max(S) <= m
  BY <1>1
<1> QED BY <1>2

LEMMA SeqOfMembers ==
  ASSUME NEW S, NEW T, NEW s \in Seq(S), \A i \in 1..Len(s) : s[i] \in T
  PROVE  s \in Seq(T)
<1>1. Len(s) \in Nat /\ s = [i \in 1..Len(s) |-> s[i]]
  OBVIOUS
<1> QED BY <1>1, IsASeq

\* A sequence falls apart where one likes.
LEMMA SplitAt ==
  ASSUME NEW S, NEW s \in Seq(S), NEW n \in 0..Len(s)
  PROVE  /\ SubSeq(s, 1, n) \in Seq(S) /\ SubSeq(s, n + 1, Len(s)) \in Seq(S)
         /\ Len(SubSeq(s, 1, n)) = n /\ Len(SubSeq(s, n + 1, Len(s))) = Len(s) - n
         /\ SubSeq(s, 1, n) \o SubSeq(s, n + 1, Len(s)) = s
<1>1. Len(s) \in Nat /\ \A i \in 1..Len(s) : s[i] \in S
  BY LenProperties, ElementOfSeq
<1>2. SubSeq(s, 1, n) \in Seq(S) /\ Len(SubSeq(s, 1, n)) = n
  BY <1>1, SubSeqProperties
<1>3. SubSeq(s, n + 1, Len(s)) \in Seq(S) /\ Len(SubSeq(s, n + 1, Len(s))) = Len(s) - n
  BY <1>1, SubSeqProperties
<1>4. SubSeq(s, 1, n) \o SubSeq(s, n + 1, Len(s)) = SubSeq(s, 1, Len(s))
  <2>1. 1 \in 1..(Len(s) + 1) /\ n \in (1 - 1)..Len(s) /\ Len(s) \in n..Len(s)
    BY <1>1
  <2> QED BY ONLY <2>1, s \in Seq(S), ConcatAdjacentSubSeq
<1> QED BY <1>2, <1>3, <1>4, SubSeqFull

\* What is left of a sequence after p elements.
LEMMA RestIs ==
  ASSUME NEW S, NEW s \in Seq(S), NEW p \in 0..Len(s)
  PROVE  \A k \in 1..(Len(s) - p) : SubSeq(s, p + 1, Len(s))[k] = s[p + k]
<1>1. Len(s) \in Nat /\ \A i \in 1..Len(s) : s[i] \in S
  BY LenProperties, ElementOfSeq
<1>2. \A i \in (p + 1)..Len(s) : s[i] \in S
  BY <1>1
<1>3. \A i \in 1..(Len(s) - (p + 1) + 1) : SubSeq(s, p + 1, Len(s))[i] = s[(p + 1) + i - 1]
  <2>1. p + 1 \in Int /\ Len(s) \in Int
    BY <1>1
  <2> QED BY ONLY <1>2, <2>1, SubSeqProperties
<1>4. \A k \in 1..(Len(s) - p) : k \in 1..(Len(s) - (p + 1) + 1) /\ (p + 1) + k - 1 = p + k
  BY <1>1
<1> QED BY <1>3, <1>4

\* The n numbers that follow b.
After(b, n) == [k \in 1..n |-> b + k]

LEMMA AfterType ==
  ASSUME NEW b \in Nat, NEW n \in Nat
  PROVE  After(b, n) \in Seq(Nat) /\ Len(After(b, n)) = n
BY DEF After

LEMMA AfterNone ==
  ASSUME NEW b \in Nat
  PROVE  After(b, 0) = <<>>
BY DEF After

LEMMA AfterGrows ==
  ASSUME NEW b \in Nat, NEW n \in Nat
  PROVE  Append(After(b, n), b + n + 1) = After(b, n + 1)
BY DEF After
-----------------------------------------------------------------------------

\* No session begins with a write just behind the last write of the one before,
\* and none before the old render thread has ended.
Unexposed == "stale_address" \notin Exposed /\ "quick_restart" \notin Exposed

\* The last address among l[b + 1] to l[n], 0 if there is none.
Known(l, b, n) ==
  LET addresses == {k \in (b + 1)..n : l[k] \in Addresses} IN
  IF addresses = {} THEN 0 ELSE l[Max(addresses)]

\* The event e of the buffer stands for v when known is the last address before.
Encodes(e, v, known) ==
  /\ e.kind = "word"   => v \in Addresses /\ v = e.arg
  /\ e.kind = "delta"  => v \in Addresses /\ v = known + e.arg
  /\ e.kind = "adjust" => v = Adjust
  /\ e.kind = "other"  => v = Other

\* What of the buffer buf lies behind cur stands for the end of the log l.
Stands(l, b, buf, cur) ==
  \A k \in (cur + 1)..Len(buf), p \in 1..Len(l) :
    p + Len(buf) = Len(l) + k => Encodes(buf[k], l[p], Known(l, b, p - 1))

\* Only the render thread of the current session is alive, and it is unless it
\* was told to end.
ThreadInv ==
  /\ session = 0 => mem_reader_quit = TRUE /\ last_word_address = 0 /\ log = <<>>
  /\ \A s \in Sessions :
       /\ s < session => thread[s] = "ended"
       /\ s > session => thread[s] = "none" /\ decoded[s] = <<>>
       /\ s = session => thread[s] # "none" /\ (thread[s] = "ended" => mem_reader_quit = TRUE)

\* DecodesWhatWasLogged, event by event.
DecodedInv ==
  \A s \in Sessions : s <= session =>
    /\ since[s] + Len(decoded[s]) <= Len(log)
    /\ \A k \in 1..Len(decoded[s]) : decoded[s][k] = log[since[s] + k]

\* What is in the buffer and not decoded is the rest of the log, encoded
\* relative to what the reader will know when it gets there.
BufferInv ==
  session > 0 =>
    /\ since[session] + Len(decoded[session]) = Len(log) - Len(buffer) + cur_pos
    /\ reader_address = Known(log, since[session], since[session] + Len(decoded[session]))
    /\ Stands(log, since[session], buffer, cur_pos)

\* The encoder's address is the one the reader will know at the end of the
\* buffer, once the session has logged one.
EncoderInv ==
  session > 0 =>
    IF FirstAddress THEN session = 1 => last_word_address = 0
    ELSE last_word_address = Known(log, since[session], Len(log))

MemInv == TypeOK /\ ThreadInv /\ DecodedInv /\ BufferInv /\ EncoderInv
-----------------------------------------------------------------------------
LEMMA KnownFirst ==
  ASSUME NEW l, NEW b \in Nat, NEW n \in Nat, \A k \in (b + 1)..n : l[k] \notin Addresses
  PROVE  Known(l, b, n) = 0
BY DEF Known

LEMMA KnownNone ==
  ASSUME NEW l, NEW b \in Nat
  PROVE  Known(l, b, b) = 0
<1>1. (b + 1)..b = {}
  OBVIOUS
<1> QED BY <1>1, KnownFirst

\* What one more event does to the last known address.
LEMMA KnownNext ==
  ASSUME NEW l, NEW b \in Nat, NEW n \in Nat, b <= n
  PROVE  Known(l, b, n + 1) = IF l[n + 1] \in Addresses THEN l[n + 1] ELSE Known(l, b, n)
<1> DEFINE among(m) == {k \in (b + 1)..m : l[k] \in Addresses}
<1>1. CASE l[n + 1] \in Addresses
  <2>1. n + 1 \in among(n + 1) /\ among(n + 1) \in SUBSET Nat
        /\ \A x \in among(n + 1) : x <= n + 1
    BY <1>1
  <2>2. Max(among(n + 1)) = n + 1
    BY <2>1, MaxIs
  <2> QED BY <1>1, <2>1, <2>2 DEF Known
<1>2. CASE l[n + 1] \notin Addresses
  <2>1. among(n + 1) = among(n)
    BY <1>2
  <2> QED BY <1>2, <2>1 DEF Known
<1> QED BY <1>1, <1>2

\* A known address is one of those logged.
LEMMA KnownOneOf ==
  ASSUME NEW l, NEW b \in Nat, NEW n \in Nat
  PROVE  \/ Known(l, b, n) = 0 /\ {k \in (b + 1)..n : l[k] \in Addresses} = {}
         \/ \E m \in (b + 1)..n :
              /\ l[m] \in Addresses
              /\ Known(l, b, n) = l[m]
              /\ m = Max({k \in (b + 1)..n : l[k] \in Addresses})
<1> DEFINE among == {k \in (b + 1)..n : l[k] \in Addresses}
<1>1. CASE among = {}
  BY <1>1 DEF Known
<1>2. CASE among # {}
  <2>1. among \in SUBSET Nat /\ \A x \in among : x <= n /\ x \in (b + 1)..n /\ l[x] \in Addresses
    OBVIOUS
  <2>2. Known(l, b, n) = l[Max(among)]
    BY <1>2 DEF Known
  <2> HIDE DEF among
  <2>3. Max(among) \in among
    <3>1. \A x \in among : x <= n
      BY <2>1
    <3> QED BY ONLY <1>2, <2>1, <3>1, n \in Nat, MaxOfNaturals
  <2>4. Max(among) \in (b + 1)..n /\ l[Max(among)] \in Addresses
    BY <2>1, <2>3
  <2> QED BY <2>2, <2>4 DEF among
<1> QED BY <1>1, <1>2

LEMMA KnownType ==
  ASSUME NEW l, NEW b \in Nat, NEW n \in Nat
  PROVE  Known(l, b, n) \in Nat
<1>1. Known(l, b, n) = 0 \/ \E m \in (b + 1)..n : l[m] \in Addresses /\ Known(l, b, n) = l[m]
  BY KnownOneOf, Zenon
<1>2. \A a \in Addresses : a \in Nat
  BY MemAssumption
<1> QED BY ONLY <1>1, <1>2

LEMMA KnownAppend ==
  ASSUME NEW l \in Seq(Int), NEW v \in Int, NEW b \in Nat, NEW n \in 0..Len(l)
  PROVE  Known(Append(l, v), b, n) = Known(l, b, n)
<1> DEFINE new == Append(l, v)
<1>1. \A k \in (b + 1)..n : new[k] = l[k]
  OBVIOUS
<1> HIDE DEF new
<1>2. {k \in (b + 1)..n : new[k] \in Addresses} = {k \in (b + 1)..n : l[k] \in Addresses}
  BY <1>1
<1>3. \/ Known(l, b, n) = 0 /\ {k \in (b + 1)..n : l[k] \in Addresses} = {}
      \/ \E m \in (b + 1)..n :
           /\ Known(l, b, n) = l[m]
           /\ m = Max({k \in (b + 1)..n : l[k] \in Addresses})
  <2>1. n \in Nat
    OBVIOUS
  <2>2. \/ Known(l, b, n) = 0 /\ {k \in (b + 1)..n : l[k] \in Addresses} = {}
        \/ \E m \in (b + 1)..n :
             /\ l[m] \in Addresses
             /\ Known(l, b, n) = l[m]
             /\ m = Max({k \in (b + 1)..n : l[k] \in Addresses})
    BY ONLY <2>1, b \in Nat, KnownOneOf, ZenonT(30)
  <2> QED BY ONLY <2>2, Zenon
<1> SUFFICES Known(new, b, n) = Known(l, b, n)
  BY DEF new
<1>4. CASE {k \in (b + 1)..n : l[k] \in Addresses} = {}
  BY <1>2, <1>4 DEF Known
<1>5. CASE {k \in (b + 1)..n : l[k] \in Addresses} # {}
  <2> DEFINE m == Max({k \in (b + 1)..n : l[k] \in Addresses})
  <2>1. m \in (b + 1)..n /\ Known(l, b, n) = l[m]
    BY <1>3, <1>5
  <2>2. Known(new, b, n) = new[m]
    BY <1>2, <1>5 DEF Known
  <2> HIDE DEF m
  <2> QED BY <1>1, <2>1, <2>2
<1> QED BY <1>4, <1>5
-----------------------------------------------------------------------------
\* An event more at the end of both.
LEMMA StandsGrows ==
  ASSUME NEW l \in Seq(Int), NEW b \in Nat, NEW buf \in Seq(Encodings), NEW cur \in 0..Len(buf),
         NEW v \in Int, NEW e \in Encodings, Len(buf) - cur <= Len(l),
         Encodes(e, v, Known(l, b, Len(l))), Stands(l, b, buf, cur)
  PROVE  Stands(Append(l, v), b, Append(buf, e), cur)
<1> DEFINE l2 == Append(l, v)
           buf2 == Append(buf, e)
<1>1. /\ Len(l) \in Nat /\ Len(buf) \in Nat /\ cur \in Nat /\ cur <= Len(buf)
      /\ Len(l2) = Len(l) + 1 /\ Len(buf2) = Len(buf) + 1
  OBVIOUS
<1>7. l2[Len(l) + 1] = v /\ buf2[Len(buf) + 1] = e
  OBVIOUS
<1>2. (\A k \in 1..Len(l) : l2[k] = l[k]) /\ (\A k \in 1..Len(buf) : buf2[k] = buf[k])
  OBVIOUS
<1>3. \A n \in 0..Len(l) : Known(l2, b, n) = Known(l, b, n)
  BY KnownAppend
<1> HIDE DEF l2, buf2
<1> SUFFICES ASSUME NEW k \in (cur + 1)..Len(buf2), NEW p \in 1..Len(l2),
                    p + Len(buf2) = Len(l2) + k
             PROVE  Encodes(buf2[k], l2[p], Known(l2, b, p - 1))
  BY DEF Stands, l2, buf2
<1>4. /\ k \in Nat /\ cur < k /\ k <= Len(buf) + 1 /\ p - 1 \in 0..Len(l)
      /\ k <= Len(buf) => p \in 1..Len(l) /\ p + Len(buf) = Len(l) + k
      /\ k = Len(buf) + 1 => p = Len(l) + 1 /\ p - 1 = Len(l)
  BY ONLY <1>1, k \in (cur + 1)..Len(buf2), p \in 1..Len(l2), p + Len(buf2) = Len(l2) + k, SMTT(30)
<1>5. CASE k <= Len(buf)
  <2>1. k \in 1..Len(buf) /\ k \in (cur + 1)..Len(buf)
    BY ONLY <1>1, <1>4, <1>5
  <2>2. Encodes(buf[k], l[p], Known(l, b, p - 1))
    BY <1>4, <1>5, <2>1 DEF Stands
  <2>3. buf2[k] = buf[k] /\ l2[p] = l[p] /\ Known(l2, b, p - 1) = Known(l, b, p - 1)
    BY ONLY <1>2, <1>3, <1>4, <1>5, <2>1
  <2> QED BY ONLY <2>2, <2>3, Zenon
<1>6. CASE k = Len(buf) + 1
  <2>1. p = Len(l) + 1 /\ p - 1 = Len(l) /\ Len(l) \in 0..Len(l)
    BY ONLY <1>1, <1>4, <1>6
  <2>2. buf2[k] = e /\ l2[p] = v /\ Known(l2, b, p - 1) = Known(l, b, Len(l))
    BY ONLY <1>3, <1>6, <1>7, <2>1
  <2> QED BY ONLY <2>2, Encodes(e, v, Known(l, b, Len(l))), Zenon
<1> QED BY ONLY <1>1, <1>4, <1>5, <1>6

\* Moving the buffer to its front changes nothing.
LEMMA StandsCompacted ==
  ASSUME NEW l \in Seq(Int), NEW b \in Nat, NEW buf \in Seq(Encodings), NEW cur \in 0..Len(buf),
         Stands(l, b, buf, cur)
  PROVE  /\ Stands(l, b, SubSeq(buf, cur + 1, Len(buf)), 0)
         /\ SubSeq(buf, cur + 1, Len(buf)) \in Seq(Encodings)
         /\ Len(SubSeq(buf, cur + 1, Len(buf))) = Len(buf) - cur
<1> DEFINE buf2 == SubSeq(buf, cur + 1, Len(buf))
<1>1. Len(l) \in Nat /\ Len(buf) \in Nat /\ cur \in Nat /\ cur <= Len(buf)
  OBVIOUS
<1>2. buf2 \in Seq(Encodings) /\ Len(buf2) = Len(buf) - cur
  BY SplitAt
<1>3. \A k \in 1..(Len(buf) - cur) : buf2[k] = buf[cur + k]
  BY <1>1
<1> HIDE DEF buf2
<1>4. Stands(l, b, buf2, 0)
  <2> SUFFICES ASSUME NEW k \in 1..Len(buf2), NEW p \in 1..Len(l),
                      p + Len(buf2) = Len(l) + k
               PROVE  Encodes(buf2[k], l[p], Known(l, b, p - 1))
    BY DEF Stands
  <2>0. PICK j \in Nat : j = cur + k
    BY <1>1
  <2>1. /\ j \in (cur + 1)..Len(buf) /\ k \in 1..(Len(buf) - cur)
        /\ p + Len(buf) = Len(l) + j
    BY ONLY <1>1, <1>2, <2>0, k \in 1..Len(buf2), p \in 1..Len(l), p + Len(buf2) = Len(l) + k
  <2>2. buf2[k] = buf[j]
    BY <1>3, <2>0, <2>1
  <2>3. Encodes(buf[j], l[p], Known(l, b, p - 1))
    BY <2>1 DEF Stands
  <2> QED BY ONLY <2>2, <2>3, Zenon
<1> QED BY <1>2, <1>4 DEF buf2
-----------------------------------------------------------------------------
LEMMA MemInit == Init => MemInv
<1> SUFFICES ASSUME Init PROVE MemInv
  OBVIOUS
<1>1. MaxSessions \in Nat /\ MaxSessions > 0 /\ Sessions = 1..MaxSessions
  BY MemAssumption DEF Sessions
<1>2. TypeOK
  <2>1. since \in [Sessions -> Nat] /\ decoded \in [Sessions -> Seq(Int)]
        /\ thread \in [Sessions -> {"none", "next", "waiting", "busy", "ended"}]
    BY DEF Init
  <2>2. /\ buffer \in Seq(Encodings) /\ log \in Seq(Addresses \cup {Adjust, Other})
        /\ Len(buffer) = 0
    BY DEF Init
  <2>3. /\ session \in 0..MaxSessions
        /\ size \in 0..Len(buffer) /\ cur_pos \in 0..size
        /\ last_word_address \in Nat /\ reader_address \in Nat
        /\ mem_reader \in BOOLEAN /\ mem_reader_quit \in BOOLEAN
    <3>1. /\ session = 0 /\ size = 0 /\ cur_pos = 0 /\ last_word_address = 0
          /\ reader_address = 0 /\ mem_reader = FALSE /\ mem_reader_quit = TRUE
      BY DEF Init
    <3>2. Len(buffer) = 0 /\ MaxSessions \in Nat
      BY <1>1, <2>2
    <3>3. session \in 0..MaxSessions /\ last_word_address \in Nat /\ reader_address \in Nat
      BY ONLY <3>1, <3>2
    <3>4. size \in 0..Len(buffer)
      BY ONLY <3>1, <3>2
    <3>5. cur_pos \in 0..size
      BY ONLY <3>1
    <3>6. mem_reader \in BOOLEAN /\ mem_reader_quit \in BOOLEAN
      BY ONLY <3>1
    <3> QED BY ONLY <3>3, <3>4, <3>5, <3>6
  <2> QED BY ONLY <2>1, <2>2, <2>3 DEF TypeOK
<1>3. ThreadInv
  BY <1>1 DEF Init, ThreadInv
<1>4. DecodedInv /\ BufferInv /\ EncoderInv
  BY <1>1 DEF Init, DecodedInv, BufferInv, EncoderInv
<1> QED BY <1>2, <1>3, <1>4 DEF MemInv

LEMMA Markers == Adjust \notin Addresses /\ Other \notin Addresses /\ Adjust \in Int /\ Other \in Int
                 /\ Addresses \subseteq Nat /\ Adjust # Other
BY MemAssumption DEF Adjust, Other

\* Numbers the proofs of all steps need.
LEMMA Numbers ==
  ASSUME MemInv
  PROVE  /\ Len(log) \in Nat /\ Len(buffer) \in Nat /\ cur_pos \in 0..Len(buffer)
         /\ log \in Seq(Int)
         /\ \A s \in Sessions : since[s] \in Nat /\ Len(decoded[s]) \in Nat
         /\ session > 0 => session \in Sessions
         /\ session > 0 => since[session] + Len(decoded[session]) \in 0..Len(log)
<1>1. /\ Len(log) \in Nat /\ Len(buffer) \in Nat /\ size \in 0..Len(buffer) /\ cur_pos \in 0..size
      /\ session \in 0..MaxSessions
      /\ \A s \in Sessions : since[s] \in Nat /\ Len(decoded[s]) \in Nat
  BY DEF MemInv, TypeOK
<1>2. log \in Seq(Int)
  <2>1. log \in Seq(Addresses \cup {Adjust, Other}) /\ Addresses \cup {Adjust, Other} \subseteq Int
    BY Markers DEF MemInv, TypeOK
  <2>2. \A i \in 1..Len(log) : log[i] \in Int
    BY <2>1
  <2> QED BY <2>1, <2>2, SeqOfMembers
<1>3. cur_pos \in 0..Len(buffer)
  BY ONLY <1>1
<1>4. session > 0 => session \in Sessions
  BY <1>1, MemAssumption DEF Sessions
<1>5. session > 0 => since[session] + Len(decoded[session]) \in 0..Len(log)
  <2> SUFFICES ASSUME session > 0 PROVE since[session] + Len(decoded[session]) \in 0..Len(log)
    OBVIOUS
  <2>1. since[session] + Len(decoded[session]) <= Len(log)
    BY <1>1, <1>4 DEF MemInv, DecodedInv
  <2>2. since[session] \in Nat /\ Len(decoded[session]) \in Nat
    BY <1>1, <1>4
  <2> QED BY ONLY <1>1, <2>1, <2>2
<1> QED BY <1>1, <1>2, <1>3, <1>4, <1>5

\* The current session logs: it has been started and not been told to end.
LEMMA Logging ==
  ASSUME MemInv, InSession
  PROVE  session > 0 /\ session \in Sessions /\ mem_reader_quit = FALSE
<1>1. mem_reader_quit = FALSE
  BY DEF InSession, Running, MemInv, TypeOK
<1>2. session # 0 /\ session \in Nat
  BY <1>1, MemAssumption DEF MemInv, ThreadInv, TypeOK
<1>3. session > 0
  BY ONLY <1>2
<1> QED BY <1>1, <1>3, Numbers

\* A thread that is woken is the one it was before.
LEMMA WokenKeeps ==
  ASSUME MemInv, thread' = Woken
  PROVE  /\ thread' \in [Sessions -> {"none", "next", "waiting", "busy", "ended"}]
         /\ \A s \in Sessions : /\ (thread'[s] = "ended") = (thread[s] = "ended")
                                /\ (thread'[s] = "none") = (thread[s] = "none")
BY DEF Woken, MemInv, TypeOK

\* What logging an event keeps, published or not.
LEMMA Logged ==
  ASSUME MemInv, InSession,
         NEW v \in Addresses \cup {Adjust, Other}, NEW e \in Encodings,
         Encodes(e, v, Known(log, since[session], Len(log))),
         log' = Append(log, v),
         UNCHANGED <<session, since, decoded, reader_address, mem_reader, mem_reader_quit>>,
         last_word_address' \in Nat,
         \/ Publish(Append(buffer, e))
         \/ buffer' = Append(buffer, e) /\ UNCHANGED <<size, cur_pos, thread>>
  PROVE  TypeOK' /\ ThreadInv' /\ DecodedInv' /\ BufferInv'
<1> DEFINE b == since[session]
           d == Len(decoded[session])
           buf == Append(buffer, e)
<1>1. /\ session > 0 /\ session \in Sessions /\ mem_reader_quit = FALSE
      /\ b \in Nat /\ d \in Nat /\ Len(log) \in Nat /\ Len(buffer) \in Nat
      /\ cur_pos \in 0..Len(buffer)
  BY Logging, Numbers
<1>2. /\ b + d = Len(log) - Len(buffer) + cur_pos
      /\ reader_address = Known(log, b, b + d)
      /\ Stands(log, b, buffer, cur_pos)
  BY <1>1 DEF MemInv, BufferInv
<1>3. log \in Seq(Int) /\ buffer \in Seq(Encodings) /\ v \in Int
  BY Markers, Numbers DEF MemInv, TypeOK
<1> HIDE DEF b, d
<1>4. /\ Len(buf) = Len(buffer) + 1 /\ buf \in Seq(Encodings)
      /\ log' = Append(log, v) /\ log' \in Seq(Int) /\ Len(log') = Len(log) + 1
      /\ \A k \in 1..Len(log) : log'[k] = log[k]
  BY <1>3
<1>5. Stands(log', b, buf, cur_pos)
  <2>1. Len(buffer) - cur_pos <= Len(log)
    BY ONLY <1>1, <1>2
  <2>2. Encodes(e, v, Known(log, b, Len(log)))
    BY DEF b
  <2> QED BY <1>1, <1>2, <1>3, <1>4, <2>1, <2>2, StandsGrows
<1>6. Known(log', b, b + d) = Known(log, b, b + d)
  <2>1. b + d \in 0..Len(log)
    BY ONLY <1>1, <1>2
  <2> QED BY <1>1, <1>3, <1>4, <2>1, KnownAppend
<1> HIDE DEF buf
<1>7. /\ buffer' \in Seq(Encodings) /\ Stands(log', b, buffer', cur_pos')
      /\ b + d = Len(log') - Len(buffer') + cur_pos'
      /\ size' \in 0..Len(buffer') /\ cur_pos' \in 0..size'
  <2>1. CASE Publish(Append(buffer, e))
    <3>1. /\ buffer' = SubSeq(buf, cur_pos + 1, Len(buf)) /\ cur_pos' = 0
          /\ size' = Len(buf) - cur_pos
      BY <2>1 DEF Publish, Compacted, PublishedSize, buf
    <3>2. cur_pos \in 0..Len(buf)
      BY ONLY <1>1, <1>4
    <3>3. Stands(log', b, buffer', 0) /\ buffer' \in Seq(Encodings) /\ Len(buffer') = Len(buf) - cur_pos
      BY <1>1, <1>4, <1>5, <3>1, <3>2, StandsCompacted
    <3>4. b + d = Len(log') - Len(buffer') + 0 /\ Len(buf) - cur_pos \in Nat
      <4>1. Len(buf) = Len(buffer) + 1 /\ Len(log') = Len(log) + 1
            /\ b + d = Len(log) - Len(buffer) + cur_pos /\ Len(buffer') = Len(buf) - cur_pos
            /\ cur_pos \in 0..Len(buf)
        BY <1>2, <1>4, <3>2, <3>3
      <4> QED BY ONLY <1>1, <4>1
    <3>5. size' \in 0..Len(buffer') /\ 0 \in 0..size'
      BY ONLY <3>1, <3>3, <3>4
    <3> QED BY ONLY <3>1, <3>3, <3>4, <3>5
  <2>2. CASE buffer' = Append(buffer, e) /\ UNCHANGED <<size, cur_pos, thread>>
    <3>1. buffer' = buf /\ size' = size /\ cur_pos' = cur_pos
      BY <2>2 DEF buf
    <3>2. size \in 0..Len(buffer) /\ cur_pos \in 0..size
      BY DEF MemInv, TypeOK
    <3>3. b + d = Len(log') - Len(buf) + cur_pos
      BY ONLY <1>1, <1>2, <1>4
    <3>4. size \in 0..Len(buf)
      BY ONLY <1>1, <1>4, <3>2
    <3> QED BY <1>4, <1>5, <3>1, <3>2, <3>3, <3>4
  <2> QED BY <2>1, <2>2
<1>8. BufferInv'
  <2>1. b = since'[session'] /\ d = Len(decoded'[session']) /\ reader_address' = reader_address
    BY DEF b, d
  <2>2. reader_address' = Known(log', b, b + d)
    BY ONLY <1>2, <1>6, <2>1, Zenon
  <2> QED BY ONLY <1>7, <2>1, <2>2 DEF BufferInv
<1>9. DecodedInv'
  <2> SUFFICES ASSUME NEW s \in Sessions, s <= session
               PROVE  /\ since[s] + Len(decoded[s]) <= Len(log')
                      /\ \A k \in 1..Len(decoded[s]) : decoded[s][k] = log'[since[s] + k]
    BY DEF DecodedInv
  <2>1. /\ since[s] + Len(decoded[s]) <= Len(log)
        /\ \A k \in 1..Len(decoded[s]) : decoded[s][k] = log[since[s] + k]
    BY DEF MemInv, DecodedInv
  <2>2. since[s] \in Nat /\ Len(decoded[s]) \in Nat
    BY Numbers
  <2>3. ASSUME NEW k \in 1..Len(decoded[s])
        PROVE  log'[since[s] + k] = log[since[s] + k]
    <3>1. since[s] + k \in 1..Len(log)
      BY ONLY <1>1, <2>1, <2>2, k \in 1..Len(decoded[s])
    <3> QED BY <1>4, <3>1
  <2>4. since[s] + Len(decoded[s]) <= Len(log')
    BY ONLY <1>1, <1>4, <2>1, <2>2
  <2> QED BY <2>1, <2>3, <2>4
<1>10. /\ thread' \in [Sessions -> {"none", "next", "waiting", "busy", "ended"}]
       /\ \A s \in Sessions : /\ (thread'[s] = "ended") = (thread[s] = "ended")
                              /\ (thread'[s] = "none") = (thread[s] = "none")
  <2>1. CASE thread' = Woken
    BY <2>1, WokenKeeps
  <2>2. CASE thread' = thread
    BY <2>2 DEF MemInv, TypeOK
  <2> QED BY <2>1, <2>2 DEF Publish
<1>11. ThreadInv'
  BY <1>1, <1>10 DEF MemInv, ThreadInv
<1>12. TypeOK'
  <2>1. log' \in Seq(Addresses \cup {Adjust, Other})
    BY DEF MemInv, TypeOK
  <2>2. /\ session' \in 0..MaxSessions /\ since' \in [Sessions -> Nat]
        /\ decoded' \in [Sessions -> Seq(Int)] /\ reader_address' \in Nat
        /\ mem_reader' \in BOOLEAN /\ mem_reader_quit' \in BOOLEAN
    BY DEF MemInv, TypeOK
  <2> QED BY ONLY <1>7, <1>10, <2>1, <2>2, last_word_address' \in Nat DEF TypeOK
<1> QED BY <1>8, <1>9, <1>11, <1>12

\* An event without an address changes neither address.
LEMMA WithoutAddress ==
  ASSUME MemInv, InSession, NEW v \in {Adjust, Other}, log' = Append(log, v),
         UNCHANGED <<session, since, last_word_address>>
  PROVE  EncoderInv'
<1>1. /\ session > 0 /\ session \in Sessions /\ Len(log) \in Nat /\ log \in Seq(Int)
      /\ since[session] \in 0..Len(log)
  <2>1. /\ session > 0 /\ session \in Sessions /\ Len(log) \in Nat /\ log \in Seq(Int)
        /\ since[session] \in Nat /\ Len(decoded[session]) \in Nat
        /\ since[session] + Len(decoded[session]) \in 0..Len(log)
    BY Logging, Numbers
  <2>2. since[session] \in 0..Len(log)
    BY ONLY <2>1
  <2> QED BY <2>1, <2>2
<1>2. /\ Len(log') = Len(log) + 1 /\ log'[Len(log) + 1] = v /\ v \notin Addresses /\ v \in Int
      /\ \A k \in 1..Len(log) : log'[k] = log[k]
  BY <1>1, Markers
<1>3. FirstAddress' = FirstAddress
  <2>1. \A k \in (since[session] + 1)..Len(log) : k \in 1..Len(log)
    BY ONLY <1>1
  <2>2. \A k \in (since[session] + 1)..(Len(log) + 1) :
          k \in (since[session] + 1)..Len(log) \/ k = Len(log) + 1
    BY ONLY <1>1
  <2>3. \A k \in (since[session] + 1)..Len(log) : k \in (since[session] + 1)..(Len(log) + 1)
    BY ONLY <1>1
  <2>4. FirstAddress => FirstAddress'
    BY <1>2, <2>1, <2>2 DEF FirstAddress
  <2>5. FirstAddress' => FirstAddress
    BY <1>2, <2>1, <2>3 DEF FirstAddress
  <2> QED BY <2>4, <2>5 DEF FirstAddress
<1>4. Known(log', since[session], Len(log) + 1) = Known(log, since[session], Len(log))
  <2>1. Known(log', since[session], Len(log)) = Known(log, since[session], Len(log))
    BY <1>1, <1>2, KnownAppend
  <2>2. Known(log', since[session], Len(log) + 1) = Known(log', since[session], Len(log))
    <3>1. since[session] \in Nat /\ Len(log) \in Nat /\ since[session] <= Len(log)
      BY ONLY <1>1
    <3>2. Known(log', since[session], Len(log) + 1)
            = IF log'[Len(log) + 1] \in Addresses THEN log'[Len(log) + 1]
              ELSE Known(log', since[session], Len(log))
      BY ONLY <3>1, KnownNext
    <3> QED BY ONLY <1>2, <3>2
  <2> QED BY ONLY <2>1, <2>2
<1>5. IF FirstAddress THEN session = 1 => last_word_address = 0
      ELSE last_word_address = Known(log, since[session], Len(log))
  BY <1>1 DEF MemInv, EncoderInv
<1> QED BY <1>2, <1>3, <1>4, <1>5 DEF EncoderInv

LEMMA WordStep ==
  ASSUME Unexposed, MemInv, NEW a \in Addresses, EventVramWord(a)
  PROVE  MemInv'
<1>1. /\ session > 0 /\ session \in Sessions /\ Len(log) \in Nat /\ log \in Seq(Int)
      /\ since[session] \in 0..Len(log)
  <2>1. /\ session > 0 /\ session \in Sessions /\ Len(log) \in Nat /\ log \in Seq(Int)
        /\ since[session] \in Nat /\ Len(decoded[session]) \in Nat
        /\ since[session] + Len(decoded[session]) \in 0..Len(log)
    BY Logging, Numbers DEF EventVramWord
  <2>2. since[session] \in 0..Len(log)
    BY ONLY <2>1
  <2> QED BY <2>1, <2>2
<1>2. a \in Nat /\ last_word_address \in Nat /\ DeltaLimit \in Nat
  BY MemAssumption DEF MemInv, TypeOK
<1> DEFINE e == Encoded(a)
           known == Known(log, since[session], Len(log))
<1>3. e \in Encodings
  <2>1. a - last_word_address \in 0..(DeltaLimit - 1) => a - last_word_address \in Nat
    BY ONLY <1>2
  <2> QED BY <1>2, <2>1 DEF Encoded, Encodings
<1>4. Encodes(e, a, known)
  <2>1. CASE e.kind = "delta"
    <3>1. e.arg = a - last_word_address
      BY <2>1 DEF Encoded
    <3>2. last_word_address = known
      <4>1. CASE FirstAddress
        <5>1. session = 1
          <6>1. ~(session > 1)
            BY <2>1, <4>1 DEF EventVramWord, Unexposed
          <6>2. session \in Nat
            BY MemAssumption DEF MemInv, TypeOK
          <6> QED BY ONLY <1>1, <6>1, <6>2
        <5>2. last_word_address = 0
          BY <1>1, <4>1, <5>1 DEF MemInv, EncoderInv
        <5>3. known = 0
          <6>1. \A k \in (since[session] + 1)..Len(log) : log[k] \notin Addresses
            BY <4>1 DEF FirstAddress
          <6>2. since[session] \in Nat
            BY <1>1
          <6> QED BY <1>1, <6>1, <6>2, KnownFirst
        <5> QED BY <5>2, <5>3
      <4>2. CASE ~FirstAddress
        BY <1>1, <4>2 DEF MemInv, EncoderInv
      <4> QED BY <4>1, <4>2
    <3> HIDE DEF known
    <3>3. a = known + e.arg
      BY ONLY <1>2, <3>1, <3>2
    <3> QED BY <2>1, <3>3 DEF Encodes
  <2>2. CASE e.kind = "word"
    BY <2>2 DEF Encoded, Encodes
  <2>3. e.kind \in {"delta", "word"}
    BY DEF Encoded
  <2> QED BY <2>1, <2>2, <2>3
<1>5. TypeOK' /\ ThreadInv' /\ DecodedInv' /\ BufferInv'
  <2>1. /\ InSession /\ log' = Append(log, a) /\ Publish(Append(buffer, e))
        /\ UNCHANGED <<session, since, decoded, reader_address, mem_reader, mem_reader_quit>>
        /\ last_word_address' \in Nat /\ a \in Addresses \cup {Adjust, Other}
    BY <1>2 DEF EventVramWord
  <2> HIDE DEF e
  <2> QED BY <1>3, <1>4, <2>1, Logged
<1>6. EncoderInv'
  <2>1. /\ Len(log') = Len(log) + 1 /\ log'[Len(log) + 1] = a
        /\ UNCHANGED <<session, since>> /\ last_word_address' = a
    BY <1>1, <1>2 DEF EventVramWord
  <2>2. Len(log) + 1 \in (since[session] + 1)..(Len(log) + 1)
    BY ONLY <1>1
  <2>3. ~FirstAddress'
    BY <2>1, <2>2 DEF FirstAddress
  <2>4. Known(log', since[session], Len(log) + 1) = a
    <3>1. since[session] \in Nat /\ Len(log) \in Nat /\ since[session] <= Len(log)
      BY ONLY <1>1
    <3>2. Known(log', since[session], Len(log) + 1)
            = IF log'[Len(log) + 1] \in Addresses THEN log'[Len(log) + 1]
              ELSE Known(log', since[session], Len(log))
      BY ONLY <3>1, KnownNext
    <3> QED BY ONLY <2>1, <3>2, a \in Addresses
  <2> QED BY <2>1, <2>3, <2>4 DEF EncoderInv
<1> QED BY <1>5, <1>6 DEF MemInv

LEMMA AdjustStep ==
  ASSUME MemInv, EventCycleAdjust
  PROVE  MemInv'
<1> DEFINE e == Without("adjust")
<1>1. e \in Encodings /\ Encodes(e, Adjust, Known(log, since[session], Len(log)))
  BY DEF Without, Encodings, Encodes
<1>2. /\ InSession /\ log' = Append(log, Adjust) /\ buffer' = Append(buffer, e)
      /\ UNCHANGED <<size, cur_pos, thread>>
      /\ UNCHANGED <<session, since, decoded, reader_address, mem_reader, mem_reader_quit>>
      /\ UNCHANGED <<session, since, last_word_address>>
  BY DEF EventCycleAdjust, readerVars
<1>3. last_word_address' \in Nat
  BY <1>2 DEF MemInv, TypeOK
<1> HIDE DEF e
<1>4. TypeOK' /\ ThreadInv' /\ DecodedInv' /\ BufferInv'
  BY <1>1, <1>2, <1>3, Logged
<1>5. EncoderInv'
  BY <1>2, WithoutAddress
<1> QED BY <1>4, <1>5 DEF MemInv

LEMMA PublishedStep ==
  ASSUME MemInv, EventPublished
  PROVE  MemInv'
<1> DEFINE e == Without("other")
<1>1. e \in Encodings /\ Encodes(e, Other, Known(log, since[session], Len(log)))
  BY DEF Without, Encodings, Encodes
<1>2. /\ InSession /\ log' = Append(log, Other) /\ Publish(Append(buffer, e))
      /\ UNCHANGED <<session, since, decoded, reader_address, mem_reader, mem_reader_quit>>
      /\ UNCHANGED <<session, since, last_word_address>>
  BY DEF EventPublished
<1>3. last_word_address' \in Nat
  BY <1>2 DEF MemInv, TypeOK
<1> HIDE DEF e
<1>4. TypeOK' /\ ThreadInv' /\ DecodedInv' /\ BufferInv'
  BY <1>1, <1>2, <1>3, Logged
<1>5. EncoderInv'
  BY <1>2, WithoutAddress
<1> QED BY <1>4, <1>5 DEF MemInv

\* A new session starts with nothing known to its reader.
LEMMA StartStep ==
  ASSUME Unexposed, MemInv, Start
  PROVE  MemInv'
<1>1. /\ session < MaxSessions /\ mem_reader_quit = TRUE
      /\ session' = session + 1
      /\ since' = [since EXCEPT ![session + 1] = Len(log)]
      /\ buffer' = <<>> /\ size' = 0 /\ cur_pos' = 0 /\ reader_address' = 0
      /\ mem_reader' = TRUE /\ mem_reader_quit' = FALSE
      /\ thread' = [thread EXCEPT ![session + 1] = "next"]
      /\ UNCHANGED <<log, decoded, last_word_address>>
      /\ \A s \in 1..session : thread[s] = "ended"
  BY DEF Start, Unexposed, MemInv, TypeOK
<1>2. /\ session \in Nat /\ session + 1 \in Sessions /\ Sessions = 1..MaxSessions
      /\ MaxSessions \in Nat /\ session + 1 \in 0..MaxSessions /\ session + 1 > 0
      /\ session + 1 > session
  <2>1. session \in 0..MaxSessions /\ MaxSessions \in Nat /\ Sessions = 1..MaxSessions
    BY MemAssumption DEF MemInv, TypeOK, Sessions
  <2> QED BY ONLY <1>1, <2>1
<1>3. Len(log) \in Nat /\ log \in Seq(Int)
  BY Numbers
<1>4. decoded[session + 1] = <<>>
  BY <1>2 DEF MemInv, ThreadInv
<1>5. /\ since' \in [Sessions -> Nat] /\ since'[session + 1] = Len(log)
      /\ \A s \in Sessions : s <= session => since'[s] = since[s]
  <2>1. since \in [Sessions -> Nat]
    BY DEF MemInv, TypeOK
  <2>2. \A s \in Sessions : s <= session => s # session + 1
    BY <1>2
  <2> QED BY ONLY <1>1, <1>2, <1>3, <2>1, <2>2
<1>6. TypeOK'
  <2>1. thread' \in [Sessions -> {"none", "next", "waiting", "busy", "ended"}]
    BY <1>1 DEF MemInv, TypeOK
  <2>2. /\ log' \in Seq(Addresses \cup {Adjust, Other})
        /\ decoded' \in [Sessions -> Seq(Int)]
        /\ last_word_address' \in Nat
    BY <1>1 DEF MemInv, TypeOK
  <2>3. buffer' \in Seq(Encodings) /\ Len(buffer') = 0
    BY <1>1
  <2>4. size' \in 0..Len(buffer') /\ cur_pos' \in 0..size' /\ reader_address' \in Nat
    BY ONLY <1>1, <2>3
  <2>5. mem_reader' \in BOOLEAN /\ mem_reader_quit' \in BOOLEAN /\ session' \in 0..MaxSessions
    BY ONLY <1>1, <1>2
  <2> QED BY ONLY <1>5, <2>1, <2>2, <2>3, <2>4, <2>5 DEF TypeOK
<1>7. ThreadInv'
  <2>1. thread \in [Sessions -> {"none", "next", "waiting", "busy", "ended"}]
    BY DEF MemInv, TypeOK
  <2>2. ASSUME NEW s \in Sessions
        PROVE  /\ s < session' => thread'[s] = "ended"
               /\ s > session' => thread'[s] = "none" /\ decoded'[s] = <<>>
               /\ s = session' => thread'[s] # "none"
                                  /\ (thread'[s] = "ended" => mem_reader_quit' = TRUE)
    <3>1. s \in Nat /\ 1 <= s
      BY <1>2
    <3>2. CASE s = session + 1
      BY <1>1, <1>2, <2>1, <3>1, <3>2
    <3>3. CASE s < session + 1
      <4>1. s \in 1..session
        BY <1>2, <3>1, <3>3
      <4>2. thread'[s] = "ended"
        BY <1>1, <1>2, <2>1, <3>1, <3>3, <4>1
      <4>3. ~(s > session + 1) /\ s # session + 1
        BY <1>2, <3>1, <3>3
      <4> QED BY ONLY <1>1, <4>2, <4>3
    <3>4. CASE s > session + 1
      <4>1. s > session /\ s # session + 1 /\ ~(s < session + 1)
        BY <1>2, <3>1, <3>4
      <4>2. thread[s] = "none" /\ decoded[s] = <<>>
        BY <4>1 DEF MemInv, ThreadInv
      <4> QED BY ONLY <1>1, <2>1, <4>1, <4>2, s \in Sessions
    <3>5. s = session + 1 \/ s < session + 1 \/ s > session + 1
      BY ONLY <1>2, <3>1
    <3> QED BY ONLY <3>2, <3>3, <3>4, <3>5
  <2>3. session' # 0
    BY ONLY <1>1, <1>2
  <2> QED BY ONLY <2>2, <2>3 DEF ThreadInv
<1>8. DecodedInv'
  <2>1. ASSUME NEW s \in Sessions, s <= session + 1
        PROVE  /\ since'[s] + Len(decoded[s]) <= Len(log)
               /\ \A k \in 1..Len(decoded[s]) : decoded[s][k] = log[since'[s] + k]
    <3>1. CASE s = session + 1
      <4>1. Len(decoded[s]) = 0 /\ since'[s] = Len(log)
        BY <1>4, <1>5, <3>1
      <4> QED BY ONLY <1>3, <4>1
    <3>2. CASE s # session + 1
      <4>1. s <= session
        BY <1>2, <2>1, <3>2
      <4> QED BY <1>5, <4>1 DEF MemInv, DecodedInv
    <3> QED BY <3>1, <3>2
  <2> QED BY <1>1, <2>1 DEF DecodedInv
<1>9. BufferInv'
  <2>1. Len(decoded[session + 1]) = 0 /\ Len(buffer') = 0
    BY <1>1, <1>4
  <2>2. since'[session'] = Len(log) /\ Len(decoded'[session']) = 0 /\ log' = log
    BY <1>1, <1>5, <2>1
  <2>3. since'[session'] + Len(decoded'[session']) = Len(log)
    BY ONLY <1>3, <2>2
  <2>4. Len(log') - Len(buffer') + cur_pos' = Len(log)
    BY ONLY <1>1, <1>3, <2>1
  <2>5. Known(log, Len(log), Len(log)) = 0
    BY <1>3, KnownNone
  <2>6. Stands(log', since'[session'], buffer', cur_pos')
    <3>1. (cur_pos' + 1)..Len(buffer') = {}
      BY ONLY <1>1, <2>1
    <3> QED BY <3>1 DEF Stands
  <2> QED BY ONLY <1>1, <2>2, <2>3, <2>4, <2>5, <2>6 DEF BufferInv
<1>10. EncoderInv'
  <2>1. FirstAddress'
    <3>1. (since'[session'] + 1)..Len(log') = {}
      BY ONLY <1>1, <1>3, <1>5
    <3> QED BY <3>1 DEF FirstAddress
  <2>2. session' = 1 => last_word_address' = 0
    <3>1. session' = 1 => session = 0
      BY ONLY <1>1, <1>2
    <3> QED BY <1>1, <3>1 DEF MemInv, ThreadInv
  <2> QED BY <2>1, <2>2 DEF EncoderInv
<1> QED BY <1>6, <1>7, <1>8, <1>9, <1>10 DEF MemInv

\* What only moves threads, ends a session or wakes somebody up.
LEMMA ThreadsMove ==
  ASSUME MemInv, UNCHANGED <<session, log, since, decoded, buffer, size, cur_pos,
                             reader_address, last_word_address>>,
         mem_reader' \in BOOLEAN, mem_reader_quit' \in BOOLEAN,
         mem_reader_quit => mem_reader_quit',
         thread' \in [Sessions -> {"none", "next", "waiting", "busy", "ended"}],
         \A s \in Sessions :
           /\ (thread'[s] = "none") = (thread[s] = "none")
           /\ thread[s] = "ended" => thread'[s] = "ended"
           /\ thread'[s] = "ended" => thread[s] = "ended" \/ mem_reader_quit'
  PROVE  MemInv'
<1>1. TypeOK'
  BY DEF MemInv, TypeOK
<1>2. ThreadInv'
  BY DEF MemInv, ThreadInv, TypeOK
<1>3. DecodedInv' /\ BufferInv' /\ EncoderInv'
  BY DEF MemInv, DecodedInv, BufferInv, EncoderInv, FirstAddress
<1> QED BY <1>1, <1>2, <1>3 DEF MemInv

\* What mem_reader_next_event decodes is the event of the log that is next for
\* its session, whatever the encoder made of it.
LEMMA NextEventIs ==
  ASSUME MemInv, NEW t \in Sessions, NextEvent(t)
  PROVE  /\ t = session /\ session > 0 /\ thread[t] = "next" /\ mem_reader_quit = FALSE
         /\ cur_pos < size /\ cur_pos' = cur_pos + 1
         /\ \A p \in Nat : p = since[t] + Len(decoded[t]) + 1 =>
              /\ p \in 1..Len(log)
              /\ decoded' = [decoded EXCEPT ![t] = Append(@, log[p])]
              /\ reader_address' = Known(log, since[t], p)
<1>1. /\ thread[t] = "next" /\ mem_reader_quit = FALSE /\ size # cur_pos /\ cur_pos' = cur_pos + 1
      /\ size \in 0..Len(buffer) /\ cur_pos \in 0..size
      /\ Len(log) \in Nat /\ Len(buffer) \in Nat /\ log \in Seq(Int) /\ buffer \in Seq(Encodings)
      /\ t \in Nat /\ session \in Nat /\ since[t] \in Nat /\ Len(decoded[t]) \in Nat
  BY Numbers, MemAssumption DEF NextEvent, MustWait, MemInv, TypeOK, Sessions
<1>2. t = session /\ session > 0
  <2>1. ~(t < session) /\ ~(t > session)
    BY <1>1 DEF MemInv, ThreadInv
  <2>2. session # 0
    BY <1>1 DEF MemInv, ThreadInv
  <2> QED BY ONLY <1>1, <2>1, <2>2
<1>3. cur_pos < size /\ cur_pos + 1 \in 1..Len(buffer) /\ cur_pos \in Nat
  BY ONLY <1>1
<1>4. /\ since[t] + Len(decoded[t]) = Len(log) - Len(buffer) + cur_pos
      /\ reader_address = Known(log, since[t], since[t] + Len(decoded[t]))
      /\ Stands(log, since[t], buffer, cur_pos)
  BY <1>2 DEF MemInv, BufferInv
<1> DEFINE e == buffer[cur_pos + 1]
<1>5. /\ reader_address' = Decoded(e)
      /\ decoded' = [decoded EXCEPT ![t] =
           Append(@, CASE e.kind = "adjust" -> Adjust
                       [] e.kind = "other"  -> Other
                       [] OTHER             -> reader_address')]
  BY DEF NextEvent
<1>6. e \in Encodings
  BY <1>1, <1>3
<1> SUFFICES ASSUME NEW p \in Nat, p = since[t] + Len(decoded[t]) + 1
             PROVE  /\ p \in 1..Len(log)
                    /\ decoded' = [decoded EXCEPT ![t] = Append(@, log[p])]
                    /\ reader_address' = Known(log, since[t], p)
  BY <1>1, <1>2, <1>3
<1>7. PICK q \in Nat : q = since[t] + Len(decoded[t])
  BY <1>1
<1>8. /\ p = q + 1 /\ p - 1 = q /\ p \in 1..Len(log) /\ since[t] <= q
      /\ p + Len(buffer) = Len(log) + (cur_pos + 1)
      /\ cur_pos + 1 \in (cur_pos + 1)..Len(buffer)
  <2>1. /\ Len(log) \in Nat /\ Len(buffer) \in Nat /\ cur_pos \in Nat /\ since[t] \in Nat
        /\ Len(decoded[t]) \in Nat /\ cur_pos + 1 \in 1..Len(buffer)
        /\ since[t] + Len(decoded[t]) = Len(log) - Len(buffer) + cur_pos
    BY ONLY <1>1, <1>3, <1>4
  <2>2. p = q + 1
    BY ONLY <1>7, p = since[t] + Len(decoded[t]) + 1
  <2> QED BY ONLY <1>7, <2>1, <2>2
<1>9. Encodes(e, log[p], Known(log, since[t], q))
  <2>1. Encodes(e, log[p], Known(log, since[t], p - 1))
    BY <1>4, <1>8 DEF Stands
  <2> QED BY ONLY <1>8, <2>1
<1>10. Known(log, since[t], p) = IF log[p] \in Addresses THEN log[p] ELSE Known(log, since[t], q)
  <2>1. Known(log, since[t], q + 1)
          = IF log[q + 1] \in Addresses THEN log[q + 1] ELSE Known(log, since[t], q)
    BY <1>1, <1>7, <1>8, KnownNext, ZenonT(30)
  <2> QED BY ONLY <1>8, <2>1
<1>11. reader_address = Known(log, since[t], q)
  BY ONLY <1>4, <1>7
<1>12. e.kind \in {"word", "delta", "adjust", "other"}
  BY <1>6 DEF Encodings
<1> HIDE DEF e
<1>13. CASE e.kind = "word" \/ e.kind = "delta"
  <2>1. log[p] \in Addresses /\ Decoded(e) = log[p]
    BY <1>9, <1>11, <1>13 DEF Encodes, Decoded
  <2>2. decoded' = [decoded EXCEPT ![t] = Append(@, reader_address')]
    BY <1>5, <1>13
  <2> QED BY <1>5, <1>8, <1>10, <2>1, <2>2
<1>14. CASE e.kind = "adjust"
  <2>1. log[p] = Adjust /\ log[p] \notin Addresses /\ Decoded(e) = reader_address
    BY <1>9, <1>14, Markers DEF Encodes, Decoded
  <2>2. decoded' = [decoded EXCEPT ![t] = Append(@, Adjust)]
    BY <1>5, <1>14
  <2> QED BY <1>5, <1>8, <1>10, <1>11, <2>1, <2>2
<1>15. CASE e.kind = "other"
  <2>1. log[p] = Other /\ log[p] \notin Addresses /\ Decoded(e) = reader_address
    BY <1>9, <1>15, Markers DEF Encodes, Decoded
  <2>2. decoded' = [decoded EXCEPT ![t] = Append(@, Other)]
    BY <1>5, <1>15
  <2> QED BY <1>5, <1>8, <1>10, <1>11, <2>1, <2>2
<1> QED BY <1>12, <1>13, <1>14, <1>15

LEMMA NextEventStep ==
  ASSUME MemInv, NEW t \in Sessions, NextEvent(t)
  PROVE  MemInv'
<1>1. /\ t = session /\ session > 0 /\ thread[t] = "next" /\ mem_reader_quit = FALSE
      /\ cur_pos < size /\ cur_pos' = cur_pos + 1
  BY NextEventIs
<1>2. /\ since[t] \in Nat /\ Len(decoded[t]) \in Nat /\ Len(log) \in Nat /\ Len(buffer) \in Nat
      /\ log \in Seq(Int) /\ decoded[t] \in Seq(Int)
      /\ size \in 0..Len(buffer) /\ cur_pos \in 0..size
  BY Numbers DEF MemInv, TypeOK
<1>3. PICK p \in Nat : p = since[t] + Len(decoded[t]) + 1
  BY <1>2
<1>4. /\ p \in 1..Len(log)
      /\ decoded' = [decoded EXCEPT ![t] = Append(@, log[p])]
      /\ reader_address' = Known(log, since[t], p)
  BY <1>3, NextEventIs
<1>5. UNCHANGED <<session, log, since, buffer, size, mem_reader, mem_reader_quit, last_word_address>>
      /\ thread' = [thread EXCEPT ![t] = "busy"]
  BY DEF NextEvent
<1>6. /\ log[p] \in Int /\ decoded' \in [Sessions -> Seq(Int)]
      /\ decoded'[t] = Append(decoded[t], log[p])
      /\ \A s \in Sessions : s # t => decoded'[s] = decoded[s]
  BY <1>2, <1>4 DEF MemInv, TypeOK
<1>7. /\ Len(decoded'[t]) = Len(decoded[t]) + 1
      /\ \A k \in 1..Len(decoded[t]) : decoded'[t][k] = decoded[t][k]
      /\ decoded'[t][Len(decoded[t]) + 1] = log[p]
  BY <1>2, <1>6
<1>8. TypeOK'
  <2>1. reader_address' \in Nat
    BY <1>2, <1>3, <1>4, KnownType
  <2>2. cur_pos' \in 0..size
    BY ONLY <1>1, <1>2
  <2>3. /\ log' \in Seq(Addresses \cup {Adjust, Other}) /\ buffer' \in Seq(Encodings)
        /\ session' \in 0..MaxSessions /\ since' \in [Sessions -> Nat]
        /\ mem_reader' \in BOOLEAN /\ mem_reader_quit' \in BOOLEAN /\ last_word_address' \in Nat
        /\ thread' \in [Sessions -> {"none", "next", "waiting", "busy", "ended"}]
    BY <1>5 DEF MemInv, TypeOK
  <2>4. size' \in 0..Len(buffer') /\ cur_pos' \in 0..size'
    BY ONLY <1>2, <1>5, <2>2
  <2> QED BY ONLY <1>6, <2>1, <2>3, <2>4 DEF TypeOK
<1>9. ThreadInv'
  BY <1>1, <1>5, <1>6, <1>2 DEF MemInv, ThreadInv, TypeOK
<1>10. DecodedInv'
  <2> SUFFICES ASSUME NEW s \in Sessions, s <= session
               PROVE  /\ since[s] + Len(decoded'[s]) <= Len(log)
                      /\ \A k \in 1..Len(decoded'[s]) : decoded'[s][k] = log[since[s] + k]
    BY <1>5 DEF DecodedInv
  <2>1. /\ since[s] + Len(decoded[s]) <= Len(log)
        /\ \A k \in 1..Len(decoded[s]) : decoded[s][k] = log[since[s] + k]
    BY DEF MemInv, DecodedInv
  <2>2. CASE s = t
    <3>1. since[t] + Len(decoded'[t]) <= Len(log)
      BY ONLY <1>2, <1>3, <1>4, <1>7
    <3>2. ASSUME NEW k \in 1..Len(decoded'[t])
          PROVE  decoded'[t][k] = log[since[t] + k]
      <4>1. k \in 1..Len(decoded[t]) \/ (k = Len(decoded[t]) + 1 /\ since[t] + k = p)
        <5>1. /\ Len(decoded'[t]) = Len(decoded[t]) + 1 /\ Len(decoded[t]) \in Nat
              /\ since[t] \in Nat
          BY ONLY <1>2, <1>7
        <5>2. k \in 1..(Len(decoded[t]) + 1)
          BY ONLY <5>1, k \in 1..Len(decoded'[t])
        <5> QED BY ONLY <1>3, <5>1, <5>2
      <4>2. CASE k \in 1..Len(decoded[t])
        BY ONLY <1>7, <2>1, <2>2, <4>2
      <4>3. CASE k = Len(decoded[t]) + 1 /\ since[t] + k = p
        BY ONLY <1>7, <4>3
      <4> QED BY ONLY <4>1, <4>2, <4>3
    <3> QED BY ONLY <2>2, <3>1, <3>2
  <2>3. CASE s # t
    BY ONLY <1>6, <2>1, <2>3, s \in Sessions
  <2> QED BY ONLY <2>2, <2>3
<1>11. BufferInv'
  <2>1. /\ since[session] + Len(decoded[session]) = Len(log) - Len(buffer) + cur_pos
        /\ Stands(log, since[session], buffer, cur_pos)
    BY <1>1 DEF MemInv, BufferInv
  <2>2. Stands(log, since[session], buffer, cur_pos + 1)
    <3>1. \A k \in (cur_pos + 1 + 1)..Len(buffer) : k \in (cur_pos + 1)..Len(buffer)
      BY ONLY <1>2
    <3> QED BY <2>1, <3>1 DEF Stands
  <2>3. p = Len(log) - Len(buffer) + (cur_pos + 1) /\ p = since[t] + Len(decoded'[t])
    <3>1. since[t] + Len(decoded[t]) = Len(log) - Len(buffer) + cur_pos
      BY ONLY <1>1, <2>1, Zenon
    <3>2. Len(decoded'[t]) = Len(decoded[t]) + 1
      BY ONLY <1>7, Zenon
    <3>3. /\ since[t] \in Nat /\ Len(decoded[t]) \in Nat /\ Len(log) \in Nat
          /\ Len(buffer) \in Nat /\ cur_pos \in Nat
      BY ONLY <1>2
    <3> QED BY ONLY <1>3, <3>1, <3>2, <3>3
  <2>4. /\ since'[session'] + Len(decoded'[session']) = Len(log') - Len(buffer') + cur_pos'
        /\ reader_address' = Known(log', since'[session'], since'[session'] + Len(decoded'[session']))
        /\ Stands(log', since'[session'], buffer', cur_pos')
    BY ONLY <1>1, <1>4, <1>5, <2>2, <2>3
  <2> QED BY ONLY <2>4 DEF BufferInv
<1>12. EncoderInv'
  BY <1>5 DEF MemInv, EncoderInv, FirstAddress
<1> QED BY <1>8, <1>9, <1>10, <1>11, <1>12 DEF MemInv

LEMMA MemStep ==
  ASSUME Unexposed, MemInv, [Next]_vars
  PROVE  MemInv'
<1>1. ASSUME NEW a \in Addresses, EventVramWord(a) PROVE MemInv'
  BY <1>1, WordStep
<1>2. CASE EventCycleAdjust
  BY <1>2, AdjustStep
<1>3. CASE EventPublished
  BY <1>3, PublishedStep
<1>4. CASE Start
  BY <1>4, StartStep
<1>5. CASE Stop
  BY <1>5, WokenKeeps, ThreadsMove DEF Stop, historyVars, MemInv, TypeOK
<1>6. ASSUME NEW t \in Sessions, NextEvent(t) PROVE MemInv'
  BY <1>6, NextEventStep
<1>7. ASSUME NEW t \in Sessions, Wait(t) \/ SpuriousWakeup(t) \/ EndOfFile(t) \/ Draw(t)
      PROVE  MemInv'
  <2>1. /\ UNCHANGED <<session, log, since, decoded, buffer, size, cur_pos, reader_address,
                       last_word_address, mem_reader_quit>>
        /\ mem_reader' \in BOOLEAN /\ mem_reader_quit' \in BOOLEAN
        /\ \/ thread' = [thread EXCEPT ![t] = "waiting"] /\ thread[t] = "next"
           \/ thread' = [thread EXCEPT ![t] = "next"] /\ thread[t] \in {"waiting", "busy"}
           \/ thread' = [thread EXCEPT ![t] = "ended"] /\ thread[t] = "next" /\ mem_reader_quit
    BY <1>7 DEF Wait, SpuriousWakeup, EndOfFile, Draw, historyVars, readerVars, MemInv, TypeOK
  <2>2. /\ thread' \in [Sessions -> {"none", "next", "waiting", "busy", "ended"}]
        /\ \A s \in Sessions :
             /\ (thread'[s] = "none") = (thread[s] = "none")
             /\ thread[s] = "ended" => thread'[s] = "ended"
             /\ thread'[s] = "ended" => thread[s] = "ended" \/ mem_reader_quit'
    BY <2>1 DEF MemInv, TypeOK
  <2> QED BY <2>1, <2>2, ThreadsMove
<1>8. CASE UNCHANGED vars
  BY <1>8 DEF vars, historyVars, readerVars, MemInv, TypeOK, ThreadInv, DecodedInv, BufferInv,
              EncoderInv, FirstAddress
<1> QED BY <1>1, <1>2, <1>3, <1>4, <1>5, <1>6, <1>7, <1>8 DEF Next, RenderThread

\* The fields of buffer, mem_reader and the threads keep their types
\* (event_log.c, vdp.c).
THEOREM MemTypeCorrect ==
  ASSUME Unexposed
  PROVE  Spec => []TypeOK
<1>1. Unexposed
  OBVIOUS
<1>2. MemInv /\ [Next]_vars => MemInv'
  BY <1>1, MemStep
<1>3. MemInv => TypeOK
  BY DEF MemInv
<1> QED BY MemInit, <1>2, <1>3, PTL DEF Spec

\* Every render thread decodes its session's events, addresses and all, in
\* order, none twice and none left out, however event_log and
\* mem_reader_next_event interleave.
THEOREM DecodesTheLog ==
  ASSUME Unexposed
  PROVE  Spec => []DecodesWhatWasLogged
<1>1. Unexposed
  OBVIOUS
<1>2. MemInv /\ [Next]_vars => MemInv'
  BY <1>1, MemStep
<1>3. MemInv => DecodesWhatWasLogged
  <2> SUFFICES ASSUME MemInv, NEW s \in 1..session
               PROVE  IsPrefix(decoded[s], SubSeq(log, since[s] + 1, Len(log)))
    BY DEF DecodesWhatWasLogged
  <2>1. s \in Sessions /\ s <= session
    BY MemAssumption DEF MemInv, TypeOK, Sessions
  <2>2. /\ since[s] + Len(decoded[s]) <= Len(log)
        /\ \A k \in 1..Len(decoded[s]) : decoded[s][k] = log[since[s] + k]
        /\ since[s] \in Nat /\ Len(decoded[s]) \in Nat /\ Len(log) \in Nat
    BY <2>1, Numbers DEF MemInv, DecodedInv
  <2>3. decoded[s] \in Seq(Int) /\ log \in Seq(Int)
    BY <2>1, Numbers DEF MemInv, TypeOK
  <2> DEFINE rest == SubSeq(log, since[s] + 1, Len(log))
  <2>4. /\ Len(rest) = Len(log) - since[s] /\ rest \in Seq(Int)
        /\ \A k \in 1..(Len(log) - since[s]) : rest[k] = log[since[s] + k]
    <3>1. since[s] \in 0..Len(log)
      BY ONLY <2>2
    <3>2. rest \in Seq(Int) /\ Len(rest) = Len(log) - since[s]
      BY <2>3, <3>1, SplitAt
    <3>3. \A k \in 1..(Len(log) - since[s]) : rest[k] = log[since[s] + k]
      BY ONLY <2>3, <3>1, RestIs
    <3> QED BY <3>2, <3>3
  <2> HIDE DEF rest
  <2>5. Len(decoded[s]) <= Len(rest)
    BY ONLY <2>2, <2>4
  <2>6. SubSeq(rest, 1, Len(decoded[s])) = SubSeq(decoded[s], 1, Len(decoded[s]))
    <3>1. \A k \in 1..Len(decoded[s]) : rest[k] = decoded[s][k]
      <4> TAKE k \in 1..Len(decoded[s])
      <4>1. k \in 1..(Len(log) - since[s])
        BY ONLY <2>2, k \in 1..Len(decoded[s])
      <4> QED BY ONLY <2>2, <2>4, <4>1, k \in 1..Len(decoded[s])
    <3> QED BY <2>2, <2>3, <2>4, <2>5, <3>1
  <2> QED BY <2>5, <2>6 DEF IsPrefix, rest
<1> QED BY MemInit, <1>2, <1>3, PTL DEF Spec
-----------------------------------------------------------------------------
(* The stream of EventStream. *)

\* As the mapping to EventStream has it: the events of the log that were decoded.
GivenOf(got, begun, l) ==
  [s \in Sessions |->
    [k \in DOMAIN got[s] |-> IF got[s][k] = l[begun[s] + k] THEN begun[s] + k ELSE 0]]
Given == GivenOf(decoded, since, log)
Following == {s \in Sessions : thread[s] \notin {"none", "ended"}}

\* With nothing decoded wrong, those are the first after the thread's start.
LEMMA GivenIs ==
  ASSUME NEW got \in [Sessions -> Seq(Int)], NEW begun \in [Sessions -> Nat], NEW l,
         NEW s \in Sessions,
         \A k \in 1..Len(got[s]) : got[s][k] = l[begun[s] + k]
  PROVE  GivenOf(got, begun, l)[s] = After(begun[s], Len(got[s]))
<1>1. DOMAIN got[s] = 1..Len(got[s])
  OBVIOUS
<1>2. \A k \in DOMAIN got[s] : got[s][k] = l[begun[s] + k]
  BY <1>1
<1> QED BY <1>1, <1>2 DEF GivenOf, After

\* Every thread's, before and after a step.
LEMMA GivenNow ==
  ASSUME MemInv, NEW s \in Sessions
  PROVE  Given[s] = After(since[s], Len(decoded[s]))
<1>1. decoded \in [Sessions -> Seq(Int)] /\ since \in [Sessions -> Nat] /\ s \in Nat /\ session \in Nat
  BY MemAssumption DEF MemInv, TypeOK, Sessions
<1>2. \A k \in 1..Len(decoded[s]) : decoded[s][k] = log[since[s] + k]
  <2>1. CASE s <= session
    BY <2>1 DEF MemInv, DecodedInv
  <2>2. CASE s > session
    <3>1. decoded[s] = <<>>
      BY <2>2 DEF MemInv, ThreadInv
    <3>2. 1..Len(decoded[s]) = {}
      BY ONLY <3>1
    <3> QED BY <3>2
  <2> QED BY <1>1, <2>1, <2>2
<1> QED BY <1>1, <1>2, GivenIs DEF Given

LEMMA GivenThen ==
  ASSUME MemInv', NEW s \in Sessions
  PROVE  Given'[s] = After(since'[s], Len(decoded'[s]))
<1>1. decoded' \in [Sessions -> Seq(Int)] /\ since' \in [Sessions -> Nat] /\ s \in Nat /\ session' \in Nat
  BY MemAssumption DEF MemInv, TypeOK, Sessions
<1>2. \A k \in 1..Len(decoded'[s]) : decoded'[s][k] = log'[since'[s] + k]
  <2>1. CASE s <= session'
    BY <2>1 DEF MemInv, DecodedInv
  <2>2. CASE s > session'
    <3>1. decoded'[s] = <<>>
      BY <2>2 DEF MemInv, ThreadInv
    <3>2. 1..Len(decoded'[s]) = {}
      BY ONLY <3>1
    <3> QED BY <3>2
  <2> QED BY <1>1, <2>1, <2>2
<1> QED BY <1>1, <1>2, GivenIs DEF Given

\* Steps in which followers decode at most one event each and some leave.
LEMMA Advances ==
  ASSUME MemInv, MemInv', session' = session, since' = since,
         Len(log)' \in {Len(log), Len(log) + 1}, NEW left \in SUBSET Following,
         Following' = Following \ left,
         \A s \in Sessions : \/ decoded'[s] = decoded[s]
                             \/ s \in Following /\ Len(decoded'[s]) = Len(decoded[s]) + 1
  PROVE  Stream!StreamNext
<1>0. PICK now \in {Len(log), Len(log) + 1} : now = Len(log)'
  OBVIOUS
<1>1. ASSUME NEW s \in Following
      PROVE  \E n \in 0..Stream!Missing(s, now) : Given'[s] = Given[s] \o Stream!NextEvents(s, n)
  <2> DEFINE b == since[s]
             d == Len(decoded[s])
             d2 == Len(decoded'[s])
  <2>1. s \in Sessions /\ s <= session
    <3>1. s \in Sessions /\ thread[s] # "none"
      BY DEF Following
    <3>2. ~(s > session)
      BY <3>1 DEF MemInv, ThreadInv
    <3>3. s \in Nat /\ session \in Nat
      BY <3>1, MemAssumption DEF MemInv, TypeOK, Sessions
    <3> QED BY ONLY <3>1, <3>2, <3>3
  <2>2. /\ b \in Nat /\ d \in Nat /\ d2 \in Nat /\ Len(log)' \in Nat
        /\ d2 = d \/ d2 = d + 1
    <3>1. b \in Nat /\ d \in Nat
      BY <2>1, Numbers
    <3>2. d2 \in Nat /\ Len(log)' \in Nat
      BY <2>1 DEF MemInv, TypeOK
    <3>3. d2 = d \/ d2 = d + 1
      BY <2>1
    <3> QED BY ONLY <3>1, <3>2, <3>3
  <2>3. b + d2 <= Len(log)'
    BY <2>1 DEF MemInv, DecodedInv
  <2>4. Given[s] = After(b, d) /\ Given'[s] = After(b, d2)
    BY <2>1, GivenNow, GivenThen
  <2>5. Stream!Missing(s, now) = now - b - Len(Given[s])
    BY DEF Stream!Missing, Given, GivenOf
  <2>6. \A n : Stream!NextEvents(s, n) = [k \in 1..n |-> b + Len(Given[s]) + k]
    BY DEF Stream!NextEvents, Given, GivenOf
  <2> HIDE DEF b, d, d2
  <2>7. Len(Given[s]) = d
    BY <2>2, <2>4, AfterType
  <2>8. CASE d2 = d
    <3>1. 0 \in 0..Stream!Missing(s, now)
      BY ONLY <1>0, <2>2, <2>3, <2>5, <2>7, <2>8
    <3>2. Stream!NextEvents(s, 0) = <<>>
      BY <2>6
    <3>3. After(b, d) \o <<>> = After(b, d)
      BY <2>2, AfterType
    <3>4. Given'[s] = Given[s] \o Stream!NextEvents(s, 0)
      BY ONLY <2>4, <2>8, <3>2, <3>3
    <3> QED BY <3>1, <3>4
  <2>9. CASE d2 = d + 1
    <3>1. 1 \in 0..Stream!Missing(s, now)
      BY ONLY <1>0, <2>2, <2>3, <2>5, <2>7, <2>9
    <3>2. Stream!NextEvents(s, 1) = <<b + d + 1>>
      <4>1. \A x : [k \in 1..1 |-> x + k] = <<x + 1>>
        OBVIOUS
      <4>2. Stream!NextEvents(s, 1) = [k \in 1..1 |-> (b + d) + k]
        BY ONLY <2>6, <2>7, Zenon
      <4> QED BY ONLY <4>1, <4>2
    <3>3. After(b, d) \in Seq(Nat) /\ Append(After(b, d), b + d + 1) = After(b, d + 1)
          /\ b + d + 1 \in Nat
      <4>1. b \in Nat /\ d \in Nat
        BY <2>2
      <4>2. b + d + 1 \in Nat
        BY ONLY <4>1
      <4> QED BY ONLY <4>1, <4>2, AfterType, AfterGrows
    <3>4. \A q \in Seq(Nat), x \in Nat : q \o <<x>> = Append(q, x)
      OBVIOUS
    <3>5. Given'[s] = Given[s] \o Stream!NextEvents(s, 1)
      BY ONLY <2>4, <2>9, <3>2, <3>3, <3>4
    <3> QED BY <3>1, <3>5
  <2> QED BY ONLY <2>2, <2>8, <2>9
<1>2. ASSUME NEW s \in Sessions \ Following
      PROVE  Given'[s] = Given[s]
  <2>1. decoded'[s] = decoded[s] /\ since'[s] = since[s]
    OBVIOUS
  <2>2. Given'[s] = After(since'[s], Len(decoded'[s])) /\ Given[s] = After(since[s], Len(decoded[s]))
    BY GivenNow, GivenThen
  <2> QED BY ONLY <2>1, <2>2
<1>3. Given' = [s \in Sessions |-> Given'[s]]
  BY DEF Given, GivenOf
<1>4. Stream!Advance(now, left)
  BY <1>0, <1>1, <1>2, <1>3 DEF Stream!Advance, Given, GivenOf, Following
<1> QED BY <1>4 DEF Stream!StreamNext, Following

LEMMA StreamInit == Init => MemInv /\ Stream!StreamInit
<1> SUFFICES ASSUME Init PROVE MemInv /\ Stream!StreamInit
  OBVIOUS
<1>1. MemInv
  BY MemInit
<1>2. Len(log) = 0 /\ Following = {} /\ since = [s \in Sessions |-> 0]
  BY DEF Init, Following
<1>3. Given = [s \in Sessions |-> <<>>]
  <2>1. \A s \in Sessions : DOMAIN decoded[s] = {}
    BY DEF Init
  <2> QED BY <2>1 DEF Given, GivenOf
<1> QED BY <1>1, <1>2, <1>3 DEF Stream!StreamInit, Given, GivenOf, Following

\* Nothing is decoded and nobody comes or goes.
LEMMA Stutters ==
  ASSUME UNCHANGED <<log, since, decoded>>, Following' = Following
  PROVE  UNCHANGED Stream!streamVars
BY DEF Stream!streamVars, Following

LEMMA StreamStep ==
  ASSUME Unexposed, MemInv, [Next]_vars
  PROVE  MemInv' /\ [Stream!StreamNext]_(Stream!streamVars)
<1>1. MemInv'
  BY MemStep
<1>2. /\ thread \in [Sessions -> {"none", "next", "waiting", "busy", "ended"}]
      /\ decoded \in [Sessions -> Seq(Int)]
  BY DEF MemInv, TypeOK
<1>3. ASSUME UNCHANGED <<session, since, decoded>>, Len(log)' = Len(log) + 1,
             \/ thread' = Woken
             \/ thread' = thread
      PROVE  Stream!StreamNext
  <2>1. Following' = Following
    BY <1>3, WokenKeeps DEF Following
  <2>2. /\ {} \in SUBSET Following /\ Len(log)' \in {Len(log), Len(log) + 1}
        /\ Following' = Following \ {}
    BY <1>3, <2>1
  <2> QED BY <1>1, <1>3, <2>1, <2>2, Advances
<1>4. Len(log) \in Nat /\ log \in Seq(Int)
  BY Numbers
<1>5. ASSUME NEW a \in Addresses, EventVramWord(a)
      PROVE  Stream!StreamNext
  <2>1. UNCHANGED <<session, since, decoded>> /\ log' = Append(log, a) /\ thread' = Woken
    BY <1>5 DEF EventVramWord, Publish
  <2>2. Len(log)' = Len(log) + 1
    BY ONLY <1>4, <2>1
  <2> QED BY ONLY <1>3, <2>1, <2>2
<1>6. ASSUME EventCycleAdjust PROVE Stream!StreamNext
  <2>1. UNCHANGED <<session, since, decoded>> /\ log' = Append(log, Adjust) /\ thread' = thread
    BY <1>6 DEF EventCycleAdjust
  <2>2. Len(log)' = Len(log) + 1
    BY ONLY <1>4, <2>1
  <2> QED BY ONLY <1>3, <2>1, <2>2
<1>7. ASSUME EventPublished PROVE Stream!StreamNext
  <2>1. UNCHANGED <<session, since, decoded>> /\ log' = Append(log, Other) /\ thread' = Woken
    BY <1>7 DEF EventPublished, Publish
  <2>2. Len(log)' = Len(log) + 1
    BY ONLY <1>4, <2>1
  <2> QED BY ONLY <1>3, <2>1, <2>2
<1>8. ASSUME Start PROVE Stream!StreamNext
  <2>1. /\ session + 1 \in Sessions /\ session \in Nat
        /\ since' = [since EXCEPT ![session + 1] = Len(log)]
        /\ thread' = [thread EXCEPT ![session + 1] = "next"]
        /\ UNCHANGED <<log, decoded>>
    BY <1>8, MemAssumption DEF Start, Sessions, MemInv, TypeOK
  <2>2. thread[session + 1] = "none" /\ decoded[session + 1] = <<>>
    BY <2>1 DEF MemInv, ThreadInv
  <2>3. PICK next \in SUBSET (Sessions \ Following) : next = {session + 1}
    BY <2>1, <2>2 DEF Following
  <2>4. Following' = Following \cup {session + 1}
    BY <1>2, <2>1 DEF Following
  <2>5. since' = [s \in Sessions |-> IF s \in {session + 1} THEN Len(log) ELSE since[s]]
    BY <2>1 DEF MemInv, TypeOK
  <2>6. Given' = Given
    <3>1. ASSUME NEW s \in Sessions PROVE Given'[s] = Given[s]
      <4>1. Given'[s] = After(since'[s], Len(decoded'[s])) /\ Given[s] = After(since[s], Len(decoded[s]))
        BY <1>1, GivenNow, GivenThen
      <4>2. CASE s = session + 1
        <5>1. Len(decoded[s]) = 0 /\ decoded' = decoded
          BY <2>1, <2>2, <4>2
        <5>2. since'[s] \in Nat /\ since[s] \in Nat
          BY <1>1 DEF MemInv, TypeOK
        <5> QED BY ONLY <4>1, <5>1, <5>2, AfterNone
      <4>3. CASE s # session + 1
        BY ONLY <2>1, <2>5, <4>1, <4>3, s \in Sessions
      <4> QED BY <4>2, <4>3
    <3>2. Given = [s \in Sessions |-> Given[s]] /\ Given' = [s \in Sessions |-> Given'[s]]
      BY DEF Given, GivenOf
    <3> QED BY ONLY <3>1, <3>2
  <2>7. Stream!Join(next)
    BY <2>1, <2>3, <2>4, <2>5, <2>6 DEF Stream!Join, Given, GivenOf, Following
  <2> QED BY <2>7 DEF Stream!StreamNext, Following
<1>9. ASSUME NEW t \in Sessions, NextEvent(t)
      PROVE  Stream!StreamNext
  <2>1. UNCHANGED <<session, since, log>> /\ thread' = [thread EXCEPT ![t] = "busy"]
        /\ thread[t] = "next"
    BY <1>9 DEF NextEvent
  <2>2. PICK p \in Nat : p = since[t] + Len(decoded[t]) + 1
    BY Numbers
  <2>3. decoded' = [decoded EXCEPT ![t] = Append(@, log[p])] /\ p \in 1..Len(log)
    BY <1>9, <2>2, NextEventIs
  <2>4. log[p] \in Int
    BY <1>4, <2>3
  <2>5. Len(decoded'[t]) = Len(decoded[t]) + 1 /\ \A s \in Sessions : s # t => decoded'[s] = decoded[s]
    BY <1>2, <2>3, <2>4
  <2>6. Following' = Following /\ t \in Following
    BY <1>2, <2>1 DEF Following
  <2>7. /\ {} \in SUBSET Following /\ Len(log)' \in {Len(log), Len(log) + 1}
        /\ Following' = Following \ {}
    BY <2>1, <2>6
  <2>8. \A s \in Sessions : \/ decoded'[s] = decoded[s]
                            \/ s \in Following /\ Len(decoded'[s]) = Len(decoded[s]) + 1
    BY <2>5, <2>6
  <2> QED BY <1>1, <2>1, <2>7, <2>8, Advances
<1>10. ASSUME NEW t \in Sessions, EndOfFile(t)
       PROVE  Stream!StreamNext
  <2>1. UNCHANGED <<session, since, log, decoded>> /\ thread' = [thread EXCEPT ![t] = "ended"]
        /\ thread[t] = "next"
    BY <1>10 DEF EndOfFile, historyVars
  <2>2. Following' = Following \ {t} /\ t \in Following
    BY <1>2, <2>1 DEF Following
  <2>3. {t} \in SUBSET Following /\ Len(log)' \in {Len(log), Len(log) + 1}
    BY <2>1, <2>2
  <2> QED BY <1>1, <2>1, <2>2, <2>3, Advances
<1>11. ASSUME Stop PROVE UNCHANGED Stream!streamVars
  <2>1. UNCHANGED <<log, since, decoded>> /\ thread' = Woken
    BY <1>11 DEF Stop, historyVars
  <2>2. Following' = Following
    BY <2>1, WokenKeeps DEF Following
  <2> QED BY <2>1, <2>2, Stutters
<1>12. ASSUME NEW t \in Sessions, Wait(t) \/ SpuriousWakeup(t) \/ Draw(t)
       PROVE  UNCHANGED Stream!streamVars
  <2>1. /\ UNCHANGED <<log, since, decoded>> /\ thread[t] \notin {"none", "ended"}
        /\ \E to \in {"waiting", "next"} : thread' = [thread EXCEPT ![t] = to]
    BY <1>12 DEF Wait, SpuriousWakeup, Draw, historyVars
  <2>2. Following' = Following
    BY <1>2, <2>1 DEF Following
  <2> QED BY <2>1, <2>2, Stutters
<1>13. ASSUME UNCHANGED vars PROVE UNCHANGED Stream!streamVars
  <2>1. UNCHANGED <<log, since, decoded>> /\ Following' = Following
    BY <1>13 DEF vars, historyVars, Following
  <2> QED BY <2>1, Stutters
<1> QED BY <1>1, <1>5, <1>6, <1>7, <1>8, <1>9, <1>10, <1>11, <1>12, <1>13 DEF Next, RenderThread

\* event_log.c implements EventStream for render threads: each joins at what
\* its machine has logged when it starts, is given the events after that one by
\* one, and leaves (event_log_mem, mem_reader_next_event, mem_reader_quit).
THEOREM RenderThreadsImplementEventStream ==
  ASSUME Unexposed
  PROVE  Spec => RenderThreadsFollow
<1>1. Unexposed
  OBVIOUS
<1>2. MemInv /\ [Next]_vars => MemInv' /\ [Stream!StreamNext]_(Stream!streamVars)
  BY <1>1, StreamStep
<1> QED BY StreamInit, <1>2, PTL DEF Spec, RenderThreadsFollow, Stream!StreamSpec
=============================================================================
