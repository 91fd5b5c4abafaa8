----------------------------- MODULE MovieProofs -----------------------------
(***************************************************************************)
(* Theorems about Movie, for every set of inputs, files and slots, every   *)
(* buffer size and every bound.                                            *)
(***************************************************************************)
EXTENDS Movie, SequenceTheorems, TLAPS

\* What a file holds after a write is typed whatever the position.
LEMMA WriteAtType ==
  ASSUME NEW s \in Seq(Inputs), NEW d \in Seq(Inputs), NEW pos \in Int
  PROVE  WriteAt(s, pos, d) \in Seq(Inputs)
<1> DEFINE n == IF pos + Len(d) > Len(s) THEN pos + Len(d) ELSE Len(s)
<1>1. n \in Nat
  BY LenProperties
<1>2. \A k \in 1..n :
        (IF k > pos /\ k <= pos + Len(d) THEN d[k - pos]
         ELSE IF k <= Len(s) THEN s[k] ELSE NoInput) \in Inputs
  <2> TAKE k \in 1..n
  <2>1. CASE k > pos /\ k <= pos + Len(d)
    <3>1. k - pos \in 1..Len(d)
      BY <2>1, LenProperties
    <3> QED BY <2>1, <3>1, ElementOfSeq
  <2>2. CASE ~(k > pos /\ k <= pos + Len(d)) /\ k <= Len(s)
    <3>1. k \in 1..Len(s)
      BY <2>2, LenProperties
    <3> QED BY <2>2, <3>1, ElementOfSeq
  <2>3. CASE ~(k > pos /\ k <= pos + Len(d)) /\ ~(k <= Len(s))
    BY <2>3, MovieAssumption DEF MovieAssumption
  <2> QED BY <2>1, <2>2, <2>3
<1> QED BY <1>1, <1>2 DEF WriteAt

\* Likewise after ftruncate.
LEMMA TruncateToType ==
  ASSUME NEW s \in Seq(Inputs), NEW n \in Nat
  PROVE  TruncateTo(s, n) \in Seq(Inputs)
<1>1. \A k \in 1..n : (IF k <= Len(s) THEN s[k] ELSE NoInput) \in Inputs
  BY ElementOfSeq, LenProperties, MovieAssumption DEF MovieAssumption
<1> QED BY <1>1 DEF TruncateTo

LEMMA FlushType ==
  ASSUME NEW m \in Movies, NEW count \in Nat, NEW data \in Seq(Inputs)
  PROVE  Flush(m, count, data) \in Movies
<1>1. m.inputs \in Seq(Inputs) /\ count - Len(data) \in Int
  BY LenProperties DEF Movies
<1>2. WriteAt(m.inputs, count - Len(data), data) \in Seq(Inputs)
  BY <1>1, WriteAtType
<1> QED BY <1>2 DEF Flush, Movies

\* movie_record_stop leaves typed files, whether or not anything was recording.
LEMMA StopType ==
  ASSUME TypeOK
  PROVE  /\ DiskAfterStop \in [Files -> Movies]
         /\ OriginAfterStop \in [Files -> Machines]
         /\ Retired \in [Slots -> States]
<1>1. ASSUME state = "RECORD"
      PROVE  file \in Files /\ Closed(disk[file]) \in Movies
  <2>1. file \in Files /\ disk[file] \in Movies
    BY <1>1 DEF TypeOK
  <2>2. Flush(disk[file], frame_count, buffer) \in Movies
    BY <2>1, FlushType DEF TypeOK
  <2> QED BY <2>1, <2>2 DEF Closed, Movies, TypeOK
<1>2. DiskAfterStop \in [Files -> Movies]
  BY <1>1 DEF DiskAfterStop, TypeOK
<1>3. OriginAfterStop \in [Files -> Machines]
  BY <1>1 DEF OriginAfterStop, TypeOK
<1>4. Retired \in [Slots -> States]
  BY DEF Retired, States, TypeOK
<1> QED BY <1>2, <1>3, <1>4

\* TypeOK needs one fact more: a playing movie's frames are all in memory, so
\* that NextFrame is one of them.
TypeInv == TypeOK /\ (state = "PLAY" => Len(buffer) = frame_count)

\* movie_update keeps its own variables typed, whatever the pads held.
LEMMA MovieUpdateType ==
  ASSUME TypeInv, NEW held \in Inputs, MovieUpdate(held)
  PROVE  /\ pad' \in Inputs
         /\ state' \in {"NONE", "RECORD", "PLAY"}
         /\ file' \in Files \cup {NoFile}
         /\ (file' = NoFile) <=> (state' # "RECORD")
         /\ (state' = "PLAY" => state = "PLAY")
         /\ frame_count' \in Nat
         /\ buffer' \in Seq(Inputs)
         /\ cap' \in Nat \cup {-1}
         /\ play_frame' \in Nat
         /\ disk' \in [Files -> Movies]
         /\ (state' = "PLAY" => Len(buffer') = frame_count')
<1>1. CASE Inject(held)
  <2>1. ASSUME ~Exhausted PROVE NextFrame \in Inputs
    <3>1. play_frame + 1 \in 1..Len(buffer)
      BY <1>1, <2>1 DEF Inject, Exhausted, TypeInv, TypeOK
    <3> QED BY <3>1, ElementOfSeq DEF NextFrame, TypeInv, TypeOK
  <2> QED BY <1>1, <2>1 DEF Inject, TypeInv, TypeOK
<1>2. CASE Capture(held)
  <2> DEFINE used == Append(buffer, held)
  <2>1. used \in Seq(Inputs) /\ frame_count + 1 \in Nat
    BY AppendProperties DEF TypeInv, TypeOK
  <2>2. file \in Files /\ disk[file] \in Movies
    BY <1>2 DEF Capture, TypeInv, TypeOK
  <2>3. Flush(disk[file], frame_count + 1, used) \in Movies
    BY <2>1, <2>2, FlushType
  <2>4. disk' \in [Files -> Movies]
    BY <1>2, <2>2, <2>3 DEF Capture, TypeInv, TypeOK
  <2>5. buffer' \in Seq(Inputs)
    BY <1>2, <2>1, EmptySeq DEF Capture
  <2> QED BY <1>2, <2>1, <2>4, <2>5 DEF Capture, TypeInv, TypeOK
<1>3. CASE Ignore(held)
  BY <1>3 DEF Ignore, movieVars, TypeInv, TypeOK
<1> QED BY <1>1, <1>2, <1>3 DEF MovieUpdate

LEMMA TypeStart == Init => TypeInv
<1> SUFFICES ASSUME Init PROVE TypeInv
  OBVIOUS
<1> USE EmptySeq DEF Init
<1>1. machine \in Machines /\ buffer \in Seq(Inputs) /\ pad \in Inputs
  BY MovieAssumption DEF Machines, MovieAssumption
<1>2. disk \in [Files -> Movies]
  BY DEF NoMovie, Movies, Machines
<1>3. slots \in [Slots -> States]
  BY DEF NoState, States, Machines
<1>4. origin \in [Files -> Machines]
  BY DEF Machines
<1> QED BY <1>1, <1>2, <1>3, <1>4 DEF TypeInv, TypeOK

LEMMA TypeStep == TypeInv /\ [Next]_vars => TypeInv'
<1> SUFFICES ASSUME TypeInv, [Next]_vars PROVE TypeInv'
  OBVIOUS
<1>0. TypeOK
  BY DEF TypeInv
<1>s. /\ DiskAfterStop \in [Files -> Movies]
      /\ OriginAfterStop \in [Files -> Machines]
      /\ Retired \in [Slots -> States]
  BY <1>0, StopType
<1>e. <<>> \in Machines /\ <<>> \in Seq(Inputs) /\ NoInput \in Inputs
  BY EmptySeq, MovieAssumption DEF Machines, MovieAssumption
<1>1. ASSUME NEW seen \in Inputs, NEW held \in Inputs, RunFrame(seen, held)
      PROVE  TypeInv'
  <2>1. machine' \in Machines
    BY <1>1, <1>0, AppendProperties DEF RunFrame, TypeOK, Machines
  <2>2. MovieUpdate(held)
    BY <1>1 DEF RunFrame
  <2> QED BY <1>1, <1>0, <2>1, <2>2, MovieUpdateType
          DEF RunFrame, TypeInv, TypeOK
<1>2. ASSUME FalseBoundary PROVE TypeInv'
  <2>1. pad \in Inputs /\ MovieUpdate(pad)
    BY <1>2, <1>0 DEF FalseBoundary, TypeOK
  <2> QED BY <1>2, <1>0, <2>1, MovieUpdateType
          DEF FalseBoundary, TypeInv, TypeOK
<1>3. ASSUME NEW f \in Files, RecordStart(f) PROVE TypeInv'
  <2>1. disk' \in [Files -> Movies]
    BY <1>3, <1>0, <1>s, <1>e DEF RecordStart, Movies, TypeOK
  <2>2. origin' \in [Files -> Machines]
    BY <1>3, <1>s, <1>e DEF RecordStart
  <2>3. file' # NoFile /\ cap' \in Nat \cup {-1}
    BY <1>3, <1>0, MovieAssumption DEF RecordStart, TypeOK, MovieAssumption
  <2> QED BY <1>3, <1>0, <1>s, <1>e, <2>1, <2>2, <2>3
          DEF RecordStart, Commanded, clockVars, TypeInv, TypeOK
<1>4. ASSUME NEW f \in Files, PlayStart(f) PROVE TypeInv'
  <2> DEFINE m == DiskAfterStop[f]
  <2>1. m \in Movies /\ Len(m.inputs) >= m.count
    BY <1>4, <1>s DEF PlayStart
  <2>2. m.count \in Nat /\ m.inputs \in Seq(Inputs)
    BY <2>1 DEF Movies
  <2>3. \A k \in 1..m.count : m.inputs[k] \in Inputs
    BY <2>1, <2>2, ElementOfSeq, LenProperties
  <2>4. /\ SubSeq(m.inputs, 1, m.count) \in Seq(Inputs)
        /\ Len(SubSeq(m.inputs, 1, m.count)) = m.count
    BY <2>2, <2>3, SubSeqProperties
  <2>5. pad' \in Inputs
    BY <1>4, <1>0, <2>2, <2>3 DEF PlayStart, TypeOK
  <2>6. m.init \in Machines /\ m.init_frame \in Nat
    BY <2>1 DEF Movies
  <2>7. cap' \in Nat \cup {-1}
    BY <1>4, <1>0, <2>2 DEF PlayStart, TypeOK
  <2>8. f # NoFile
    BY MovieAssumption DEF MovieAssumption
  <2> QED BY <1>4, <1>0, <1>s, <2>2, <2>4, <2>5, <2>6, <2>7, <2>8
          DEF PlayStart, Commanded, TypeInv, TypeOK
<1>5. ASSUME StopRecording, UNCHANGED pad,
             commands' \in Nat, started' \in BOOLEAN, machine' \in Machines,
             vdp_frame' \in Nat, last_frame' \in Nat
      PROVE  TypeInv'
  BY <1>5, <1>0, <1>s, <1>e DEF StopRecording, TypeInv, TypeOK
<1>6. CASE RecordStop
  BY <1>5, <1>6, <1>0 DEF RecordStop, Commanded, clockVars, TypeOK
<1>7. CASE PlayStop
  BY <1>7, <1>0 DEF PlayStop, Commanded, clockVars, TypeInv, TypeOK
<1>8. ASSUME NEW s \in Slots, NEW kind \in {"gst", "native"}, SaveState(s, kind)
      PROVE  TypeInv'
  <2>1. slots' \in [Slots -> States]
    BY <1>8, <1>0, <1>e DEF SaveState, States, TypeOK
  <2> QED BY <1>8, <1>0, <2>1
          DEF SaveState, Commanded, clockVars, movieVars, TypeInv, TypeOK
<1>9. ASSUME NEW s \in Slots, NEW via \in {"slot", "control", "start"}, LoadMachine(s, via)
      PROVE  /\ commands' \in Nat /\ started' \in BOOLEAN
             /\ machine' \in Machines
             /\ vdp_frame' \in Nat /\ last_frame' \in Nat
             /\ UNCHANGED pad
  BY <1>9, <1>0 DEF LoadMachine, Commanded, TypeOK, States
<1>10. ASSUME NEW s \in Slots, NEW via \in {"slot", "control", "start"}, Load(s, via)
       PROVE  TypeInv'
  <2>1. CASE LoadRewinds(s, via)
    <3> DEFINE st == slots[s]
               data == IF Len(st.data) > cap THEN SubSeq(st.data, 1, cap)
                       ELSE st.data
               m == Flush(disk[file], st.count, data)
    <3>1. st.count \in Nat /\ st.data \in Seq(Inputs) /\ st \in States
      BY <1>0 DEF TypeOK, States
    <3>2. data \in Seq(Inputs)
      <4>1. CASE Len(st.data) > cap
        <5>1. \A k \in 1..cap : st.data[k] \in Inputs
          BY <4>1, <3>1, <1>0, ElementOfSeq, LenProperties DEF TypeOK
        <5> QED BY <4>1, <5>1, <1>0, SubSeqProperties DEF TypeOK
      <4> QED BY <4>1, <3>1
    <3>3. file \in Files /\ disk[file] \in Movies
      BY <2>1, <1>0 DEF LoadRewinds, TypeOK
    <3>4. m \in Movies /\ TruncateTo(m.inputs, st.count) \in Seq(Inputs)
      <4>1. m \in Movies
        BY <3>1, <3>2, <3>3, FlushType
      <4>2. m.inputs \in Seq(Inputs)
        BY <4>1 DEF Movies
      <4> QED BY <4>1, <4>2, <3>1, TruncateToType
    <3>5. disk' \in [Files -> Movies]
      BY <2>1, <1>0, <3>1, <3>3, <3>4 DEF LoadRewinds, TypeOK, Movies
    <3>6. slots' \in [Slots -> States]
      BY <2>1, <1>0, <3>1 DEF LoadRewinds, TypeOK, States
    <3>7. LoadMachine(s, via)
      BY <2>1 DEF LoadRewinds
    <3> QED BY <2>1, <1>0, <1>9, <1>e, <3>1, <3>5, <3>6, <3>7
            DEF LoadRewinds, TypeInv, TypeOK
  <2>2. CASE LoadStops(s, via)
    BY <2>2, <1>5, <1>9 DEF LoadStops
  <2>3. CASE LoadPlain(s, via)
    BY <2>3, <1>0, <1>9 DEF LoadPlain, movieVars, TypeInv, TypeOK
  <2> QED BY <1>10, <2>1, <2>2, <2>3 DEF Load
<1>11. CASE StartContext
  <2>1. machine' \in Machines
    BY <1>11, <1>0, AppendProperties DEF StartContext, Reset, Machines, TypeOK
  <2> QED BY <1>11, <1>0, <2>1 DEF StartContext, movieVars, TypeInv, TypeOK
<1>12. CASE ExitAndRelaunch
  BY <1>12, <1>0, <1>s, <1>e DEF ExitAndRelaunch, TypeInv, TypeOK
<1>14. CASE SoftReset
  <2>1. machine' \in Machines
    BY <1>14, <1>0, AppendProperties DEF SoftReset, Reset, Machines, TypeOK
  <2> QED BY <1>14, <1>0, <2>1
          DEF SoftReset, Commanded, movieVars, TypeInv, TypeOK
<1>15. CASE ReloadMedia
  BY <1>15, <1>0, <1>e DEF ReloadMedia, Commanded, movieVars, TypeInv, TypeOK
<1>13. CASE UNCHANGED vars
  BY <1>13, <1>0 DEF vars, clockVars, movieVars, TypeInv, TypeOK
<1> QED BY <1>1, <1>2, <1>3, <1>4, <1>6, <1>7, <1>8, <1>10, <1>11, <1>12, <1>13,
           <1>14, <1>15 DEF Next, Emulate

\* The recorder's state is typed in every reachable state: the buffer, the
\* files and the save states never hold anything but pad values and machines.
THEOREM TypeCorrect == Spec => []TypeOK
<1>1. TypeInv => TypeOK
  BY DEF TypeInv
<1> QED BY <1>1, TypeStart, TypeStep, PTL DEF Spec
-----------------------------------------------------------------------------
(* The recording invariant.  RecordingIsTheSession is not inductive: what a *)
(* rewind restores must be known of every state that can be loaded, and a   *)
(* load moves vdp->frame, which must not look like a frame being run.       *)

Agrees(m, from, s) == \A k \in 1..Len(s) : m[from + k] = s[k]

\* m is a, b and c one after the other.
Joins(m, a, b, c) ==
  /\ Len(m) = Len(a) + Len(b) + Len(c)
  /\ Agrees(m, 0, a)
  /\ Agrees(m, Len(a), b)
  /\ Agrees(m, Len(a) + Len(b), c)

SessionInv ==
  state = "RECORD" =>
    /\ Joins(machine, disk[file].init, disk[file].inputs, buffer)
    /\ Len(disk[file].inputs) + Len(buffer) = frame_count
    /\ last_frame = vdp_frame

BufferInv == cap # 0 /\ NextSlotAllocated

\* st is an earlier point of the session m that is being recorded from init:
\* what it holds of the buffer starts no later than the file's n frames end.
Earlier(st, m, init, n) ==
  /\ st.section /\ st.kind = "native"
  /\ Len(st.machine) = Len(init) + st.count
  /\ Len(st.machine) <= Len(m)
  /\ Agrees(m, 0, st.machine)
  /\ Len(st.data) <= st.count
  /\ st.count - Len(st.data) <= n
  /\ Agrees(st.machine, Len(init) + st.count - Len(st.data), st.data)

LiveStatesInv ==
  \A s \in Slots : slots[s].live =>
    /\ state = "RECORD"
    /\ Earlier(slots[s], machine, disk[file].init, Len(disk[file].inputs))
    /\ Len(slots[s].data) < cap

\* The situations that harm a playback only cannot harm a recording.
RecorderUnexposed == Exposed \subseteq {"menu_play", "load_in_play", "live_input"}

PowerOnInv == ~started => machine = <<>>

RecordInv == TypeInv /\ SessionInv /\ BufferInv /\ LiveStatesInv /\ PowerOnInv

\* One frame more at the end of the buffer.
LEMMA JoinsExtend ==
  ASSUME NEW m \in Machines, NEW a \in Machines,
         NEW b \in Seq(Inputs), NEW c \in Seq(Inputs), NEW i \in Inputs,
         Joins(m, a, b, c)
  PROVE  Joins(Append(m, i), a, b, Append(c, i))
<1>1. /\ Len(a) \in Nat /\ Len(b) \in Nat /\ Len(c) \in Nat /\ Len(m) \in Nat
      /\ m \in Seq(Inputs \cup {ResetMark})
  BY LenProperties DEF Machines
<1> DEFINE m2 == Append(m, i)
           c2 == Append(c, i)
<1>2. /\ Len(m2) = Len(m) + 1
      /\ \A k \in 1..Len(m) : m2[k] = m[k]
      /\ m2[Len(m) + 1] = i
  BY <1>1, AppendProperties
<1>3. /\ Len(c2) = Len(c) + 1
      /\ \A k \in 1..Len(c) : c2[k] = c[k]
      /\ c2[Len(c) + 1] = i
  BY AppendProperties
<1> HIDE DEF m2, c2
<1>4. Len(m) = Len(a) + Len(b) + Len(c)
  BY DEF Joins
<1>5. Agrees(m2, 0, a) /\ Agrees(m2, Len(a), b)
  <2>1. \A k \in 1..Len(a) : 0 + k \in 1..Len(m)
    BY <1>1, <1>4
  <2>2. \A k \in 1..Len(b) : Len(a) + k \in 1..Len(m)
    BY <1>1, <1>4
  <2> QED BY <1>2, <2>1, <2>2 DEF Joins, Agrees
<1>6. Agrees(m2, Len(a) + Len(b), c2)
  <2> SUFFICES ASSUME NEW k \in 1..Len(c2)
               PROVE  m2[Len(a) + Len(b) + k] = c2[k]
    BY DEF Agrees
  <2>1. CASE k <= Len(c)
    BY <2>1, <1>1, <1>2, <1>3, <1>4 DEF Joins, Agrees
  <2>2. CASE k = Len(c) + 1
    BY <2>2, <1>1, <1>2, <1>3, <1>4
  <2> QED BY <2>1, <2>2, <1>1, <1>3
<1>7. Len(m2) = Len(a) + Len(b) + Len(c2)
  BY <1>1, <1>2, <1>3, <1>4
<1>8. Joins(m2, a, b, c2)
  BY <1>5, <1>6, <1>7 DEF Joins
<1> QED BY <1>8 DEF m2, c2

\* The buffer moves to the end of the file.
LEMMA JoinsFlush ==
  ASSUME NEW m \in Machines, NEW a \in Machines, NEW b \in Seq(Inputs),
         NEW c \in Seq(Inputs), NEW d \in Seq(Inputs), Joins(m, a, b, c),
         Len(d) = Len(b) + Len(c), Agrees(d, 0, b), Agrees(d, Len(b), c)
  PROVE  Joins(m, a, d, <<>>)
<1>1. /\ Len(a) \in Nat /\ Len(b) \in Nat /\ Len(c) \in Nat
      /\ Len(<<>>) = 0 /\ Len(m) = Len(a) + Len(b) + Len(c)
  BY LenProperties, EmptySeq DEF Machines, Joins
<1>2. Agrees(m, Len(a), d)
  <2> SUFFICES ASSUME NEW k \in 1..Len(d) PROVE m[Len(a) + k] = d[k]
    BY DEF Agrees
  <2>1. CASE k <= Len(b)
    BY <2>1, <1>1 DEF Joins, Agrees
  <2>2. CASE k > Len(b)
    <3>1. PICK j \in 1..Len(c) : k = Len(b) + j
      <4>1. k - Len(b) \in 1..Len(c) /\ k = Len(b) + (k - Len(b))
        BY <2>2, <1>1
      <4> QED BY <4>1
    <3>2. d[Len(b) + j] = c[j] /\ m[Len(a) + Len(b) + j] = c[j]
      BY DEF Joins, Agrees
    <3>3. Len(a) + Len(b) + j = Len(a) + k
      BY <3>1, <1>1
    <3> QED BY <3>1, <3>2, <3>3
  <2> QED BY <2>1, <2>2, <1>1
<1> QED BY <1>1, <1>2 DEF Joins, Agrees

\* Every position of a file after a write that leaves no hole.
LEMMA WriteAtValue ==
  ASSUME NEW s \in Seq(Inputs), NEW d \in Seq(Inputs), NEW pos \in 0..Len(s)
  PROVE  /\ Len(WriteAt(s, pos, d)) =
              IF pos + Len(d) > Len(s) THEN pos + Len(d) ELSE Len(s)
         /\ \A k \in 1..Len(WriteAt(s, pos, d)) :
              WriteAt(s, pos, d)[k] =
                IF k > pos /\ k <= pos + Len(d) THEN d[k - pos] ELSE s[k]
<1> DEFINE n == IF pos + Len(d) > Len(s) THEN pos + Len(d) ELSE Len(s)
<1>1. n \in Nat
  BY LenProperties
<1>2. Len(WriteAt(s, pos, d)) = n
  BY <1>1 DEF WriteAt
<1>3. \A k \in 1..n : ~(k > pos /\ k <= pos + Len(d)) => k <= Len(s)
  BY LenProperties
<1> QED BY <1>1, <1>2, <1>3 DEF WriteAt

\* A flush whose slots start where the file ends appends them to it.
LEMMA FlushAppends ==
  ASSUME NEW m \in Movies, NEW data \in Seq(Inputs), data # <<>>,
         NEW count \in Nat, Len(m.inputs) + Len(data) = count
  PROVE  /\ Flush(m, count, data).init = m.init
         /\ Len(Flush(m, count, data).inputs) = count
         /\ \A k \in 1..Len(m.inputs) :
              Flush(m, count, data).inputs[k] = m.inputs[k]
         /\ \A k \in 1..Len(data) :
              Flush(m, count, data).inputs[Len(m.inputs) + k] = data[k]
<1>1. m.inputs \in Seq(Inputs) /\ Len(m.inputs) \in Nat /\ Len(data) \in Nat
  BY LenProperties DEF Movies
<1>2. count - Len(data) = Len(m.inputs)
  BY <1>1
<1>3. Flush(m, count, data) =
        [m EXCEPT !.inputs = WriteAt(m.inputs, Len(m.inputs), data)]
  BY <1>2 DEF Flush
<1>4. /\ Flush(m, count, data).init = m.init
      /\ Flush(m, count, data).inputs = WriteAt(m.inputs, Len(m.inputs), data)
  BY <1>3 DEF Movies
<1> DEFINE w == WriteAt(m.inputs, Len(m.inputs), data)
<1>5. Len(m.inputs) \in 0..Len(m.inputs) /\ Len(data) > 0
  BY <1>1, EmptySeq
<1>6. /\ Len(w) = count
      /\ \A k \in 1..count :
           w[k] = IF k > Len(m.inputs) THEN data[k - Len(m.inputs)]
                  ELSE m.inputs[k]
  BY <1>1, <1>5, WriteAtValue
<1>7. \A k \in 1..Len(m.inputs) : w[k] = m.inputs[k]
  BY <1>1, <1>6
<1>8. \A k \in 1..Len(data) : w[Len(m.inputs) + k] = data[k]
  <2> TAKE k \in 1..Len(data)
  <2>1. /\ Len(m.inputs) + k \in 1..count /\ Len(m.inputs) + k > Len(m.inputs)
        /\ (Len(m.inputs) + k) - Len(m.inputs) = k
    BY <1>1
  <2> QED BY <1>6, <2>1
<1> QED BY <1>4, <1>6, <1>7, <1>8

\* A rewind puts back the frames a state holds and cuts the file after them.
LEMMA RewindRestores ==
  ASSUME NEW m \in Movies, NEW data \in Seq(Inputs), NEW count \in Nat,
         Len(data) <= count, count - Len(data) <= Len(m.inputs)
  PROVE  LET w == TruncateTo(Flush(m, count, data).inputs, count) IN
         /\ Len(w) = count
         /\ \A k \in 1..(count - Len(data)) : w[k] = m.inputs[k]
         /\ \A k \in 1..Len(data) : w[count - Len(data) + k] = data[k]
<1> DEFINE f == Flush(m, count, data).inputs
           w == TruncateTo(f, count)
<1>1. m.inputs \in Seq(Inputs) /\ Len(m.inputs) \in Nat /\ Len(data) \in Nat
  BY LenProperties DEF Movies
<1>2. Len(w) = count /\ \A k \in 1..count : k <= Len(f) => w[k] = f[k]
  BY DEF TruncateTo
<1>3. CASE data = <<>>
  <2>1. f = m.inputs /\ Len(data) = 0
    BY <1>3, EmptySeq DEF Flush
  <2> QED BY <1>1, <1>2, <2>1
<1>4. CASE data # <<>>
  <2>1. f = WriteAt(m.inputs, count - Len(data), data)
    BY <1>4 DEF Flush, Movies
  <2>2. count - Len(data) \in 0..Len(m.inputs)
    BY <1>1
  <2>3. /\ Len(f) = IF count > Len(m.inputs) THEN count ELSE Len(m.inputs)
        /\ \A k \in 1..Len(f) :
             f[k] = IF k > count - Len(data) /\ k <= count
                    THEN data[k - (count - Len(data))] ELSE m.inputs[k]
    BY <1>1, <2>1, <2>2, WriteAtValue
  <2>4. \A k \in 1..(count - Len(data)) : w[k] = m.inputs[k]
    BY <1>1, <1>2, <2>3
  <2>5. \A k \in 1..Len(data) : w[count - Len(data) + k] = data[k]
    <3> TAKE k \in 1..Len(data)
    <3>1. /\ count - Len(data) + k \in 1..count
          /\ count - Len(data) + k <= Len(f)
          /\ count - Len(data) + k > count - Len(data)
          /\ (count - Len(data) + k) - (count - Len(data)) = k
      BY <1>1, <2>3
    <3> QED BY <1>2, <2>3, <3>1
  <2> QED BY <1>2, <2>4, <2>5
<1> QED BY <1>3, <1>4

\* Joins is concatenation.
LEMMA JoinsConcat ==
  ASSUME NEW m \in Machines, NEW a \in Machines, NEW b \in Seq(Inputs),
         NEW c \in Seq(Inputs), Joins(m, a, b, c)
  PROVE  m = a \o b \o c
<1> DEFINE S == Inputs \cup {ResetMark}
<1>1. m \in Seq(S) /\ a \in Seq(S) /\ b \in Seq(S) /\ c \in Seq(S)
  <2>1. \A s \in Seq(Inputs) : s \in Seq(S)
    <3> TAKE s \in Seq(Inputs)
    <3>1. \A k \in 1..Len(s) : s[k] \in S
      BY ElementOfSeq
    <3> QED BY <3>1, LenProperties
  <2> QED BY <2>1 DEF Machines
<1> HIDE DEF S
<1>2. /\ Len(a) \in Nat /\ Len(b) \in Nat /\ Len(c) \in Nat
      /\ Len(m) = Len(a) + Len(b) + Len(c)
  BY LenProperties DEF Machines, Joins
<1> DEFINE ab == a \o b
<1>3. /\ ab \in Seq(S) /\ Len(ab) = Len(a) + Len(b)
      /\ \A k \in 1..(Len(a) + Len(b)) :
           ab[k] = IF k <= Len(a) THEN a[k] ELSE b[k - Len(a)]
  BY <1>1, ConcatProperties
<1> HIDE DEF ab
<1>4. /\ ab \o c \in Seq(S) /\ Len(ab \o c) = Len(ab) + Len(c)
      /\ \A k \in 1..(Len(ab) + Len(c)) :
           (ab \o c)[k] = IF k <= Len(ab) THEN ab[k] ELSE c[k - Len(ab)]
  <2>1. ab \in Seq(S) /\ c \in Seq(S)
    BY <1>1, <1>3
  <2> QED BY ONLY <2>1, ConcatProperties
<1>5. \A k \in 1..Len(m) : m[k] = (ab \o c)[k]
  <2> TAKE k \in 1..Len(m)
  <2>1. CASE k <= Len(a)
    <3>1. m[0 + k] = a[k] /\ 0 + k = k
      BY <2>1, <1>2 DEF Joins, Agrees
    <3>2. (ab \o c)[k] = ab[k] /\ ab[k] = a[k]
      BY <2>1, <1>2, <1>3, <1>4
    <3>3. m[k] = a[k]
      BY <3>1
    <3> QED BY ONLY <3>2, <3>3
  <2>2. CASE k > Len(a) /\ k <= Len(a) + Len(b)
    <3>1. k - Len(a) \in 1..Len(b) /\ Len(a) + (k - Len(a)) = k
      BY <2>2, <1>2
    <3>2. m[k] = b[k - Len(a)]
      BY <3>1 DEF Joins, Agrees
    <3> QED BY <2>2, <3>2, <1>2, <1>3, <1>4
  <2>3. CASE k > Len(a) + Len(b)
    <3>1. /\ k - (Len(a) + Len(b)) \in 1..Len(c)
          /\ Len(a) + Len(b) + (k - (Len(a) + Len(b))) = k
      BY <2>3, <1>2
    <3>2. m[k] = c[k - (Len(a) + Len(b))]
      BY <3>1 DEF Joins, Agrees
    <3> QED BY <2>3, <3>2, <1>2, <1>3, <1>4
  <2>4. \/ k <= Len(a)
        \/ k > Len(a) /\ k <= Len(a) + Len(b)
        \/ k > Len(a) + Len(b)
    BY <1>2
  <2> QED BY ONLY <2>1, <2>2, <2>3, <2>4
<1>6. m = ab \o c
  BY <1>1, <1>2, <1>3, <1>4, <1>5, SeqEqual
<1> QED BY <1>6 DEF ab

\* Writing out the buffer, full or at a stop, leaves the session in the file.
LEMMA JoinsFlushed ==
  ASSUME NEW mov \in Movies, NEW m \in Machines, NEW c \in Seq(Inputs),
         NEW count \in Nat, Len(mov.inputs) + Len(c) = count,
         Joins(m, mov.init, mov.inputs, c)
  PROVE  /\ Joins(m, mov.init, Flush(mov, count, c).inputs, <<>>)
         /\ Flush(mov, count, c).init = mov.init
         /\ Len(Flush(mov, count, c).inputs) = count
<1> DEFINE d == Flush(mov, count, c)
<1>1. /\ mov.inputs \in Seq(Inputs) /\ mov.init \in Machines
      /\ Len(mov.inputs) \in Nat /\ Len(c) \in Nat
  BY LenProperties DEF Movies
<1>2. CASE c = <<>>
  <2>1. d = mov /\ Len(c) = 0
    BY <1>2, EmptySeq DEF Flush
  <2> QED BY <1>1, <1>2, <2>1
<1>3. CASE c # <<>>
  <2>1. /\ d.init = mov.init /\ Len(d.inputs) = count
        /\ \A k \in 1..Len(mov.inputs) : d.inputs[k] = mov.inputs[k]
        /\ \A k \in 1..Len(c) : d.inputs[Len(mov.inputs) + k] = c[k]
    BY <1>3, FlushAppends
  <2>2. d.inputs \in Seq(Inputs)
    BY FlushType DEF Movies
  <2> HIDE DEF d
  <2>3. Agrees(d.inputs, 0, mov.inputs) /\ Agrees(d.inputs, Len(mov.inputs), c)
    <3>1. \A k \in 1..Len(mov.inputs) : 0 + k = k
      BY <1>1
    <3> QED BY <2>1, <3>1 DEF Agrees
  <2>4. Joins(m, mov.init, d.inputs, <<>>)
    BY <1>1, <2>1, <2>2, <2>3, JoinsFlush
  <2> QED BY <2>1, <2>4 DEF d
<1> QED BY <1>2, <1>3

\* A frame later, a state is still an earlier point of the session.
LEMMA EarlierGrows ==
  ASSUME NEW st \in States, NEW m \in Machines, NEW init \in Machines,
         NEW n \in Nat, NEW n2 \in Nat, n <= n2, NEW i \in Inputs,
         Earlier(st, m, init, n)
  PROVE  Earlier(st, Append(m, i), init, n2)
<1>1. /\ st.machine \in Machines /\ st.count \in Nat /\ st.data \in Seq(Inputs)
      /\ Len(st.machine) \in Nat /\ Len(m) \in Nat /\ Len(st.data) \in Nat
      /\ m \in Seq(Inputs \cup {ResetMark})
  BY LenProperties DEF States, Machines
<1> DEFINE m2 == Append(m, i)
<1>2. Len(m2) = Len(m) + 1 /\ \A k \in 1..Len(m) : m2[k] = m[k]
  BY <1>1, AppendProperties
<1> HIDE DEF m2
<1>3. Agrees(m2, 0, st.machine)
  <2>1. \A k \in 1..Len(st.machine) : 0 + k \in 1..Len(m)
    BY <1>1 DEF Earlier
  <2> QED BY <1>2, <2>1 DEF Earlier, Agrees
<1>4. Earlier(st, m2, init, n2)
  BY <1>1, <1>2, <1>3 DEF Earlier
<1> QED BY <1>4 DEF m2

\* After a rewind to st, the states that count no more frames are still
\* earlier points of what is left of the session.
LEMMA EarlierRewinds ==
  ASSUME NEW st \in States, NEW r \in States, NEW m \in Machines,
         NEW init \in Machines, NEW n \in Nat,
         Earlier(st, m, init, n), Earlier(r, m, init, n), r.count <= st.count
  PROVE  Earlier(r, st.machine, init, st.count)
<1>1. /\ st.count \in Nat /\ r.count \in Nat /\ Len(init) \in Nat
      /\ Len(st.machine) \in Nat /\ Len(r.machine) \in Nat
      /\ Len(r.data) \in Nat
  BY LenProperties DEF States, Machines
<1>2. Len(r.machine) <= Len(st.machine)
  BY <1>1 DEF Earlier
<1>3. Agrees(st.machine, 0, r.machine)
  <2>1. \A k \in 1..Len(r.machine) : k \in 1..Len(st.machine) /\ 0 + k = k
    BY <1>1, <1>2
  <2> QED BY <2>1 DEF Earlier, Agrees
<1> QED BY <1>1, <1>2, <1>3 DEF Earlier

\* A rewind leaves exactly the session up to the state in the file.
LEMMA JoinsRewind ==
  ASSUME NEW mov \in Movies, NEW m \in Machines, NEW c \in Seq(Inputs),
         NEW st \in States, Joins(m, mov.init, mov.inputs, c),
         Earlier(st, m, mov.init, Len(mov.inputs))
  PROVE  LET w == TruncateTo(Flush(mov, st.count, st.data).inputs, st.count) IN
         Joins(st.machine, mov.init, w, <<>>) /\ Len(w) = st.count
<1> DEFINE w == TruncateTo(Flush(mov, st.count, st.data).inputs, st.count)
           a == mov.init
           first == st.count - Len(st.data)
<1>1. /\ st.count \in Nat /\ st.data \in Seq(Inputs) /\ Len(st.data) \in Nat
      /\ Len(mov.inputs) \in Nat /\ Len(a) \in Nat /\ Len(c) \in Nat
      /\ Len(st.machine) \in Nat /\ Len(<<>>) = 0
  BY LenProperties, EmptySeq DEF States, Movies, Machines
<1>2. /\ Len(st.data) <= st.count /\ first <= Len(mov.inputs) /\ first \in Nat
      /\ Len(st.machine) = Len(a) + st.count
  BY <1>1 DEF Earlier
<1>3. /\ Len(w) = st.count
      /\ \A k \in 1..first : w[k] = mov.inputs[k]
      /\ \A k \in 1..Len(st.data) : w[first + k] = st.data[k]
  BY <1>1, <1>2, RewindRestores
<1> HIDE DEF w
<1>4. Agrees(st.machine, 0, a)
  <2>1. \A k \in 1..Len(a) : k \in 1..Len(st.machine) /\ 0 + k = k
    BY <1>1, <1>2
  <2>2. \A k \in 1..Len(a) : m[0 + k] = a[k]
    BY DEF Joins, Agrees
  <2>3. \A k \in 1..Len(st.machine) : m[0 + k] = st.machine[k]
    BY DEF Earlier, Agrees
  <2> QED BY <2>1, <2>2, <2>3 DEF Agrees
<1>5. Agrees(st.machine, Len(a), w)
  <2> SUFFICES ASSUME NEW k \in 1..st.count
               PROVE  st.machine[Len(a) + k] = w[k]
    BY <1>3 DEF Agrees
  <2>1. CASE k <= first
    <3>1. k \in 1..first /\ k \in 1..Len(mov.inputs)
          /\ Len(a) + k \in 1..Len(st.machine)
          /\ 0 + (Len(a) + k) = Len(a) + k
      BY <2>1, <1>1, <1>2
    <3>2. m[Len(a) + k] = mov.inputs[k]
      BY <3>1 DEF Joins, Agrees
    <3>3. m[Len(a) + k] = st.machine[Len(a) + k]
      BY <3>1 DEF Earlier, Agrees
    <3> QED BY <3>1, <3>2, <3>3, <1>3
  <2>2. CASE k > first
    <3>1. PICK j \in 1..Len(st.data) : k = first + j
      <4>1. k - first \in 1..Len(st.data) /\ k = first + (k - first)
        BY <2>2, <1>1, <1>2
      <4> QED BY <4>1
    <3>2. st.machine[Len(a) + st.count - Len(st.data) + j] = st.data[j]
      BY DEF Earlier, Agrees
    <3>3. Len(a) + st.count - Len(st.data) + j = Len(a) + k
      <4>1. Len(a) \in Nat /\ st.count \in Nat /\ Len(st.data) \in Nat
            /\ j \in Int /\ k = st.count - Len(st.data) + j
        BY <3>1, <1>1
      <4> QED BY ONLY <4>1
    <3> QED BY <3>1, <3>2, <3>3, <1>3
  <2> QED BY <2>1, <2>2, <1>1, <1>2
<1>6. Len(st.machine) = Len(a) + Len(w) + Len(<<>>)
  BY <1>1, <1>2, <1>3
<1>7. Agrees(st.machine, Len(a) + Len(w), <<>>)
  BY <1>1 DEF Agrees
<1> QED BY <1>3, <1>4, <1>5, <1>6, <1>7 DEF Joins, w

\* A state saved now is an earlier point of the session.
LEMMA EarlierNow ==
  ASSUME NEW st \in States, NEW m \in Machines, NEW a \in Machines,
         NEW b \in Seq(Inputs), Joins(m, a, b, st.data), st.machine = m,
         st.section, st.kind = "native", st.count = Len(b) + Len(st.data)
  PROVE  Earlier(st, m, a, Len(b))
<1>1. /\ Len(b) \in Nat /\ Len(a) \in Nat /\ st.data \in Seq(Inputs)
      /\ Len(st.data) \in Nat /\ Len(m) = Len(a) + Len(b) + Len(st.data)
  BY LenProperties DEF States, Machines, Joins
<1>2. Len(a) + st.count - Len(st.data) = Len(a) + Len(b)
  BY <1>1
<1>3. Agrees(m, 0, m)
  <2>1. \A k \in 1..Len(m) : 0 + k = k
    BY <1>1
  <2> QED BY <2>1 DEF Agrees
<1>4. Agrees(m, Len(a) + st.count - Len(st.data), st.data)
  BY <1>2 DEF Joins
<1>5. Len(st.data) <= st.count /\ st.count - Len(st.data) <= Len(b)
  BY ONLY <1>1, st.count = Len(b) + Len(st.data)
<1>6. Len(m) = Len(a) + st.count
  <2>1. Len(a) + (Len(b) + Len(st.data)) = Len(a) + Len(b) + Len(st.data)
    <3>1. \A x, y, z \in Nat : x + (y + z) = x + y + z
      OBVIOUS
    <3>2. Len(a) \in Nat /\ Len(b) \in Nat /\ Len(st.data) \in Nat
      BY <1>1
    <3> QED BY ONLY <3>1, <3>2, Zenon
  <2>2. Len(a) + st.count = Len(a) + (Len(b) + Len(st.data))
    OBVIOUS
  <2> QED BY ONLY <1>1, <2>1, <2>2
<1>7. Len(m) <= Len(m)
  BY <1>1
<1> QED BY ONLY <1>3, <1>4, <1>5, <1>6, <1>7,
        st.machine = m, st.section, st.kind = "native"
        DEF Earlier

\* What every case below needs of TypeInv.
LEMMA RecordTypes ==
  ASSUME TypeInv
  PROVE  /\ TypeOK
         /\ machine \in Machines /\ vdp_frame \in Nat /\ frame_count \in Nat
         /\ buffer \in Seq(Inputs) /\ Len(buffer) \in Nat /\ cap \in Nat \cup {-1}
         /\ disk \in [Files -> Movies]
         /\ state = "RECORD" =>
              /\ file \in Files /\ disk[file] \in Movies
              /\ disk[file].init \in Machines
              /\ disk[file].inputs \in Seq(Inputs)
              /\ Len(disk[file].inputs) \in Nat
         /\ \A s \in Slots : slots[s] \in States
<1>1. TypeOK
  BY DEF TypeInv
<1>2. Len(buffer) \in Nat
  BY <1>1, LenProperties DEF TypeOK
<1>3. ASSUME state = "RECORD"
      PROVE  /\ file \in Files /\ disk[file] \in Movies
             /\ disk[file].init \in Machines
             /\ disk[file].inputs \in Seq(Inputs)
             /\ Len(disk[file].inputs) \in Nat
  <2>1. file \in Files /\ disk[file] \in Movies
    BY <1>1, <1>3 DEF TypeOK
  <2>2. disk[file].init \in Machines /\ disk[file].inputs \in Seq(Inputs)
    BY <2>1 DEF Movies
  <2> QED BY <2>1, <2>2, LenProperties
<1> QED BY <1>1, <1>2, <1>3 DEF TypeOK

\* A captured frame, with the flush it may cause.
LEMMA CaptureKeeps ==
  ASSUME RecordInv, RecorderUnexposed, NEW seen \in Inputs, NEW held \in Inputs,
         RunFrame(seen, held), Capture(held)
  PROVE  SessionInv' /\ BufferInv' /\ LiveStatesInv' /\ PowerOnInv'
<1> DEFINE mov == disk[file]
           used == Append(buffer, held)
           flushed == Flush(mov, frame_count + 1, used)
<1>0. /\ state = "RECORD" /\ state' = "RECORD" /\ file' = file /\ cap' = cap
      /\ frame_count' = frame_count + 1 /\ slots' = slots /\ seen = held
      /\ machine' = Append(machine, held) /\ last_frame' = vdp_frame'
      /\ started' /\ started
  BY DEF Capture, RunFrame, RecorderUnexposed
<1>t. /\ TypeOK /\ machine \in Machines /\ frame_count \in Nat
      /\ frame_count + 1 \in Nat
      /\ buffer \in Seq(Inputs) /\ Len(buffer) \in Nat
      /\ disk \in [Files -> Movies] /\ file \in Files
      /\ mov \in Movies /\ mov.init \in Machines /\ mov.inputs \in Seq(Inputs)
      /\ Len(mov.inputs) \in Nat /\ cap \in Nat \cup {-1}
      /\ \A s \in Slots : slots[s] \in States
  BY <1>0, RecordTypes DEF RecordInv
<1>1. used \in Seq(Inputs) /\ Len(used) = Len(buffer) + 1 /\ Len(used) \in Nat
  BY <1>t, AppendProperties
<1>2. /\ Joins(machine, mov.init, mov.inputs, buffer)
      /\ Len(mov.inputs) + Len(buffer) = frame_count
  BY <1>0 DEF RecordInv, SessionInv
<1>3. Joins(machine', mov.init, mov.inputs, used)
  BY <1>0, <1>t, <1>2, JoinsExtend
<1>4. Len(mov.inputs) + Len(used) = frame_count + 1
  <2>1. Len(mov.inputs) + (Len(buffer) + 1) = (Len(mov.inputs) + Len(buffer)) + 1
    <3>1. \A x, y \in Nat : x + (y + 1) = (x + y) + 1
      OBVIOUS
    <3>2. Len(mov.inputs) \in Nat /\ Len(buffer) \in Nat
      BY <1>t
    <3> QED BY ONLY <3>1, <3>2, Zenon
  <2> QED BY <1>1, <1>2, <2>1
<1>a. Len(mov.inputs) <= frame_count + 1
  <2>1. Len(mov.inputs) <= (Len(mov.inputs) + Len(buffer)) + 1
    BY ONLY <1>t
  <2> QED BY <1>2, <2>1
<1>5. Len(buffer) < cap /\ cap # 0
  BY <1>0 DEF RecordInv, BufferInv, NextSlotAllocated
<1>6. /\ disk'[file].init = mov.init
      /\ Len(mov.inputs) <= Len(disk'[file].inputs)
      /\ Len(disk'[file].inputs) \in Nat
      /\ Joins(machine', disk'[file].init, disk'[file].inputs, buffer')
      /\ Len(disk'[file].inputs) + Len(buffer') = frame_count'
      /\ Len(buffer') < cap
  <2>1. CASE Full(used)
    <3>1. disk'[file] = flushed /\ buffer' = <<>>
      BY <2>1, <1>t DEF Capture
    <3>2. machine' \in Machines
      BY <1>0, <1>t, AppendProperties DEF Machines
    <3>3. /\ Joins(machine', mov.init, flushed.inputs, <<>>)
          /\ flushed.init = mov.init /\ Len(flushed.inputs) = frame_count + 1
      BY <1>t, <1>1, <1>3, <1>4, <3>2, JoinsFlushed, ZenonT(30)
    <3>4. Len(<<>>) = 0 /\ 0 < cap
      BY <1>t, <1>5, EmptySeq
    <3>5. (frame_count + 1) + 0 = frame_count + 1
      BY <1>t
    <3> HIDE DEF flushed
    <3> QED BY <1>0, <1>a, <1>t, <3>1, <3>3, <3>4, <3>5
  <2>2. CASE ~Full(used)
    <3>1. disk' = disk /\ buffer' = used
      BY <2>2 DEF Capture
    <3>2. Len(used) < cap
      BY <2>2, <1>t, <1>1, <1>5 DEF Full
    <3>3. Len(mov.inputs) <= Len(mov.inputs)
      BY <1>t
    <3> HIDE DEF used
    <3> QED BY <1>0, <1>t, <1>3, <1>4, <3>1, <3>2, <3>3
  <2> QED BY <2>1, <2>2
<1>7. SessionInv' /\ BufferInv' /\ PowerOnInv'
  BY <1>0, <1>5, <1>6
     DEF SessionInv, BufferInv, NextSlotAllocated, PowerOnInv
<1>8. ASSUME NEW s \in Slots, slots'[s].live
      PROVE  /\ Earlier(slots'[s], machine', disk'[file'].init,
                        Len(disk'[file'].inputs))
             /\ Len(slots'[s].data) < cap'
  <2>1. Earlier(slots[s], machine, mov.init, Len(mov.inputs))
        /\ Len(slots[s].data) < cap
    BY <1>0, <1>8 DEF RecordInv, LiveStatesInv
  <2>2. Earlier(slots[s], Append(machine, held), mov.init,
                Len(disk'[file].inputs))
    BY <1>t, <1>6, <2>1, EarlierGrows
  <2> QED BY <1>0, <1>6, <2>1, <2>2
<1> QED BY <1>0, <1>7, <1>8 DEF LiveStatesInv

\* While nothing is recorded no state is live, and only the buffer's size and
\* the machine before power-on matter.
LEMMA IdleKeeps ==
  ASSUME state' # "RECORD", cap' # 0, ~started' => machine' = <<>>,
         \A s \in Slots : ~slots'[s].live
  PROVE  SessionInv' /\ BufferInv' /\ LiveStatesInv' /\ PowerOnInv'
BY DEF SessionInv, BufferInv, NextSlotAllocated, LiveStatesInv, PowerOnInv

\* A new recording starts with an empty file and buffer; the guard keeps it
\* away from a frame counter that a load has just moved.
LEMMA StartKeeps ==
  ASSUME RecordInv, RecorderUnexposed, NEW f \in Files, RecordStart(f)
  PROVE  SessionInv' /\ BufferInv' /\ LiveStatesInv' /\ PowerOnInv'
<1>t. /\ TypeOK /\ machine \in Machines /\ cap \in Nat \cup {-1}
  BY RecordTypes DEF RecordInv
<1>0. /\ state' = "RECORD" /\ file' = f /\ frame_count' = 0 /\ buffer' = <<>>
      /\ machine' = machine /\ started' = started
      /\ last_frame' = last_frame /\ vdp_frame' = vdp_frame
      /\ last_frame = vdp_frame /\ slots' = Retired
  BY DEF RecordStart, clockVars, RecorderUnexposed
<1>1. disk'[f].init = machine /\ disk'[f].inputs = <<>>
  BY <1>t, StopType DEF RecordStart
<1>2. cap' # 0 /\ 0 < cap'
  BY <1>t, MovieAssumption DEF RecordStart, MovieAssumption, RecordInv, BufferInv
<1>3. Joins(machine, machine, <<>>, <<>>)
  <2>1. Len(machine) \in Nat /\ Len(<<>>) = 0
    BY <1>t, LenProperties, EmptySeq DEF Machines
  <2> QED BY <2>1 DEF Joins, Agrees
<1>4. \A s \in Slots : ~slots'[s].live
  BY <1>0, <1>t DEF Retired, TypeOK, States
<1>5. Len(<<>>) = 0
  BY EmptySeq
<1> QED BY <1>0, <1>1, <1>2, <1>3, <1>4, <1>5
        DEF SessionInv, BufferInv, NextSlotAllocated, LiveStatesInv,
            RecordInv, PowerOnInv

\* A rewind: a load of a live state that rebases the frame counter.
LEMMA RewindKeeps ==
  ASSUME RecordInv, RecorderUnexposed, NEW s \in Slots,
         NEW via \in {"slot", "control", "start"}, LoadRewinds(s, via)
  PROVE  SessionInv' /\ BufferInv' /\ LiveStatesInv' /\ PowerOnInv'
<1> DEFINE st == slots[s]
           mov == disk[file]
           w == TruncateTo(Flush(mov, st.count, st.data).inputs, st.count)
<1>0. /\ state = "RECORD" /\ state' = "RECORD" /\ file' = file /\ cap' = cap
      /\ via # "slot" /\ st.live /\ LoadMachine(s, via)
      /\ frame_count' = st.count /\ buffer' = <<>>
  BY DEF LoadRewinds, RecorderUnexposed
<1>t. /\ machine \in Machines /\ buffer \in Seq(Inputs)
      /\ disk \in [Files -> Movies] /\ file \in Files
      /\ mov \in Movies /\ mov.init \in Machines /\ mov.inputs \in Seq(Inputs)
      /\ Len(mov.inputs) \in Nat /\ cap \in Nat \cup {-1}
      /\ \A r \in Slots : slots[r] \in States
      /\ slots \in [Slots -> States]
  BY <1>0, RecordTypes DEF RecordInv, TypeOK
<1>1. machine' = st.machine /\ last_frame' = vdp_frame' /\ started'
  BY <1>0 DEF LoadMachine
<1>2. /\ Earlier(st, machine, mov.init, Len(mov.inputs))
      /\ Len(st.data) < cap
  BY <1>0 DEF RecordInv, LiveStatesInv
<1>3. st \in States /\ st.count \in Nat /\ st.data \in Seq(Inputs)
      /\ Len(st.data) \in Nat
  BY <1>t, LenProperties DEF States
<1>4. ~(Len(st.data) > cap) /\ 0 < cap
  BY <1>2, <1>3, <1>t
<1>5. disk'[file].init = mov.init /\ disk'[file].inputs = w
  <2>1. disk' = [disk EXCEPT ![file] =
                   [@ EXCEPT !.inputs = w, !.count = st.count]]
    BY <1>4 DEF LoadRewinds
  <2>2. disk'[file] = [mov EXCEPT !.inputs = w, !.count = st.count]
    BY <2>1, <1>t
  <2> HIDE DEF w
  <2> QED BY <2>2, <1>t DEF Movies
<1>6. Joins(machine, mov.init, mov.inputs, buffer)
  BY <1>0 DEF RecordInv, SessionInv
<1>7. Joins(st.machine, mov.init, w, <<>>) /\ Len(w) = st.count
  BY <1>t, <1>2, <1>3, <1>6, JoinsRewind
<1> HIDE DEF w
<1>8. Len(<<>>) = 0 /\ st.count + 0 = st.count
  BY <1>3, EmptySeq
<1>9. SessionInv' /\ BufferInv' /\ PowerOnInv'
  BY <1>0, <1>1, <1>4, <1>5, <1>7, <1>8
     DEF SessionInv, BufferInv, NextSlotAllocated, PowerOnInv
<1>10. ASSUME NEW r \in Slots, slots'[r].live
       PROVE  /\ Earlier(slots'[r], machine', disk'[file'].init,
                         Len(disk'[file'].inputs))
              /\ Len(slots'[r].data) < cap'
  <2>1. slots'[r] = [slots[r] EXCEPT !.live = @ /\ slots[r].count <= st.count]
    BY DEF LoadRewinds
  <2>2. /\ slots[r].live /\ slots[r].count <= st.count
        /\ slots'[r].machine = slots[r].machine
        /\ slots'[r].count = slots[r].count /\ slots'[r].data = slots[r].data
        /\ slots'[r].section = slots[r].section
        /\ slots'[r].kind = slots[r].kind
    BY <2>1, <1>10, <1>t, ZenonT(30) DEF States
  <2>3. /\ Earlier(slots[r], machine, mov.init, Len(mov.inputs))
        /\ Len(slots[r].data) < cap
    BY <2>2, <1>0 DEF RecordInv, LiveStatesInv
  <2>4. Earlier(slots[r], st.machine, mov.init, st.count)
    BY <1>t, <1>2, <1>3, <2>2, <2>3, EarlierRewinds
  <2>5. Earlier(slots'[r], st.machine, mov.init, st.count)
    BY ONLY <2>2, <2>4 DEF Earlier
  <2> QED BY <1>0, <1>1, <1>5, <1>7, <2>2, <2>3, <2>5
<1> QED BY <1>0, <1>9, <1>10 DEF LiveStatesInv

\* A state saved while recording is live from then on.
LEMMA SaveKeeps ==
  ASSUME RecordInv, RecorderUnexposed, NEW s \in Slots,
         NEW kind \in {"gst", "native"}, SaveState(s, kind)
  PROVE  SessionInv' /\ BufferInv' /\ LiveStatesInv' /\ PowerOnInv'
<1>t. /\ slots \in [Slots -> States] /\ machine \in Machines
      /\ TypeOK
  BY RecordTypes DEF RecordInv, TypeOK
<1>0. /\ kind = "native" /\ UNCHANGED <<started, clockVars, movieVars, disk>>
  BY DEF SaveState, RecorderUnexposed
<1>1. SessionInv' /\ BufferInv' /\ PowerOnInv'
  BY <1>0 DEF RecordInv, SessionInv, BufferInv, NextSlotAllocated, PowerOnInv,
              clockVars, movieVars
<1>2. ASSUME NEW r \in Slots, slots'[r].live
      PROVE  /\ state = "RECORD"
             /\ Earlier(slots'[r], machine, disk[file].init,
                        Len(disk[file].inputs))
             /\ Len(slots'[r].data) < cap
  <2>1. CASE r # s
    <3>1. slots'[r] = slots[r]
      BY <2>1, <1>t DEF SaveState
    <3> QED BY <1>2, <3>1 DEF RecordInv, LiveStatesInv
  <2>2. CASE r = s
    <3>1. /\ slots'[s].live = (state = "RECORD") /\ slots'[s].kind = "native"
          /\ slots'[s].section = (state = "RECORD")
          /\ slots'[s].machine = machine
          /\ state = "RECORD" =>
               slots'[s].count = frame_count /\ slots'[s].data = buffer
      BY <1>0, <1>t DEF SaveState
    <3>2. state = "RECORD" /\ slots'[s].section
      BY <2>2, <1>2, <3>1
    <3>3. slots'[s] \in States
      BY TypeStep, RecordTypes, <1>t DEF SaveState, States, TypeOK, RecordInv
    <3>4. /\ Joins(machine, disk[file].init, disk[file].inputs, buffer)
          /\ Len(disk[file].inputs) + Len(buffer) = frame_count
          /\ Len(buffer) < cap
      BY <3>2 DEF RecordInv, SessionInv, BufferInv, NextSlotAllocated
    <3>5. disk[file].init \in Machines /\ disk[file].inputs \in Seq(Inputs)
      BY <3>2, RecordTypes DEF RecordInv
    <3>6. Earlier(slots'[s], machine, disk[file].init, Len(disk[file].inputs))
      BY <1>t, <3>1, <3>2, <3>3, <3>4, <3>5, EarlierNow
    <3> QED BY <2>2, <3>1, <3>2, <3>4, <3>6
  <2> QED BY <2>1, <2>2
<1> QED BY <1>0, <1>1, <1>2 DEF LiveStatesInv, clockVars, movieVars

LEMMA RecordInit == Init => RecordInv
<1> SUFFICES ASSUME Init PROVE RecordInv
  OBVIOUS
<1>1. TypeInv
  BY TypeStart
<1>2. ~(-1 = 0)
  OBVIOUS
<1>3. \A s \in Slots : ~slots[s].live
  BY DEF Init, NoState
<1> QED BY <1>1, <1>2, <1>3
        DEF Init, RecordInv, SessionInv, BufferInv, NextSlotAllocated,
            LiveStatesInv, PowerOnInv

LEMMA RecordStep ==
  ASSUME RecorderUnexposed, RecordInv, [Next]_vars
  PROVE  RecordInv'
<1> DEFINE Keeps == SessionInv' /\ BufferInv' /\ LiveStatesInv' /\ PowerOnInv'
<1>0. TypeInv /\ TypeInv'
  BY TypeStep DEF RecordInv
<1> SUFFICES Keeps
  BY <1>0 DEF RecordInv
<1>t. /\ TypeOK /\ cap \in Nat \cup {-1} /\ cap # 0
      /\ state # "RECORD" => \A s \in Slots : ~slots[s].live
      /\ ~started => machine = <<>>
  BY <1>0, RecordTypes DEF RecordInv, BufferInv, LiveStatesInv, PowerOnInv
<1>r. \A s \in Slots : ~Retired[s].live
  BY <1>t DEF Retired, TypeOK, States
<1>1. ASSUME NEW seen \in Inputs, NEW held \in Inputs, RunFrame(seen, held)
      PROVE  Keeps
  <2>1. CASE Capture(held)
    BY <1>1, <2>1, CaptureKeeps
  <2>2. CASE Inject(held) \/ Ignore(held)
    <3>1. /\ state # "RECORD" /\ state' # "RECORD" /\ cap' = cap
          /\ started' /\ slots' = slots
      BY <1>1, <2>2 DEF RunFrame, Inject, Ignore, movieVars
    <3> QED BY <1>t, <3>1, IdleKeeps
  <2> QED BY <1>1, <2>1, <2>2 DEF RunFrame, MovieUpdate
<1>2. CASE FalseBoundary
  <2>1. state # "RECORD"
    BY <1>2 DEF FalseBoundary, RecordInv, SessionInv
  <2>2. /\ state' # "RECORD" /\ cap' = cap /\ started' /\ slots' = slots
    BY <1>2, <2>1
       DEF FalseBoundary, MovieUpdate, Inject, Capture, Ignore, movieVars
  <2> QED BY <1>t, <2>1, <2>2, IdleKeeps
<1>3. ASSUME NEW f \in Files, RecordStart(f) PROVE Keeps
  BY <1>3, StartKeeps
<1>4. ASSUME NEW f \in Files, PlayStart(f) PROVE Keeps
  <2> DEFINE m == DiskAfterStop[f]
  <2>1. m.count \in Nat
    BY <1>t, StopType DEF Movies
  <2>2. m.count # 0 /\ (~started => m.init = <<>>)
    BY <1>4 DEF PlayStart, RecorderUnexposed
  <2>3. cap' # 0
    BY <1>t, <1>4, <2>1, <2>2 DEF PlayStart
  <2>4. state' # "RECORD" /\ slots' = Retired /\ started' = started
        /\ machine' = m.init
    BY <1>4 DEF PlayStart
  <2> QED BY <1>r, <2>2, <2>3, <2>4, IdleKeeps
<1>5. ASSUME StopRecording, ~started' => machine' = <<>> PROVE Keeps
  <2>1. state' # "RECORD" /\ slots' = Retired /\ cap' = cap
    BY <1>5 DEF StopRecording
  <2> QED BY <1>5, <1>t, <1>r, <2>1, IdleKeeps
<1>6. CASE RecordStop
  BY <1>5, <1>6, <1>t DEF RecordStop, clockVars
<1>7. CASE PlayStop
  <2>1. /\ state # "RECORD" /\ state' # "RECORD" /\ cap' = cap
        /\ slots' = slots /\ started' = started /\ machine' = machine
    BY <1>7 DEF PlayStop, clockVars
  <2> QED BY <1>t, <2>1, IdleKeeps
<1>8. ASSUME NEW s \in Slots, NEW kind \in {"gst", "native"}, SaveState(s, kind)
      PROVE  Keeps
  BY <1>8, SaveKeeps
<1>9. ASSUME NEW s \in Slots, NEW via \in {"slot", "control", "start"}, Load(s, via)
      PROVE  Keeps
  <2>1. CASE LoadRewinds(s, via)
    BY <2>1, RewindKeeps
  <2>2. CASE LoadStops(s, via)
    <3>1. started'
      BY <2>2 DEF LoadStops, LoadMachine
    <3> QED BY <1>5, <2>2, <3>1 DEF LoadStops
  <2>3. CASE LoadPlain(s, via)
    <3>1. /\ state # "RECORD" /\ state' # "RECORD" /\ cap' = cap
          /\ slots' = slots /\ started'
      BY <2>3 DEF LoadPlain, LoadMachine, movieVars, RecorderUnexposed
    <3> QED BY <1>t, <3>1, IdleKeeps
  <2> QED BY <1>9, <2>1, <2>2, <2>3 DEF Load
<1>10. CASE StartContext
  <2>1. /\ started' /\ machine' = machine
        /\ UNCHANGED <<vdp_frame, last_frame, movieVars, disk, slots>>
    BY <1>10, <1>t DEF StartContext, Reset
  <2> QED BY <2>1 DEF RecordInv, SessionInv, BufferInv, NextSlotAllocated,
                      LiveStatesInv, PowerOnInv, movieVars
<1>11. CASE ExitAndRelaunch
  <2>1. state' # "RECORD" /\ slots' = Retired /\ machine' = <<>> /\ cap' # 0
    BY <1>11 DEF ExitAndRelaunch
  <2> QED BY <1>r, <2>1, IdleKeeps
<1>12. CASE UNCHANGED vars
  BY <1>12 DEF RecordInv, SessionInv, BufferInv, NextSlotAllocated,
               LiveStatesInv, PowerOnInv, vars, clockVars, movieVars
<1>13. CASE SoftReset
  <2>1. /\ state # "RECORD" /\ state' # "RECORD" /\ cap' = cap
        /\ slots' = slots /\ started'
    BY <1>13 DEF SoftReset, movieVars, RecorderUnexposed
  <2> QED BY <1>t, <2>1, IdleKeeps
<1>14. CASE ReloadMedia
  <2>1. /\ state # "RECORD" /\ state' # "RECORD" /\ cap' = cap
        /\ slots' = slots /\ machine' = <<>>
    BY <1>14 DEF ReloadMedia, movieVars, RecorderUnexposed
  <2> QED BY <1>t, <2>1, IdleKeeps
<1> QED BY <1>1, <1>2, <1>3, <1>4, <1>6, <1>7, <1>8, <1>9, <1>10, <1>11, <1>12,
           <1>13, <1>14 DEF Next, Emulate

LEMMA RecordInvImplies == RecordInv => RecordingIsTheSession /\ NextSlotAllocated
<1> SUFFICES ASSUME RecordInv PROVE RecordingIsTheSession /\ NextSlotAllocated
  OBVIOUS
<1>1. ASSUME state = "RECORD"
      PROVE  machine = disk[file].init \o disk[file].inputs \o buffer
  BY <1>1, RecordTypes, JoinsConcat, ZenonT(30) DEF RecordInv, SessionInv
<1> QED BY <1>1 DEF RecordInv, BufferInv, RecordingIsTheSession

\* As long as nobody enters a situation that exposes the recorder, the
\* embedded state, the file and the buffer are the session, whatever the
\* buffer's size and however often flushes, state saves and control-server
\* rewinds interleave.
THEOREM RecordingSafe ==
  ASSUME RecorderUnexposed
  PROVE  Spec => []RecordingIsTheSession
<1>1. RecordInv /\ [Next]_vars => RecordInv'
  BY RecordStep
<1> QED BY <1>1, RecordInit, RecordInvImplies, PTL DEF Spec

\* movie_update never writes past its buffer, also when playback sized it.
THEOREM CaptureFits ==
  ASSUME RecorderUnexposed
  PROVE  Spec => []NextSlotAllocated
<1>1. RecordInv /\ [Next]_vars => RecordInv'
  BY RecordStep
<1> QED BY <1>1, RecordInit, RecordInvImplies, PTL DEF Spec
-----------------------------------------------------------------------------
(* Closed files. *)

\* movie_record_stop leaves the whole session in the file.
LEMMA StopHolds ==
  ASSUME RecordInv, state = "RECORD"
  PROVE  /\ DiskAfterStop[file].count = Len(DiskAfterStop[file].inputs)
         /\ DiskAfterStop[file].init = disk[file].init
         /\ DiskAfterStop[file].inputs \in Seq(Inputs)
         /\ OriginAfterStop[file] = machine
         /\ machine = DiskAfterStop[file].init \o DiskAfterStop[file].inputs
<1>t. /\ TypeOK /\ machine \in Machines /\ frame_count \in Nat
      /\ buffer \in Seq(Inputs) /\ disk \in [Files -> Movies]
      /\ origin \in [Files -> Machines]
  BY RecordTypes DEF RecordInv, TypeOK
<1> DEFINE mov == disk[file]
           d == Flush(mov, frame_count, buffer)
<1>1. /\ mov \in Movies /\ mov.init \in Machines /\ file \in Files
      /\ Joins(machine, mov.init, mov.inputs, buffer)
      /\ Len(mov.inputs) + Len(buffer) = frame_count
  BY RecordTypes DEF RecordInv, SessionInv
<1>2. /\ Joins(machine, mov.init, d.inputs, <<>>)
      /\ d.init = mov.init /\ Len(d.inputs) = frame_count
  BY <1>t, <1>1, JoinsFlushed
<1>3. d \in Movies /\ d.inputs \in Seq(Inputs)
  BY <1>t, <1>1, FlushType DEF Movies
<1>4. /\ DiskAfterStop[file] = [d EXCEPT !.count = frame_count]
      /\ OriginAfterStop[file] = machine
  BY <1>1, <1>t DEF DiskAfterStop, OriginAfterStop, Closed
<1> HIDE DEF d
<1>5. /\ DiskAfterStop[file].count = frame_count
      /\ DiskAfterStop[file].init = mov.init
      /\ DiskAfterStop[file].inputs = d.inputs
  BY <1>2, <1>3, <1>4 DEF Movies
<1>6. machine = mov.init \o d.inputs
  <2>1. machine = mov.init \o d.inputs \o <<>>
    <3>1. /\ machine \in Machines /\ mov.init \in Machines
          /\ d.inputs \in Seq(Inputs) /\ <<>> \in Seq(Inputs)
          /\ Joins(machine, mov.init, d.inputs, <<>>)
      BY <1>t, <1>1, <1>2, <1>3, EmptySeq
    <3> HIDE DEF mov
    <3> QED BY ONLY <3>1, JoinsConcat
  <2>2. mov.init \o d.inputs \in Seq(Inputs \cup {ResetMark})
    <3>1. d.inputs \in Seq(Inputs \cup {ResetMark})
      BY <1>3, ElementOfSeq, LenProperties
    <3> QED BY <1>1, <3>1, ConcatProperties DEF Machines
  <2> QED BY <2>1, <2>2, ConcatEmptySeq
<1> QED BY <1>2, <1>3, <1>4, <1>5, <1>6

\* Stopping, wherever it happens, closes the file on the whole session and
\* leaves the other files alone.
LEMMA StopCloses ==
  ASSUME RecordInv, ClosedMovieComplete
  PROVE  \A f \in Files : DiskAfterStop[f].exists =>
           /\ DiskAfterStop[f].count = Len(DiskAfterStop[f].inputs)
           /\ OriginAfterStop[f] = DiskAfterStop[f].init \o DiskAfterStop[f].inputs
<1>t. /\ TypeOK /\ machine \in Machines /\ frame_count \in Nat
      /\ buffer \in Seq(Inputs) /\ disk \in [Files -> Movies]
      /\ origin \in [Files -> Machines]
  BY RecordTypes DEF RecordInv, TypeOK
<1> SUFFICES ASSUME NEW f \in Files, DiskAfterStop[f].exists
             PROVE  /\ DiskAfterStop[f].count = Len(DiskAfterStop[f].inputs)
                    /\ OriginAfterStop[f] =
                         DiskAfterStop[f].init \o DiskAfterStop[f].inputs
  OBVIOUS
<1>1. CASE state = "RECORD" /\ f = file
  BY <1>1, StopHolds
<1>2. CASE ~(state = "RECORD" /\ f = file)
  <2>1. f # file
    BY <1>2, MovieAssumption, <1>t DEF TypeOK, MovieAssumption
  <2>2. DiskAfterStop[f] = disk[f] /\ OriginAfterStop[f] = origin[f]
    BY <1>t, <2>1 DEF DiskAfterStop, OriginAfterStop
  <2> QED BY <2>1, <2>2 DEF ClosedMovieComplete
<1> QED BY <1>1, <1>2

LEMMA ClosedStep ==
  ASSUME RecorderUnexposed, RecordInv, ClosedMovieComplete, [Next]_vars
  PROVE  ClosedMovieComplete'
<1>t. TypeOK /\ disk \in [Files -> Movies] /\ origin \in [Files -> Machines]
  BY RecordTypes DEF RecordInv, TypeOK
\* Steps that at most write the file being recorded.
<1>1. ASSUME origin' = origin, file' = file,
             disk' = disk \/ \E m : disk' = [disk EXCEPT ![file] = m]
      PROVE  ClosedMovieComplete'
  BY <1>1, <1>t DEF ClosedMovieComplete
\* Steps that stop the recording.
<1>2. ASSUME disk' = DiskAfterStop, origin' = OriginAfterStop
      PROVE  ClosedMovieComplete'
  BY <1>2, StopCloses DEF ClosedMovieComplete
<1>3. ASSUME NEW held, MovieUpdate(held), origin' = origin
      PROVE  ClosedMovieComplete'
  BY <1>1, <1>3 DEF MovieUpdate, Inject, Capture, Ignore, movieVars
<1>4. CASE \E seen, held \in Inputs : RunFrame(seen, held)
  BY <1>3, <1>4 DEF RunFrame
<1>5. CASE FalseBoundary
  BY <1>3, <1>5 DEF FalseBoundary
<1>6. ASSUME NEW f \in Files, RecordStart(f) PROVE ClosedMovieComplete'
  <2>1. ASSUME NEW g \in Files, g # f
        PROVE  disk'[g] = DiskAfterStop[g] /\ origin'[g] = OriginAfterStop[g]
    BY <1>6, <2>1, <1>t, StopType DEF RecordStart
  <2>2. file' = f
    BY <1>6 DEF RecordStart
  <2> QED BY <2>1, <2>2, StopCloses DEF ClosedMovieComplete
<1>7. CASE \E f \in Files : PlayStart(f)
  BY <1>2, <1>7 DEF PlayStart
<1>8. CASE RecordStop
  BY <1>2, <1>8 DEF RecordStop, StopRecording
<1>9. CASE PlayStop
  BY <1>1, <1>9 DEF PlayStop
<1>10. CASE \E s \in Slots, kind \in {"gst", "native"} : SaveState(s, kind)
  BY <1>1, <1>10 DEF SaveState, movieVars
<1>11. CASE \E s \in Slots, via \in {"slot", "control", "start"} : Load(s, via)
  <2> PICK s \in Slots, via \in {"slot", "control", "start"} : Load(s, via)
    BY <1>11
  <2>1. CASE LoadRewinds(s, via)
    <3>1. origin' = origin /\ file' = file
          /\ \E m : disk' = [disk EXCEPT ![file] = m]
      BY <2>1 DEF LoadRewinds
    <3> QED BY <1>1, <3>1
  <2>2. CASE LoadStops(s, via)
    BY <1>2, <2>2 DEF LoadStops, StopRecording
  <2>3. CASE LoadPlain(s, via)
    BY <1>1, <2>3 DEF LoadPlain, movieVars
  <2> QED BY <2>1, <2>2, <2>3 DEF Load
<1>12. CASE StartContext
  BY <1>1, <1>12 DEF StartContext, movieVars
<1>13. CASE ExitAndRelaunch
  BY <1>2, <1>13 DEF ExitAndRelaunch
<1>14. CASE UNCHANGED vars
  BY <1>1, <1>14 DEF vars, movieVars
<1>15. CASE SoftReset
  BY <1>1, <1>15 DEF SoftReset, movieVars
<1>16. CASE ReloadMedia
  BY <1>1, <1>16 DEF ReloadMedia, movieVars
<1> QED BY <1>4, <1>5, <1>6, <1>7, <1>8, <1>9, <1>10, <1>11, <1>12, <1>13,
           <1>14, <1>15, <1>16 DEF Next, Emulate

\* However a recording ends (hotkey, another recording, playback, a state that
\* does not belong to it, exit), the file on disk is the whole session and its
\* header counts every frame of it.
THEOREM ClosedMoviesComplete ==
  ASSUME RecorderUnexposed
  PROVE  Spec => []ClosedMovieComplete
<1>1. Init => ClosedMovieComplete
  BY DEF Init, NoMovie, ClosedMovieComplete
<1>2. RecordInv /\ [Next]_vars => RecordInv'
  BY RecordStep
<1>3. RecordInv /\ ClosedMovieComplete /\ [Next]_vars => ClosedMovieComplete'
  BY ClosedStep
<1> QED BY <1>1, <1>2, <1>3, RecordInit, PTL DEF Spec
-----------------------------------------------------------------------------
(* Playback.  A playing machine has seen the frames before play_frame, and *)
(* io.c holds the buttons of the next one.  No situation may arise: each   *)
(* harms a playback, or the recording that is played.                      *)

NothingExposed == Exposed = {}

PlayInv ==
  state = "PLAY" =>
    /\ origin[played] = buffer
    /\ play_frame \in 1..Len(buffer)
    /\ machine = SubSeq(buffer, 1, play_frame - 1)
    /\ pad = buffer[play_frame]
    /\ last_frame = vdp_frame

\* Before the start no frame has been run: playback from the command line
\* starts with both counters of frames at zero.
ClockInv == ~started => vdp_frame = 0 /\ last_frame = 0

ReplayInv == RecordInv /\ ClosedMovieComplete /\ ClockInv /\ PlayInv

\* One frame more of a movie.
LEMMA FrameOfMovie ==
  ASSUME NEW S, NEW b \in Seq(S), NEW n \in 1..Len(b)
  PROVE  Append(SubSeq(b, 1, n - 1), b[n]) = SubSeq(b, 1, n)
<1>1. Len(b) \in Nat /\ \A k \in 1..Len(b) : b[k] \in S
  BY LenProperties, ElementOfSeq
<1>2. SubSeq(b, 1, n - 1) \in Seq(S) /\ b[n] \in S
  BY <1>1, SubSeqProperties
<1>3. SubSeq(b, 1, n) = SubSeq(b, 1, n - 1) \o <<b[n]>>
  <2>1. 1 \in 1..Len(b) /\ n \in 1..Len(b)
    BY <1>1
  <2> QED BY <2>1, SubSeqRecursiveSecond
<1> QED BY <1>2, <1>3, AppendIsConcat

\* movie_play_start: the file is a whole session, from power-on.
LEMMA PlayStarts ==
  ASSUME NothingExposed, ReplayInv, TypeOK', ClosedMovieComplete', NEW f \in Files, PlayStart(f)
  PROVE  PlayInv' /\ ClockInv'
<1> DEFINE m == DiskAfterStop[f]
<1>1. /\ m.exists /\ ~started /\ m.init = <<>> /\ m.init_frame = 0 /\ m.count # 0
      /\ Len(m.inputs) >= m.count
      /\ disk' = DiskAfterStop /\ origin' = OriginAfterStop
      /\ machine' = m.init /\ vdp_frame' = m.init_frame
      /\ file' = NoFile /\ state' = "PLAY"
      /\ buffer' = SubSeq(m.inputs, 1, m.count)
      /\ pad' = m.inputs[1] /\ play_frame' = 1 /\ played' = f
      /\ started' = started /\ last_frame' = last_frame
  BY DEF PlayStart, NothingExposed
<1>2. m \in Movies /\ TypeInv
  BY StopType DEF ReplayInv, RecordInv, TypeInv
<1>3. /\ m.inputs \in Seq(Inputs) /\ m.count \in Nat /\ m.inputs \in Seq(Inputs \cup {ResetMark})
      /\ Len(m.inputs) \in Nat
  <2>1. m.inputs \in Seq(Inputs) /\ m.count \in Nat
    BY <1>2 DEF Movies
  <2> HIDE DEF m
  <2> QED BY <2>1, LenProperties, ElementOfSeq
<1>4. /\ m.count = Len(m.inputs) /\ origin'[f] = m.init \o m.inputs
  BY <1>1, MovieAssumption DEF ClosedMovieComplete, MovieAssumption
<1> HIDE DEF m
<1>5. origin'[f] = m.inputs /\ buffer' = m.inputs
  BY <1>1, <1>3, <1>4, ConcatEmptySeq, SubSeqFull
<1>6. machine' = SubSeq(buffer', 1, 0)
  BY <1>1, <1>5, SubSeqEmpty
<1>7. last_frame' = 0 /\ vdp_frame' = 0 /\ 1 \in 1..Len(m.inputs)
  BY <1>1, <1>3, <1>4 DEF ReplayInv, ClockInv
<1>8. PlayInv'
  <2>1. origin'[played'] = buffer' /\ pad' = buffer'[play_frame']
    BY <1>1, <1>5, Zenon
  <2>2. play_frame' - 1 = 0 /\ play_frame' \in 1..Len(buffer')
    <3>1. play_frame' = 1
      BY <1>1, Zenon
    <3>2. Len(buffer') = Len(m.inputs)
      BY <1>5, Zenon
    <3> QED BY ONLY <1>7, <3>1, <3>2
  <2>3. machine' = SubSeq(buffer', 1, play_frame' - 1)
    BY <1>6, <2>2, Zenon
  <2> QED BY <1>7, <2>1, <2>2, <2>3 DEF PlayInv
<1> QED BY <1>7, <1>8 DEF ClockInv

\* A frame of playback: the game sees the recorded buttons.
LEMMA FramePlayed ==
  ASSUME NothingExposed, ReplayInv, NEW seen \in Inputs, NEW held \in Inputs,
         RunFrame(seen, held), state = "PLAY"
  PROVE  /\ PlayInv' /\ ClockInv'
         /\ state' = "NONE" => machine' = origin[played]
<1>1. /\ buffer \in Seq(Inputs) /\ Len(buffer) = frame_count /\ frame_count \in Nat
      /\ play_frame \in 1..Len(buffer)
      /\ origin[played] = buffer
  BY RecordTypes DEF ReplayInv, RecordInv, TypeInv, PlayInv
<1>2. machine' = SubSeq(buffer, 1, play_frame)
  <2>1. seen = buffer[play_frame] /\ machine = SubSeq(buffer, 1, play_frame - 1)
        /\ machine' = Append(machine, seen)
    BY DEF RunFrame, NothingExposed, ReplayInv, PlayInv
  <2> QED BY <1>1, <2>1, FrameOfMovie
<1>3. Inject(held) /\ started' = started /\ started
  BY DEF RunFrame, MovieUpdate, Capture, Ignore
<1>4. CASE Exhausted
  <2>1. state' = "NONE" /\ play_frame = Len(buffer)
    BY <1>1, <1>3, <1>4 DEF Inject, Exhausted
  <2>2. machine' = buffer
    BY <1>1, <1>2, <2>1, SubSeqFull
  <2> QED BY <1>1, <1>3, <2>1, <2>2 DEF PlayInv, ClockInv
<1>5. CASE ~Exhausted
  <2>1. /\ state' = state /\ play_frame' = play_frame + 1 /\ pad' = buffer[play_frame + 1]
        /\ buffer' = buffer
    BY <1>3, <1>5 DEF Inject, NextFrame
  <2>2. play_frame + 1 \in 1..Len(buffer) /\ play_frame' - 1 = play_frame
    BY <1>1, <1>5, <2>1 DEF Exhausted
  <2>3. played' = played /\ origin' = origin /\ last_frame' = vdp_frame'
    BY <2>1 DEF RunFrame
  <2> QED BY <1>1, <1>2, <1>3, <2>1, <2>2, <2>3 DEF PlayInv, ClockInv
<1> QED BY <1>4, <1>5

LEMMA ReplayInit == Init => ReplayInv
BY RecordInit DEF Init, ReplayInv, NoMovie, ClosedMovieComplete, ClockInv, PlayInv

LEMMA ReplayStep ==
  ASSUME NothingExposed, ReplayInv, [Next]_vars
  PROVE  ReplayInv'
<1>0. RecorderUnexposed
  BY DEF NothingExposed, RecorderUnexposed
<1>1. RecordInv' /\ ClosedMovieComplete' /\ TypeOK'
  BY <1>0, RecordStep, ClosedStep DEF ReplayInv, RecordInv, TypeInv
<1> SUFFICES PlayInv' /\ ClockInv'
  BY <1>1 DEF ReplayInv
<1>t. ~started => machine = <<>>
  BY DEF ReplayInv, RecordInv, PowerOnInv
<1>2. ASSUME state' # "PLAY", started' PROVE PlayInv' /\ ClockInv'
  BY <1>2 DEF PlayInv, ClockInv
<1>3. ASSUME NEW seen \in Inputs, NEW held \in Inputs, RunFrame(seen, held)
      PROVE  PlayInv' /\ ClockInv'
  <2>1. CASE state = "PLAY"
    BY <1>3, <2>1, FramePlayed
  <2>2. CASE state # "PLAY"
    BY <1>2, <1>3, <2>2 DEF RunFrame, MovieUpdate, Inject, Capture, Ignore, movieVars
  <2> QED BY <2>1, <2>2
<1>4. CASE FalseBoundary
  <2>1. state # "PLAY"
    BY <1>4 DEF FalseBoundary, ReplayInv, PlayInv
  <2> QED BY <1>2, <1>4, <2>1 DEF FalseBoundary, MovieUpdate, Inject, Capture, Ignore, movieVars
<1>5. ASSUME NEW f \in Files, RecordStart(f) PROVE PlayInv' /\ ClockInv'
  BY <1>5 DEF RecordStart, ReplayInv, PlayInv, ClockInv, clockVars
<1>6. ASSUME NEW f \in Files, PlayStart(f) PROVE PlayInv' /\ ClockInv'
  BY <1>1, <1>6, PlayStarts
<1>7. CASE RecordStop
  BY <1>7 DEF RecordStop, StopRecording, ReplayInv, PlayInv, ClockInv, clockVars
<1>8. CASE PlayStop
  BY <1>8 DEF PlayStop, ReplayInv, PlayInv, ClockInv, clockVars
<1>9. ASSUME NEW s \in Slots, NEW kind \in {"gst", "native"}, SaveState(s, kind)
      PROVE  PlayInv' /\ ClockInv'
  BY <1>9 DEF SaveState, ReplayInv, PlayInv, ClockInv, clockVars, movieVars
<1>10. ASSUME NEW s \in Slots, NEW via \in {"slot", "control", "start"}, Load(s, via)
      PROVE  PlayInv' /\ ClockInv'
  <2>1. state # "PLAY"
    BY <1>10 DEF Load, LoadRewinds, LoadStops, LoadPlain, NothingExposed
  <2>2. state' # "PLAY" /\ started'
    BY <1>10, <2>1 DEF Load, LoadRewinds, LoadStops, LoadPlain, StopRecording, LoadMachine, movieVars
  <2> QED BY <1>2, <2>2
<1>11. CASE StartContext
  BY <1>t, <1>11 DEF StartContext, Reset, ReplayInv, PlayInv, ClockInv, movieVars
<1>12. CASE SoftReset
  BY <1>2, <1>12 DEF SoftReset, NothingExposed, movieVars
<1>13. CASE ReloadMedia
  BY <1>2, <1>13 DEF ReloadMedia, NothingExposed, movieVars
<1>14. CASE ExitAndRelaunch
  BY <1>14 DEF ExitAndRelaunch, PlayInv, ClockInv
<1>15. CASE UNCHANGED vars
  BY <1>15 DEF vars, clockVars, movieVars, ReplayInv, PlayInv, ClockInv
<1> QED BY <1>3, <1>4, <1>5, <1>6, <1>7, <1>8, <1>9, <1>10, <1>11, <1>12, <1>13, <1>14, <1>15
           DEF Next, Emulate

LEMMA ReplayIsPrefix == ReplayInv => ReplayIsIdentical
<1> SUFFICES ASSUME ReplayInv, state = "PLAY"
             PROVE  IsPrefix(Append(machine, pad), origin[played])
  BY DEF ReplayIsIdentical
<1>1. /\ buffer \in Seq(Inputs) /\ play_frame \in 1..Len(buffer)
      /\ origin[played] = buffer
      /\ Append(machine, pad) = Append(SubSeq(buffer, 1, play_frame - 1), buffer[play_frame])
  BY RecordTypes DEF ReplayInv, RecordInv, PlayInv
<1>2. Append(machine, pad) = SubSeq(buffer, 1, play_frame)
  BY <1>1, FrameOfMovie
<1>3. /\ SubSeq(buffer, 1, play_frame) \in Seq(Inputs)
      /\ Len(SubSeq(buffer, 1, play_frame)) = play_frame
  <2>1. Len(buffer) \in Nat /\ \A k \in 1..Len(buffer) : buffer[k] \in Inputs
    BY <1>1, LenProperties, ElementOfSeq
  <2> QED BY <1>1, <2>1, SubSeqProperties
<1>4. SubSeq(SubSeq(buffer, 1, play_frame), 1, play_frame) = SubSeq(buffer, 1, play_frame)
  BY <1>3, SubSeqFull
<1>5. play_frame <= Len(buffer)
  BY <1>1, LenProperties
<1> QED BY <1>1, <1>2, <1>3, <1>4, <1>5 DEF IsPrefix

\* movie_play_start, movie_play_pre_inject and movie_update together replay a
\* recorded session, whatever was recorded, however often, and however long.
THEOREM PlaybackIsTheSession ==
  ASSUME NothingExposed
  PROVE  Spec => []ReplayIsIdentical
<1>1. ReplayInv /\ [Next]_vars => ReplayInv'
  BY ReplayStep
<1> QED BY <1>1, ReplayInit, ReplayIsPrefix, PTL DEF Spec

\* movie_update hands the pads back after the last frame of the movie.
LEMMA LiveStep ==
  ASSUME NothingExposed, ReplayInv, [Next]_vars
  PROVE  state = "PLAY" /\ state' = "NONE" /\ play_frame' # 0 => machine' = origin[played]
<1> SUFFICES ASSUME state = "PLAY", state' = "NONE", play_frame' # 0
             PROVE  machine' = origin[played]
  OBVIOUS
<1>1. \E seen, held \in Inputs : RunFrame(seen, held)
  <2>1. ~FalseBoundary
    BY DEF FalseBoundary, ReplayInv, PlayInv
  <2>2. ~StartContext /\ ~SoftReset /\ ~ReloadMedia /\ ~ExitAndRelaunch /\ ~RecordStop /\ ~PlayStop
    BY DEF StartContext, SoftReset, ReloadMedia, ExitAndRelaunch, RecordStop, StopRecording,
           PlayStop, movieVars
  <2>3. \A f \in Files : ~RecordStart(f) /\ ~PlayStart(f)
    BY DEF RecordStart, PlayStart
  <2>4. \A s \in Slots, kind \in {"gst", "native"} : ~SaveState(s, kind)
    BY DEF SaveState, movieVars
  <2>5. \A s \in Slots, via \in {"slot", "control", "start"} : ~Load(s, via)
    BY DEF Load, LoadRewinds, LoadStops, LoadPlain, movieVars
  <2>6. ~UNCHANGED vars
    BY DEF vars, movieVars
  <2> QED BY <2>1, <2>2, <2>3, <2>4, <2>5, <2>6 DEF Next, Emulate
<1> QED BY <1>1, FramePlayed

\* The player gets the pads back exactly where the recorded session ended.
THEOREM LiveAtTheEnd ==
  ASSUME NothingExposed
  PROVE  Spec => GoesLiveAtTheEnd
<1>1. ReplayInv /\ [Next]_vars => ReplayInv'
  BY ReplayStep
<1>2. ReplayInv /\ [Next]_vars =>
        [state = "PLAY" /\ state' = "NONE" /\ play_frame' # 0 => machine' = origin[played]]_vars
  BY LiveStep
<1> QED BY <1>1, <1>2, ReplayInit, PTL DEF Spec, GoesLiveAtTheEnd
-----------------------------------------------------------------------------
(* The recorder is the tape of InputTape.  RecordingIsTheSession and       *)
(* ClosedMovieComplete say what the tape is by the machine: what follows   *)
(* the embedded state in its history.  So a step of the machine is a step  *)
(* of the tape, whatever buffer and file do meanwhile.                     *)

LEMMA SameRest ==
  ASSUME NEW S, NEW a \in Seq(S), NEW x \in Seq(S), NEW y \in Seq(S), a \o x = a \o y
  PROVE  x = y
<1>1. /\ Len(a) \in Nat /\ Len(x) \in Nat /\ Len(y) \in Nat
      /\ Len(a \o x) = Len(a) + Len(x) /\ Len(a \o y) = Len(a) + Len(y)
  BY LenProperties, ConcatProperties
<1>2. Len(x) = Len(y)
  BY <1>1
<1>3. ASSUME NEW k \in 1..Len(x) PROVE x[k] = y[k]
  <2>1. Len(a) + k \in (Len(a) + 1)..(Len(a) + Len(x)) /\ (Len(a) + k) - Len(a) = k
    BY <1>1
  <2>2. (a \o x)[Len(a) + k] = x[k]
    BY <1>1, <2>1
  <2>3. (a \o y)[Len(a) + k] = y[k]
    BY <1>1, <1>2, <2>1
  <2> QED BY <2>2, <2>3
<1> QED BY <1>2, <1>3, SeqEqual

LEMMA RestGrows ==
  ASSUME NEW S, NEW a \in Seq(S), NEW x \in Seq(S), NEW y \in Seq(S), NEW i \in S,
         a \o y = Append(a \o x, i)
  PROVE  y = Append(x, i)
<1>1. Append(x, i) \in Seq(S) /\ a \o Append(x, i) = Append(a \o x, i)
  OBVIOUS
<1> QED BY <1>1, SameRest

LEMMA RestRewinds ==
  ASSUME NEW S, NEW a \in Seq(S), NEW x \in Seq(S), NEW y \in Seq(S), NEW n \in Nat,
         Len(a \o y) = Len(a) + n, Len(a \o y) <= Len(a \o x),
         \A k \in 1..Len(a \o y) : (a \o x)[k] = (a \o y)[k]
  PROVE  n \in 0..Len(x) /\ y = SubSeq(x, 1, n)
<1>1. /\ Len(a) \in Nat /\ Len(x) \in Nat /\ Len(y) \in Nat
      /\ Len(a \o x) = Len(a) + Len(x) /\ Len(a \o y) = Len(a) + Len(y)
  BY LenProperties, ConcatProperties
<1>2. Len(y) = n /\ n <= Len(x)
  BY <1>1
<1>3. ASSUME NEW k \in 1..n PROVE x[k] = y[k]
  <2>1. Len(a) + k \in 1..Len(a \o y) /\ k \in 1..Len(x) /\ k \in 1..Len(y)
    BY <1>1, <1>2
  <2>2. (a \o x)[Len(a) + k] = x[k]
    BY <1>1, <2>1
  <2>3. (a \o y)[Len(a) + k] = y[k]
    BY <1>1, <2>1
  <2> QED BY <2>1, <2>2, <2>3
<1>4. /\ SubSeq(x, 1, n) \in Seq(S) /\ Len(SubSeq(x, 1, n)) = n
      /\ \A k \in 1..n : SubSeq(x, 1, n)[k] = x[k]
  <2>1. \A k \in 1..n : x[k] \in S
    BY <1>1, <1>2, ElementOfSeq
  <2> QED BY <2>1, SubSeqProperties
<1> QED BY <1>1, <1>2, <1>3, <1>4, SeqEqual

Histories == Inputs \cup {ResetMark}

\* The tape is what the session adds to the embedded state.
LEMMA TapeIsSession ==
  RecordInv /\ state = "RECORD" =>
    /\ disk[file].init \in Seq(Histories) /\ Recorded \in Seq(Histories)
    /\ machine = disk[file].init \o Recorded
<1> SUFFICES ASSUME RecordInv, state = "RECORD"
             PROVE  /\ disk[file].init \in Seq(Histories) /\ Recorded \in Seq(Histories)
                    /\ machine = disk[file].init \o Recorded
  OBVIOUS
<1>1. /\ machine \in Machines /\ disk[file].init \in Machines
      /\ disk[file].inputs \in Seq(Inputs) /\ buffer \in Seq(Inputs)
  BY RecordTypes DEF RecordInv
<1>2. machine = disk[file].init \o disk[file].inputs \o buffer
  BY RecordInvImplies DEF RecordingIsTheSession
<1>3. \A s \in Seq(Inputs) : s \in Seq(Histories)
  <2> TAKE s \in Seq(Inputs)
  <2>1. \A k \in 1..Len(s) : s[k] \in Histories
    BY ElementOfSeq DEF Histories
  <2> QED BY <2>1, LenProperties
<1>4. Recorded = disk[file].inputs \o buffer
  BY DEF Recorded
<1>5. Recorded \in Seq(Histories)
  BY <1>1, <1>3, <1>4, ConcatProperties
<1>6. machine = disk[file].init \o Recorded
  <2>1. /\ disk[file].init \in Seq(Histories) /\ disk[file].inputs \in Seq(Histories)
        /\ buffer \in Seq(Histories)
    BY <1>1, <1>3 DEF Machines, Histories
  <2>2. PICK a, b, c \in Seq(Histories) :
          a = disk[file].init /\ b = disk[file].inputs /\ c = buffer
    BY <2>1
  <2>3. (a \o b) \o c = a \o (b \o c)
    BY ConcatAssociative
  <2> QED BY ONLY <1>2, <1>4, <2>2, <2>3, Zenon
<1> QED BY <1>1, <1>5, <1>6 DEF Machines, Histories

\* A frame is captured, or a load cuts the file.
LEMMA TapeMoves ==
  ASSUME RecordInv, RecordInv', state = "RECORD", state' = "RECORD", file' = file,
         NEW new \in Movies, disk' = [disk EXCEPT ![file] = new], new.init = disk[file].init
  PROVE  /\ Shelf' = Shelf
         /\ \A i \in Inputs : machine' = Append(machine, i) => Recorded' = Append(Recorded, i)
         /\ \A n \in Nat :
              /\ Len(machine') = Len(disk[file].init) + n /\ Len(machine') <= Len(machine)
              /\ Agrees(machine, 0, machine')
              => n \in 0..Len(Recorded) /\ Recorded' = SubSeq(Recorded, 1, n)
<1>1. /\ disk[file].init \in Seq(Histories) /\ Recorded \in Seq(Histories)
      /\ machine = disk[file].init \o Recorded
  BY TapeIsSession
<1>2. file \in Files /\ disk \in [Files -> Movies]
  BY RecordTypes DEF RecordInv
<1>3. disk'[file'].init = disk[file].init
  BY <1>2
<1>4. Recorded' \in Seq(Histories) /\ machine' = disk[file].init \o Recorded'
  <2>1. (RecordInv /\ state = "RECORD" =>
           /\ disk[file].init \in Seq(Histories) /\ Recorded \in Seq(Histories)
           /\ machine = disk[file].init \o Recorded)'
    BY TapeIsSession, PTL
  <2> QED BY <1>3, <2>1
<1>5. Shelf' = Shelf
  BY <1>2 DEF Shelf
<1>6. PICK a, x, y \in Seq(Histories) : a = disk[file].init /\ x = Recorded /\ y = Recorded'
  BY <1>1, <1>4
<1>7. ASSUME NEW i \in Inputs, machine' = Append(machine, i) PROVE Recorded' = Append(Recorded, i)
  <2>1. a \o y = Append(a \o x, i) /\ i \in Histories
    BY <1>1, <1>4, <1>6, <1>7 DEF Histories
  <2>2. y = Append(x, i)
    BY ONLY <2>1, a \in Seq(Histories), x \in Seq(Histories), y \in Seq(Histories), RestGrows
  <2> QED BY <1>6, <2>2
<1>8. ASSUME NEW n \in Nat, Len(machine') = Len(disk[file].init) + n,
             Len(machine') <= Len(machine), Agrees(machine, 0, machine')
      PROVE  n \in 0..Len(Recorded) /\ Recorded' = SubSeq(Recorded, 1, n)
  <2>1. machine = a \o x /\ machine' = a \o y
    BY <1>1, <1>4, <1>6
  <2>2. \A k \in 1..Len(a \o y) : (a \o x)[0 + k] = (a \o y)[k]
    BY <1>8, <2>1 DEF Agrees
  <2>3. \A k \in 1..Len(a \o y) : 0 + k = k
    OBVIOUS
  <2>4. \A k \in 1..Len(a \o y) : (a \o x)[k] = (a \o y)[k]
    BY ONLY <2>2, <2>3
  <2>5. Len(a \o y) = Len(a) + n /\ Len(a \o y) <= Len(a \o x)
    BY <1>6, <1>8, <2>1
  <2>6. n \in 0..Len(x) /\ y = SubSeq(x, 1, n)
    BY ONLY <2>4, <2>5, n \in Nat, a \in Seq(Histories), x \in Seq(Histories), y \in Seq(Histories),
            RestRewinds, SMTT(30)
  <2> QED BY <1>6, <2>6
<1> QED BY <1>5, <1>7, <1>8


\* What movie_record_stop puts on the shelf is the tape; the rest stays.
LEMMA TapeShelved ==
  ASSUME RecordInv, NEW f \in Files
  PROVE  SubSeq(DiskAfterStop[f].inputs, 1, DiskAfterStop[f].count) =
           IF f = file THEN Recorded ELSE Shelf[f]
<1>1. TypeOK /\ disk \in [Files -> Movies] /\ NoFile \notin Files
  BY RecordTypes, MovieAssumption DEF RecordInv, MovieAssumption
<1>2. CASE f = file
  <2>1. state = "RECORD"
    BY <1>1, <1>2 DEF TypeOK
  <2>2. /\ disk[f].init \in Seq(Histories) /\ Recorded \in Seq(Histories)
        /\ machine = disk[f].init \o Recorded
    BY <1>2, <2>1, TapeIsSession
  <2>3. /\ DiskAfterStop[f].count = Len(DiskAfterStop[f].inputs)
        /\ DiskAfterStop[f].inputs \in Seq(Inputs)
        /\ machine = disk[f].init \o DiskAfterStop[f].inputs
    BY <1>2, <2>1, StopHolds, Zenon
  <2>4. DiskAfterStop[f].inputs \in Seq(Histories)
    BY <2>3, ElementOfSeq, LenProperties DEF Histories
  <2>5. PICK a, x, y \in Seq(Histories) :
          a = disk[f].init /\ x = Recorded /\ y = DiskAfterStop[f].inputs
    BY <2>2, <2>4
  <2>6. a \o x = a \o y
    BY <2>2, <2>3, <2>5, Zenon
  <2>7. x = y
    BY ONLY <2>6, a \in Seq(Histories), x \in Seq(Histories), y \in Seq(Histories), SameRest
  <2>8. SubSeq(y, 1, Len(y)) = y
    BY SubSeqFull
  <2> QED BY <1>2, <2>3, <2>5, <2>7, <2>8, Zenon
<1>3. CASE f # file
  BY <1>1, <1>3 DEF DiskAfterStop, Shelf, TypeOK
<1> QED BY <1>2, <1>3

\* Every way a recording ends is a Stop of the tape.
LEMMA TapeStops ==
  ASSUME RecordInv, RecordInv', disk' = DiskAfterStop, file' = NoFile
  PROVE  Tape!TapeNext \/ UNCHANGED <<file, Recorded, Shelf>>
<1>1. TypeOK /\ TypeOK' /\ NoFile \notin Files /\ disk \in [Files -> Movies]
  BY RecordTypes, MovieAssumption DEF RecordInv, TypeInv, MovieAssumption
<1>2. state' # "RECORD" /\ Recorded' = <<>>
  BY <1>1 DEF TypeOK, Recorded
<1>3. Shelf' = [f \in Files |-> SubSeq(DiskAfterStop[f].inputs, 1, DiskAfterStop[f].count)]
  BY <1>1 DEF Shelf
<1>4. CASE state = "RECORD"
  <2>1. file \in Files /\ file # NoFile
    BY <1>1, <1>4 DEF TypeOK
  <2>2. Shelf' = [f \in Files |-> IF f = file THEN Recorded ELSE Shelf[f]]
    BY <1>3, TapeShelved
  <2>3. Shelf = [f \in Files |-> Shelf[f]]
    BY DEF Shelf
  <2>4. Shelf' = [Shelf EXCEPT ![file] = Recorded]
    BY <2>1, <2>2, <2>3
  <2>5. Tape!Stop
    BY <1>2, <2>1, <2>4 DEF Tape!Stop, Tape!Shelved
  <2> QED BY <2>5 DEF Tape!TapeNext
<1>5. CASE state # "RECORD"
  BY <1>1, <1>2, <1>5 DEF TypeOK, Recorded, Shelf, DiskAfterStop
<1> QED BY <1>4, <1>5

\* movie_record_start is a Start, whatever was recorded before.
LEMMA TapeStarts ==
  ASSUME RecordInv, RecordInv', NEW f \in Files, RecordStart(f)
  PROVE  Tape!TapeNext
<1>1. TypeOK /\ NoFile \notin Files /\ disk \in [Files -> Movies] /\ DiskAfterStop \in [Files -> Movies]
  BY RecordTypes, StopType, MovieAssumption DEF RecordInv, MovieAssumption
<1>2. /\ state' = "RECORD" /\ file' = f /\ buffer' = <<>>
      /\ disk' = [DiskAfterStop EXCEPT ![f] =
                    [exists |-> TRUE, init |-> machine, init_frame |-> vdp_frame,
                     count |-> 0, inputs |-> <<>>]]
  BY DEF RecordStart
<1>3. Recorded' = <<>>
  <2>1. disk'[f].inputs = <<>>
    BY <1>1, <1>2
  <2>2. Recorded' = <<>> \o <<>>
    BY <1>2, <2>1 DEF Recorded
  <2>3. <<>> \o <<>> = <<>>
    BY EmptySeq, ConcatEmptySeq
  <2> QED BY <2>2, <2>3
<1>4. Shelf' = [g \in Files |-> IF g = f THEN <<>>
                               ELSE SubSeq(DiskAfterStop[g].inputs, 1, DiskAfterStop[g].count)]
  BY <1>1, <1>2 DEF Shelf
<1>5. Shelf' = [g \in Files |-> IF g = f THEN <<>> ELSE IF g = file THEN Recorded ELSE Shelf[g]]
  BY <1>4, TapeShelved
<1>6. Shelf = [g \in Files |-> Shelf[g]]
  BY DEF Shelf
<1>7. Shelf' = [(IF file = NoFile THEN Shelf ELSE [Shelf EXCEPT ![file] = Recorded]) EXCEPT ![f] = <<>>]
  <2>1. CASE file = NoFile
    BY <1>1, <1>5, <1>6, <2>1
  <2>2. CASE file # NoFile
    BY <1>1, <1>5, <1>6, <2>2 DEF TypeOK
  <2> QED BY <2>1, <2>2
<1>8. Tape!Start(f)
  BY <1>2, <1>3, <1>7 DEF Tape!Start, Tape!Shelved
<1> QED BY <1>8 DEF Tape!TapeNext

\* A frame captured is an Extend, whether or not the buffer is flushed.
LEMMA TapeExtends ==
  ASSUME RecordInv, RecordInv', NEW seen \in Inputs, NEW held \in Inputs,
         RunFrame(seen, held), state = "RECORD"
  PROVE  Tape!TapeNext
<1>1. /\ TypeOK /\ file \in Files /\ NoFile \notin Files /\ disk[file] \in Movies
      /\ disk \in [Files -> Movies]
      /\ frame_count \in Nat /\ buffer \in Seq(Inputs)
  BY RecordTypes, MovieAssumption DEF RecordInv, MovieAssumption
<1>2. /\ Capture(held) /\ machine' = Append(machine, seen)
  BY DEF RunFrame, MovieUpdate, Inject, Ignore
<1>3. PICK new \in Movies : /\ disk' = [disk EXCEPT ![file] = new]
                            /\ new.init = disk[file].init
  <2>1. PICK used \in Seq(Inputs) : used = Append(buffer, held)
    BY <1>1, AppendProperties
  <2>2. Flush(disk[file], frame_count + 1, used) \in Movies
    BY <1>1, FlushType
  <2>3. Flush(disk[file], frame_count + 1, used).init = disk[file].init
    BY <1>1 DEF Flush, Movies
  <2>4. \/ disk' = [disk EXCEPT ![file] = Flush(disk[file], frame_count + 1, used)]
        \/ disk' = [disk EXCEPT ![file] = disk[file]]
    BY <1>1, <1>2, <2>1 DEF Capture
  <2> QED BY <1>1, <2>2, <2>3, <2>4
<1>4. state' = "RECORD" /\ file' = file
  BY <1>2 DEF Capture
<1>5. Shelf' = Shelf /\ Recorded' = Append(Recorded, seen)
  BY <1>2, <1>3, <1>4, TapeMoves
<1>6. Tape!Extend(seen)
  BY <1>1, <1>4, <1>5 DEF Tape!Extend
<1> QED BY <1>6 DEF Tape!TapeNext

\* movie_unfreeze is a Rewind to the frame the state was saved at.
LEMMA TapeRewinds ==
  ASSUME RecorderUnexposed, RecordInv, RecordInv', NEW s \in Slots,
         NEW via \in {"slot", "control", "start"}, LoadRewinds(s, via)
  PROVE  Tape!TapeNext
<1>1. /\ TypeOK /\ state = "RECORD" /\ file \in Files /\ NoFile \notin Files
      /\ disk[file] \in Movies /\ disk \in [Files -> Movies] /\ slots[s] \in States
  BY RecordTypes, MovieAssumption DEF RecordInv, MovieAssumption, LoadRewinds
<1>2. /\ slots[s].live /\ machine' = slots[s].machine
      /\ state' = "RECORD" /\ file' = file
  BY <1>1 DEF LoadRewinds, LoadMachine, RecorderUnexposed
<1>3. PICK new : /\ disk' = [disk EXCEPT ![file] = new]
                 /\ \E inputs, count : new = [disk[file] EXCEPT !.inputs = inputs, !.count = count]
  BY DEF LoadRewinds
<1>4. disk' \in [Files -> Movies]
  BY RecordTypes DEF RecordInv, TypeInv, TypeOK
<1>5. new \in Movies /\ new.init = disk[file].init
  <2>1. disk'[file] = new
    BY <1>1, <1>3
  <2> QED BY <1>1, <1>3, <1>4, <2>1 DEF Movies
<1>6. PICK n \in Nat : n = slots[s].count
  BY <1>1 DEF States
<1>7. /\ Len(machine') = Len(disk[file].init) + n /\ Len(machine') <= Len(machine)
      /\ Agrees(machine, 0, machine')
  BY <1>2, <1>6 DEF RecordInv, LiveStatesInv, Earlier
<1>8. Shelf' = Shelf /\ n \in 0..Len(Recorded) /\ Recorded' = SubSeq(Recorded, 1, n)
  BY <1>1, <1>2, <1>3, <1>5, <1>7, TapeMoves
<1>9. Tape!Rewind(n)
  BY <1>1, <1>2, <1>8 DEF Tape!Rewind
<1> QED BY <1>8, <1>9 DEF Tape!TapeNext

LEMMA TapeStays ==
  ASSUME RecordInv, file' = file, state' = "RECORD" <=> state = "RECORD", disk' = disk,
         state = "RECORD" => buffer' = buffer
  PROVE  UNCHANGED <<file, Recorded, Shelf>>
BY DEF Recorded, Shelf

LEMMA TapeStep ==
  ASSUME RecorderUnexposed, RecordInv, [Next]_vars
  PROVE  Tape!TapeNext \/ UNCHANGED <<file, Recorded, Shelf>>
<1> DEFINE Moved == Tape!TapeNext \/ UNCHANGED <<file, Recorded, Shelf>>
<1>0. RecordInv' /\ TypeOK /\ TypeOK'
  BY RecordStep DEF RecordInv, TypeInv
<1>1. ASSUME NEW seen \in Inputs, NEW held \in Inputs, RunFrame(seen, held) PROVE Moved
  <2>1. CASE state = "RECORD"
    BY <1>0, <1>1, <2>1, TapeExtends
  <2>2. CASE state # "RECORD"
    BY <1>1, <2>2, TapeStays DEF RunFrame, MovieUpdate, Inject, Capture, Ignore, movieVars
  <2> QED BY <2>1, <2>2
<1>2. CASE FalseBoundary
  <2>1. state # "RECORD"
    BY <1>2 DEF FalseBoundary, RecordInv, SessionInv
  <2> QED BY <1>2, <2>1, TapeStays DEF FalseBoundary, MovieUpdate, Inject, Capture, Ignore, movieVars
<1>3. ASSUME NEW f \in Files, RecordStart(f) PROVE Moved
  BY <1>0, <1>3, TapeStarts
<1>4. ASSUME NEW f \in Files, PlayStart(f) PROVE Moved
  BY <1>0, <1>4, TapeStops DEF PlayStart
<1>5. CASE RecordStop
  BY <1>0, <1>5, TapeStops DEF RecordStop, StopRecording
<1>6. CASE PlayStop
  BY <1>6, TapeStays DEF PlayStop
<1>7. ASSUME NEW s \in Slots, NEW kind \in {"gst", "native"}, SaveState(s, kind) PROVE Moved
  BY <1>7, TapeStays DEF SaveState, movieVars
<1>8. ASSUME NEW s \in Slots, NEW via \in {"slot", "control", "start"}, Load(s, via) PROVE Moved
  <2>1. CASE LoadRewinds(s, via)
    BY <1>0, <2>1, TapeRewinds
  <2>2. CASE LoadStops(s, via)
    BY <1>0, <2>2, TapeStops DEF LoadStops, StopRecording
  <2>3. CASE LoadPlain(s, via)
    BY <2>3, TapeStays DEF LoadPlain, movieVars
  <2> QED BY <1>8, <2>1, <2>2, <2>3 DEF Load
<1>9. CASE StartContext
  BY <1>9, TapeStays DEF StartContext, movieVars
<1>10. CASE SoftReset
  BY <1>10, TapeStays DEF SoftReset, movieVars
<1>11. CASE ReloadMedia
  BY <1>11, TapeStays DEF ReloadMedia, movieVars
<1>12. CASE ExitAndRelaunch
  BY <1>0, <1>12, TapeStops DEF ExitAndRelaunch
<1>13. CASE UNCHANGED vars
  BY <1>13, TapeStays DEF vars, movieVars
<1>14. CASE Next
  <2>1. CASE Emulate
    BY <1>1, <1>2, <2>1 DEF Emulate
  <2>2. CASE \E f \in Files : RecordStart(f) \/ PlayStart(f)
    BY <1>3, <1>4, <2>2
  <2>3. CASE \E s \in Slots, kind \in {"gst", "native"} : SaveState(s, kind)
    BY <1>7, <2>3
  <2>4. CASE \E s \in Slots, via \in {"slot", "control", "start"} : Load(s, via)
    BY <1>8, <2>4
  <2> QED BY ONLY <1>5, <1>6, <1>9, <1>10, <1>11, <1>12, <1>14, <2>1, <2>2, <2>3, <2>4 DEF Next
<1> QED BY <1>13, <1>14

LEMMA TapeInitially == Init => Tape!TapeInit
BY DEF Init, NoMovie, Recorded, Shelf, Tape!TapeInit

\* Every step of the recorder starts, extends, rewinds or shelves a tape.
THEOREM RecorderImplementsTape ==
  ASSUME RecorderUnexposed
  PROVE  Spec => RecorderIsATape
<1>1. RecordInv /\ [Next]_vars => RecordInv'
  BY RecordStep
<1>2. RecordInv /\ [Next]_vars => [Tape!TapeNext]_(Tape!tapeVars)
  BY TapeStep DEF Tape!tapeVars
<1> QED BY <1>1, <1>2, RecordInit, TapeInitially, PTL DEF Spec, RecorderIsATape, Tape!TapeSpec
=============================================================================
