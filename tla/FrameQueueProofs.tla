-------------------------- MODULE FrameQueueProofs --------------------------
(***************************************************************************)
(* The queue of frames between the thread that draws and the one that      *)
(* shows, for any number of outputs, of slots of frame_queue, of frames    *)
(* and of machines loaded: it never fills up (NobodyWaitsForRoom), it is   *)
(* one box per output (QueueIsMailbox), and every framebuffer is in one    *)
(* place (BuffersOwned).  What has to be shown is that the ring, whose     *)
(* indices wrap around and whose middle is replaced, holds no two frames   *)
(* of an output.                                                           *)
(***************************************************************************)
EXTENDS FrameQueue, FiniteSetTheorems, TLAPS

\* The i-th frame of the queue.
At(i) == frame_queue[Place(i)]

\* No two frames of the ring are of the same output.
LineInv ==
  /\ frame_queue_write = Place(frame_queue_len)
  /\ \A i, j \in 0..(frame_queue_len - 1) : At(i).which = At(j).which => i = j
  /\ NobodyWaitsForRoom

\* What waits is the newest of its output and was not shown.
NumberInv ==
  /\ \A f \in Queued : f.n = drawn[f.which] /\ shown[f.which] < f.n
  /\ \A o \in Outputs : shown[o] <= drawn[o]

\* There is a buffer wherever one is needed.
BufferInv ==
  /\ \A f \in Queued : f.buffer \in Buffers
  /\ IF main = "showing" THEN showing.buffer \in Buffers ELSE showing.buffer = 0
  /\ \A t \in Drawers : fb[t] # 0 => locked_pixels # 0

\* A machine without sources does not run, and was told to release them.
SliceInv == copies = 0 => callback = "idle" /\ playing = FALSE /\ force_release = TRUE

QueueInv == TypeOK /\ LineInv /\ NumberInv /\ BufferInv /\ SliceInv

\* BuffersOwned, place by place, when one thread draws.
OwnInv ==
  /\ pool \cap lost = {}
  /\ showing.buffer \notin pool \cup lost
  /\ \A f \in Queued :
       /\ f.buffer \notin pool \cup lost /\ f.buffer # showing.buffer
       /\ \A g \in Queued : f.buffer = g.buffer => f = g
  /\ \A t \in Drawers : fb[t] # 0 =>
       /\ locked_pixels = fb[t]
       /\ fb[t] \notin pool \cup lost /\ fb[t] # showing.buffer
       /\ \A f \in Queued : f.buffer # fb[t]
  /\ \A b \in Buffers :
       \/ b \in pool \cup lost \/ showing.buffer = b
       \/ \E f \in Queued : f.buffer = b
       \/ \E t \in Drawers : fb[t] = b
  /\ allocated <= Cardinality(Outputs) + Cardinality(Drawers) + 1 + Cardinality(lost)
-----------------------------------------------------------------------------
(* The ring. *)

LEMMA SlotsAndOutputs ==
  /\ Slots \in Nat /\ Slots > 0 /\ Indices = 0..(Slots - 1)
  /\ IsFiniteSet(Outputs) /\ Cardinality(Outputs) \in Nat /\ Cardinality(Outputs) < Slots
BY FrameAssumption, FS_CardinalityType DEF Indices

\* Adding to an index wraps around at most once.
LEMMA Wraps ==
  ASSUME NEW r \in Indices, NEW i \in 0..Slots
  PROVE  /\ (r + i) % Slots = IF r + i < Slots THEN r + i ELSE r + i - Slots
         /\ (r + i) % Slots \in Indices
<1>1. Slots \in Nat \ {0} /\ r \in 0..(Slots - 1) /\ i \in 0..Slots
  BY SlotsAndOutputs
<1>2. CASE r + i < Slots
  <2>1. r + i \in 0..(Slots - 1)
    BY ONLY <1>1, <1>2
  <2>2. (r + i) % Slots = r + i
    BY ONLY <1>1, <2>1
  <2> QED BY <1>2, <2>1, <2>2, SlotsAndOutputs
<1>3. CASE ~(r + i < Slots)
  <2>1. r + i \in Slots..(2 * Slots - 1)
    BY ONLY <1>1, <1>3
  <2>2. (r + i) % Slots = r + i - Slots
    BY ONLY <1>1, <2>1
  <2>3. r + i - Slots \in 0..(Slots - 1)
    BY ONLY <1>1, <2>1
  <2> QED BY <1>3, <2>2, <2>3, SlotsAndOutputs
<1> QED BY <1>2, <1>3

LEMMA PlacesDiffer ==
  ASSUME NEW r \in Indices, NEW i \in 0..(Slots - 1), NEW j \in 0..(Slots - 1),
         (r + i) % Slots = (r + j) % Slots
  PROVE  i = j
<1>1. /\ (r + i) % Slots = IF r + i < Slots THEN r + i ELSE r + i - Slots
      /\ (r + j) % Slots = IF r + j < Slots THEN r + j ELSE r + j - Slots
  BY Wraps, SlotsAndOutputs
<1>2. Slots \in Nat /\ r \in 0..(Slots - 1)
  BY SlotsAndOutputs
<1>3. (IF r + i < Slots THEN r + i ELSE r + i - Slots) = (IF r + j < Slots THEN r + j ELSE r + j - Slots)
  BY ONLY <1>1, (r + i) % Slots = (r + j) % Slots
<1> QED BY ONLY <1>2, <1>3, i \in 0..(Slots - 1), j \in 0..(Slots - 1)

\* What follows the reader's next place follows the reader's.
LEMMA NextPlace ==
  ASSUME NEW r \in Indices, NEW i \in 0..(Slots - 1)
  PROVE  (((r + 1) % Slots) + i) % Slots = (r + (i + 1)) % Slots
<1>1. Slots \in Nat /\ Slots > 0 /\ r \in 0..(Slots - 1) /\ 1 \in 0..Slots /\ i \in 0..Slots
      /\ i + 1 \in 0..Slots /\ Indices = 0..(Slots - 1)
  BY SlotsAndOutputs
<1>2. PICK n \in Indices : n = (r + 1) % Slots
  BY <1>1, Wraps
<1>3. n = IF r + 1 < Slots THEN r + 1 ELSE r + 1 - Slots
  BY <1>1, <1>2, Wraps
<1>4. (n + i) % Slots = IF n + i < Slots THEN n + i ELSE n + i - Slots
  BY <1>1, Wraps
<1>5. (r + (i + 1)) % Slots = IF r + (i + 1) < Slots THEN r + (i + 1) ELSE r + (i + 1) - Slots
  BY <1>1, Wraps
<1>6. (IF n + i < Slots THEN n + i ELSE n + i - Slots)
        = (IF r + (i + 1) < Slots THEN r + (i + 1) ELSE r + (i + 1) - Slots)
  BY ONLY <1>1, <1>3
<1> QED BY ONLY <1>2, <1>4, <1>5, <1>6

\* The place after the i-th one.
LEMMA PlaceAfter ==
  ASSUME NEW r \in Indices, NEW i \in 0..(Slots - 1)
  PROVE  (((r + i) % Slots) + 1) % Slots = (r + (i + 1)) % Slots
<1>1. Slots \in Nat /\ Slots > 0 /\ r \in 0..(Slots - 1) /\ 1 \in 0..Slots /\ i \in 0..Slots
      /\ i + 1 \in 0..Slots /\ Indices = 0..(Slots - 1)
  BY SlotsAndOutputs
<1>2. PICK n \in Indices : n = (r + i) % Slots
  BY <1>1, Wraps
<1>3. n = IF r + i < Slots THEN r + i ELSE r + i - Slots
  BY <1>1, <1>2, Wraps
<1>4. (n + 1) % Slots = IF n + 1 < Slots THEN n + 1 ELSE n + 1 - Slots
  BY <1>1, Wraps
<1>5. (r + (i + 1)) % Slots = IF r + (i + 1) < Slots THEN r + (i + 1) ELSE r + (i + 1) - Slots
  BY <1>1, Wraps
<1>6. (IF n + 1 < Slots THEN n + 1 ELSE n + 1 - Slots)
        = (IF r + (i + 1) < Slots THEN r + (i + 1) ELSE r + (i + 1) - Slots)
  BY ONLY <1>1, <1>3, i \in 0..(Slots - 1)
<1> QED BY ONLY <1>2, <1>4, <1>5, <1>6

\* The place before the i-th one.
LEMMA PlaceBefore ==
  ASSUME NEW r \in Indices, NEW i \in 1..Slots
  PROVE  (((r + i) % Slots) - 1) % Slots = (r + (i - 1)) % Slots
<1>1. Slots \in Nat \ {0} /\ r \in 0..(Slots - 1) /\ i \in 0..Slots /\ i - 1 \in 0..Slots
      /\ Indices = 0..(Slots - 1)
  BY SlotsAndOutputs
<1>2. PICK n \in Indices : n = (r + i) % Slots
  BY <1>1, Wraps
<1>3. n = IF r + i < Slots THEN r + i ELSE r + i - Slots
  BY <1>1, <1>2, Wraps
<1>4. (r + (i - 1)) % Slots = IF r + (i - 1) < Slots THEN r + (i - 1) ELSE r + (i - 1) - Slots
  BY <1>1, Wraps
<1>5. CASE n = 0
  <2>1. (n - 1) % Slots = Slots - 1
    BY ONLY <1>1, <1>5
  <2>2. Slots - 1 = IF r + (i - 1) < Slots THEN r + (i - 1) ELSE r + (i - 1) - Slots
    BY ONLY <1>1, <1>3, <1>5, i \in 1..Slots
  <2> QED BY ONLY <1>2, <1>4, <2>1, <2>2
<1>6. CASE n # 0
  <2>1. n - 1 \in 0..(Slots - 1)
    BY ONLY <1>1, <1>2, <1>6
  <2>2. (n - 1) % Slots = n - 1
    BY ONLY <1>1, <2>1
  <2>3. n - 1 = IF r + (i - 1) < Slots THEN r + (i - 1) ELSE r + (i - 1) - Slots
    BY ONLY <1>1, <1>2, <1>3, <1>6, i \in 1..Slots
  <2> QED BY ONLY <1>2, <1>4, <2>2, <2>3
<1> QED BY ONLY <1>5, <1>6

\* As many frames as there are outputs at most, if no two are of the same.
LEMMA OneEach ==
  ASSUME NEW n \in Nat, NEW output \in [0..(n - 1) -> Outputs],
         \A i, j \in 0..(n - 1) : output[i] = output[j] => i = j
  PROVE  n <= Cardinality(Outputs)
<1>1. output \in Injection(0..(n - 1), Outputs)
  BY DEF Injection, IsInjective
<1>2. Cardinality(0..(n - 1)) <= Cardinality(Outputs)
  BY <1>1, SlotsAndOutputs, FS_Injection
<1>3. Cardinality(0..(n - 1)) = n
  BY FS_Interval
<1> QED BY <1>2, <1>3

\* Where the frames of the queue are.
LEMMA Ring ==
  ASSUME QueueInv
  PROVE  /\ frame_queue_len \in Nat /\ frame_queue_len < Slots
         /\ frame_queue_read \in Indices /\ frame_queue_write \in Indices
         /\ \A i \in 0..frame_queue_len : i \in 0..(Slots - 1) /\ Place(i) \in Indices
         /\ \A i, j \in 0..frame_queue_len : Place(i) = Place(j) => i = j
         /\ Place(0) = frame_queue_read
         /\ frame_queue_write = Place(frame_queue_len)
         /\ frame_queue_len > 0 => (frame_queue_write - 1) % Slots = Place(frame_queue_len - 1)
         /\ \A i \in 0..(frame_queue_len - 1) : At(i) \in Frames
<1>1. /\ frame_queue_len \in Nat /\ frame_queue_read \in Indices /\ frame_queue_write \in Indices
      /\ frame_queue \in [Indices -> Frames] /\ frame_queue_len <= Cardinality(Outputs)
      /\ frame_queue_write = Place(frame_queue_len)
      /\ Slots \in Nat /\ Slots > 0 /\ Cardinality(Outputs) \in Nat /\ Cardinality(Outputs) < Slots
      /\ Indices = 0..(Slots - 1)
  BY SlotsAndOutputs DEF QueueInv, TypeOK, LineInv, NobodyWaitsForRoom
<1>2. frame_queue_len < Slots
  BY ONLY <1>1
<1>3. \A i \in 0..frame_queue_len : i \in 0..(Slots - 1) /\ i \in 0..Slots
  BY ONLY <1>1, <1>2
<1>4. \A i \in 0..frame_queue_len : Place(i) \in Indices
  BY <1>1, <1>3, Wraps DEF Place
<1>5. \A i, j \in 0..frame_queue_len : Place(i) = Place(j) => i = j
  BY <1>1, <1>3, PlacesDiffer DEF Place
<1>6. Place(0) = frame_queue_read
  <2>1. frame_queue_read + 0 = frame_queue_read /\ frame_queue_read < Slots /\ 0 \in 0..Slots
    BY ONLY <1>1
  <2> QED BY <1>1, <2>1, Wraps DEF Place
<1>7. frame_queue_len > 0 => (frame_queue_write - 1) % Slots = Place(frame_queue_len - 1)
  <2>1. frame_queue_len > 0 => frame_queue_len \in 1..Slots
    BY ONLY <1>1, <1>2
  <2> QED BY <1>1, <2>1, PlaceBefore DEF Place
<1>8. \A i \in 0..(frame_queue_len - 1) : At(i) \in Frames
  <2>1. \A i \in 0..(frame_queue_len - 1) : i \in 0..frame_queue_len
    BY ONLY <1>1
  <2> QED BY <1>1, <1>4, <2>1 DEF At
<1> QED BY <1>1, <1>2, <1>3, <1>4, <1>5, <1>6, <1>7, <1>8

\* A ring without two frames of an output is not full.
LEMMA LineAfter ==
  ASSUME frame_queue_len' \in Nat, frame_queue_write' = Place(frame_queue_len)',
         \A i \in 0..(frame_queue_len' - 1) : At(i)' \in Frames,
         \A i, j \in 0..(frame_queue_len' - 1) : At(i)'.which = At(j)'.which => i = j
  PROVE  LineInv'
<1> DEFINE output == [i \in 0..(frame_queue_len' - 1) |-> At(i)'.which]
<1>1. output \in [0..(frame_queue_len' - 1) -> Outputs]
  BY DEF Frames
<1>2. \A i, j \in 0..(frame_queue_len' - 1) : output[i] = output[j] => i = j
  OBVIOUS
<1> HIDE DEF output
<1>3. frame_queue_len' <= Cardinality(Outputs)
  BY ONLY <1>1, <1>2, frame_queue_len' \in Nat, OneEach
<1> QED BY <1>3 DEF LineInv, NobodyWaitsForRoom

\* A frame of an output that has none is queued at the end.
LEMMA AppendRing ==
  ASSUME QueueInv, NEW new \in Frames, Waiting(new.which) = {},
         frame_queue' = [frame_queue EXCEPT ![frame_queue_write] = new],
         frame_queue_write' = (frame_queue_write + 1) % Slots,
         frame_queue_len' = frame_queue_len + 1,
         UNCHANGED frame_queue_read
  PROVE  /\ LineInv'
         /\ Queued' = Queued \cup {new}
         /\ \A f \in Queued : f.which # new.which
<1>0. PICK n, r : n = frame_queue_len /\ r = frame_queue_read
  OBVIOUS
<1>1. /\ n \in Nat /\ n < Slots /\ r \in Indices /\ frame_queue_write \in Indices
      /\ \A i \in 0..n : i \in 0..(Slots - 1) /\ Place(i) \in Indices
      /\ \A i, j \in 0..n : Place(i) = Place(j) => i = j
      /\ frame_queue_write = Place(n)
      /\ \A i \in 0..(n - 1) : At(i) \in Frames
  BY <1>0, Ring
<1>2. frame_queue \in [Indices -> Frames]
  BY DEF QueueInv, TypeOK
<1>3. \A i : Place(i)' = Place(i)
  BY DEF Place
<1>4. n \in 0..n /\ \A i \in 0..(n - 1) : i \in 0..n /\ i # n
  BY ONLY <1>1
<1>5. At(n)' = new
  BY <1>1, <1>2, <1>3 DEF At
<1>6. \A i \in 0..(n - 1) : At(i)' = At(i)
  <2> TAKE i \in 0..(n - 1)
  <2>1. Place(i) # frame_queue_write
    BY <1>1, <1>4
  <2> QED BY <1>1, <1>2, <1>3, <1>4, <2>1 DEF At
<1>7. frame_queue_len' = n + 1 /\ 0..(frame_queue_len' - 1) = 0..n
      /\ \A i \in 0..n : i \in 0..(n - 1) \/ i = n
  BY <1>0, <1>1
<1>8. \A i \in 0..(n - 1) : At(i).which # new.which
  BY <1>0 DEF Waiting, At
<1>9. \A i \in 0..n : At(i)' \in Frames
  BY ONLY <1>1, <1>5, <1>6, <1>7, new \in Frames
<1>10. \A i, j \in 0..(n - 1) : At(i).which = At(j).which => i = j
  BY <1>0 DEF QueueInv, LineInv
<1>11. \A i, j \in 0..n : At(i)'.which = At(j)'.which => i = j
  BY ONLY <1>5, <1>6, <1>7, <1>8, <1>10
<1>12. frame_queue_write' = Place(frame_queue_len)'
  <2>1. n \in 0..(Slots - 1)
    BY <1>1, <1>4
  <2>2. (Place(n) + 1) % Slots = (r + (n + 1)) % Slots
    BY <1>0, <1>1, <2>1, PlaceAfter DEF Place
  <2>3. Place(frame_queue_len)' = (r + (n + 1)) % Slots
    BY <1>0 DEF Place
  <2> QED BY <1>1, <2>2, <2>3
<1>13. LineInv'
  <2>1. n + 1 \in Nat
    BY ONLY <1>1
  <2>2. frame_queue_len' = n + 1
    BY <1>7
  <2>3. frame_queue_len' \in Nat
    BY ONLY <2>1, <2>2
  <2>4. /\ \A k \in 0..(frame_queue_len' - 1) : At(k)' \in Frames
        /\ \A k, m \in 0..(frame_queue_len' - 1) : At(k)'.which = At(m)'.which => k = m
    BY ONLY <1>7, <1>9, <1>11, Zenon
  <2> QED BY ONLY <1>12, <2>3, <2>4, LineAfter
<1>14. Queued = {At(i) : i \in 0..(n - 1)} /\ Queued' = {At(i)' : i \in 0..n}
  <2>1. 0..(frame_queue_len' - 1) = 0..n /\ frame_queue_len = n
    BY <1>0, <1>7
  <2>2. Queued = {At(i) : i \in 0..(n - 1)}
    BY ONLY <2>1 DEF Queued, At
  <2>3. Queued' = {At(i)' : i \in 0..n}
    BY ONLY <2>1, Zenon DEF Queued, At
  <2> QED BY <2>2, <2>3
<1>15. Queued' = Queued \cup {new}
  <2>1. n \in 0..n /\ \A i \in 0..(n - 1) : i \in 0..n
    BY ONLY <1>1
  <2> QED BY ONLY <1>5, <1>6, <1>7, <1>14, <2>1
<1> QED BY <1>8, <1>13, <1>14, <1>15

\* A frame takes the place of an older one of its output: the last one moves
\* into the gap, the new one is the last.
LEMMA ReplaceRing ==
  ASSUME QueueInv, NEW new \in Frames, NEW cur \in Waiting(new.which),
         frame_queue' = [Closed(cur) EXCEPT ![(frame_queue_write - 1) % Slots] = new],
         UNCHANGED <<frame_queue_read, frame_queue_write, frame_queue_len>>
  PROVE  /\ LineInv'
         /\ frame_queue[cur] \in Queued /\ frame_queue[cur].which = new.which
         /\ Queued' = (Queued \ {frame_queue[cur]}) \cup {new}
<1> DEFINE n == frame_queue_len
<1>1. PICK c \in 0..(n - 1) : cur = Place(c) /\ At(c).which = new.which
  BY DEF Waiting, At
<1>2. /\ n \in Nat /\ n < Slots
      /\ \A i \in 0..n : i \in 0..(Slots - 1) /\ Place(i) \in Indices
      /\ \A i, j \in 0..n : Place(i) = Place(j) => i = j
      /\ \A i \in 0..(n - 1) : At(i) \in Frames
      /\ n > 0 => (frame_queue_write - 1) % Slots = Place(n - 1)
      /\ frame_queue_write = Place(n)
  BY Ring
<1>3. frame_queue \in [Indices -> Frames]
  BY DEF QueueInv, TypeOK
<1>4. \A i : Place(i)' = Place(i)
  BY DEF Place
<1>5. \A i, j \in 0..(n - 1) : At(i).which = At(j).which => i = j
  BY DEF QueueInv, LineInv
<1>6. Queued = {At(i) : i \in 0..(n - 1)} /\ Queued' = {At(i)' : i \in 0..(n - 1)}
  BY DEF Queued, At
<1> HIDE DEF n
<1>7. PICK z \in 0..(n - 1) : z = n - 1
  BY ONLY <1>1, <1>2
<1>8. /\ \A i \in 0..(n - 1) : i \in 0..n
      /\ n > 0
  BY ONLY <1>1, <1>2
<1>9. /\ \A i \in 0..(n - 1) : Place(i) \in Indices
      /\ \A i, j \in 0..(n - 1) : Place(i) = Place(j) => i = j
      /\ (frame_queue_write - 1) % Slots = Place(z)
  BY ONLY <1>2, <1>7, <1>8
<1>10. frame_queue' = [[frame_queue EXCEPT ![Place(c)] = At(z)] EXCEPT ![Place(z)] = new]
  BY <1>1, <1>9 DEF Closed, At
<1>11. /\ At(z)' = new
       /\ \A i \in 0..(n - 1) : i # z => At(i)' = IF i = c THEN At(z) ELSE At(i)
  BY ONLY <1>3, <1>4, <1>9, <1>10 DEF At
<1>12. LineInv'
  <2>1. n \in Nat /\ frame_queue_len' = n
    BY <1>2 DEF n
  <2>2. frame_queue_write' = Place(frame_queue_len)'
    BY <1>2, <1>4, <2>1
  <2>3. \A i \in 0..(n - 1) : At(i)' \in Frames
    BY ONLY <1>2, <1>11, new \in Frames, z \in 0..(n - 1)
  <2>4. \A i, j \in 0..(n - 1) : At(i)'.which = At(j)'.which => i = j
    BY ONLY <1>1, <1>5, <1>11, z \in 0..(n - 1), c \in 0..(n - 1)
  <2> QED BY <2>1, <2>2, <2>3, <2>4, LineAfter
<1>13. frame_queue[cur] = At(c)
  BY <1>1 DEF At
<1>14. \A f : f \in Queued' <=> f \in (Queued \ {At(c)}) \cup {new}
  <2>1. ASSUME NEW i \in 0..(n - 1)
        PROVE  At(i)' \in (Queued \ {At(c)}) \cup {new}
    BY ONLY <1>5, <1>6, <1>11, z \in 0..(n - 1), c \in 0..(n - 1)
  <2>2. ASSUME NEW i \in 0..(n - 1), At(i) # At(c)
        PROVE  At(i) \in Queued'
    <3>1. i # c
      BY ONLY <2>2
    <3>2. CASE i # z
      BY ONLY <1>6, <1>11, <3>1, <3>2
    <3>3. CASE i = z
      <4>1. c # z
        BY ONLY <3>1, <3>3
      <4>2. At(c)' = At(z)
        BY ONLY <1>11, <4>1, c \in 0..(n - 1)
      <4> QED BY ONLY <1>6, <3>3, <4>2, c \in 0..(n - 1)
    <3> QED BY ONLY <3>2, <3>3
  <2>3. new \in Queued'
    BY ONLY <1>6, <1>11, z \in 0..(n - 1)
  <2> QED BY ONLY <1>6, <2>1, <2>2, <2>3
<1> QED BY <1>1, <1>6, <1>12, <1>13, <1>14

\* The first frame is taken; the place it had is not read again.
LEMMA TakeRing ==
  ASSUME QueueInv, frame_queue_len > 0,
         frame_queue' = [frame_queue EXCEPT ![frame_queue_read] = NoFrame],
         frame_queue_read' = (frame_queue_read + 1) % Slots,
         frame_queue_len' = frame_queue_len - 1,
         UNCHANGED frame_queue_write
  PROVE  /\ LineInv'
         /\ frame_queue[frame_queue_read] \in Queued
         /\ Queued' = Queued \ {frame_queue[frame_queue_read]}
<1> DEFINE n == frame_queue_len
           r == frame_queue_read
<1>1. /\ n \in Nat /\ n < Slots /\ n > 0 /\ r \in Indices
      /\ \A i \in 0..n : i \in 0..(Slots - 1) /\ Place(i) \in Indices
      /\ \A i, j \in 0..n : Place(i) = Place(j) => i = j
      /\ Place(0) = r
      /\ frame_queue_write = Place(n)
      /\ \A i \in 0..(n - 1) : At(i) \in Frames
  BY Ring
<1>2. frame_queue \in [Indices -> Frames]
  BY DEF QueueInv, TypeOK
<1>3. \A i \in 0..(Slots - 1) : \A k : k = i + 1 => Place(i)' = Place(k)
  BY <1>1, NextPlace DEF Place
<1>4. \A i, j \in 0..(n - 1) : At(i).which = At(j).which => i = j
  BY DEF QueueInv, LineInv
<1>5. frame_queue_len' = n - 1 /\ frame_queue' = [frame_queue EXCEPT ![r] = NoFrame]
  OBVIOUS
<1>6. Queued = {At(i) : i \in 0..(n - 1)} /\ Queued' = {At(i)' : i \in 0..(n - 1 - 1)}
  BY <1>5 DEF Queued, At
<1> HIDE DEF n, r
<1>7. ASSUME NEW i \in 0..(n - 1 - 1), NEW k, k = i + 1
      PROVE  At(i)' = At(k) /\ k \in 0..(n - 1)
  <2>1. i \in 0..n /\ k \in 0..n /\ 0 \in 0..n /\ k # 0 /\ k \in 0..(n - 1)
    BY ONLY <1>1, <1>7
  <2>2. Place(i)' = Place(k) /\ Place(k) \in Indices
    BY <1>1, <1>3, <1>7, <2>1
  <2>3. Place(k) # r
    BY <1>1, <2>1
  <2> QED BY <1>2, <1>5, <2>1, <2>2, <2>3 DEF At
<1>8. \A i \in 0..(n - 1 - 1) : i + 1 \in 0..(n - 1)
  BY ONLY <1>1
<1>9. \A i \in 0..(n - 1 - 1) : At(i)' = At(i + 1)
  BY <1>7
<1>10. \A i, j \in 0..(n - 1 - 1) : At(i)'.which = At(j)'.which => i = j
  <2> TAKE i, j \in 0..(n - 1 - 1)
  <2>1. PICK k, m : k = i + 1 /\ m = j + 1
    OBVIOUS
  <2>2. At(i)' = At(k) /\ At(j)' = At(m) /\ k \in 0..(n - 1) /\ m \in 0..(n - 1)
    BY <1>7, <2>1
  <2>3. At(k).which = At(m).which => k = m
    BY <1>4, <2>2
  <2>4. k = m => i = j
    BY ONLY <1>1, <2>1, i \in 0..(n - 1 - 1), j \in 0..(n - 1 - 1)
  <2> QED BY ONLY <2>2, <2>3, <2>4
<1>11. LineInv'
  <2>1. n - 1 \in Nat
    BY ONLY <1>1
  <2>2. frame_queue_write' = Place(frame_queue_len)'
    <3>1. n - 1 \in 0..n /\ n = (n - 1) + 1
      BY ONLY <1>1
    <3>2. PICK m : m = n - 1
      OBVIOUS
    <3>3. Place(m)' = Place(n)
      BY <1>1, <1>3, <3>1, <3>2
    <3>4. Place(frame_queue_len)' = Place(m)'
      BY <1>5, <3>2 DEF Place
    <3> QED BY <1>1, <3>3, <3>4
  <2>3. \A i \in 0..(n - 1 - 1) : At(i)' \in Frames
    BY ONLY <1>1, <1>8, <1>9
  <2> QED BY <1>5, <1>10, <2>1, <2>2, <2>3, LineAfter
<1>12. frame_queue[r] = At(0) /\ 0 \in 0..(n - 1)
  BY <1>1 DEF At
<1>13. ASSUME NEW k \in 0..(n - 1)
       PROVE  k = 0 \/ (\E i \in 0..(n - 1 - 1) : k = i + 1)
  BY ONLY <1>1, k \in 0..(n - 1)
<1>14. Queued' = Queued \ {At(0)}
  <2>1. ASSUME NEW i \in 0..(n - 1 - 1)
        PROVE  At(i)' \in Queued \ {At(0)}
    <3>1. PICK k : k = i + 1
      OBVIOUS
    <3>2. At(i)' = At(k) /\ k \in 0..(n - 1) /\ k # 0
      BY <1>1, <1>7, <3>1
    <3>3. At(k) # At(0)
      BY ONLY <1>4, <1>12, <3>2
    <3> QED BY ONLY <1>6, <3>2, <3>3
  <2>2. ASSUME NEW k \in 0..(n - 1), At(k) # At(0)
        PROVE  At(k) \in Queued'
    <3>1. k # 0
      BY ONLY <2>2
    <3>2. PICK i \in 0..(n - 1 - 1) : k = i + 1
      BY ONLY <1>13, <3>1, k \in 0..(n - 1)
    <3>3. At(i)' = At(k)
      BY <1>7, <3>2
    <3> QED BY ONLY <1>6, <3>3, i \in 0..(n - 1 - 1)
  <2> QED BY ONLY <1>6, <2>1, <2>2
<1> QED BY <1>6, <1>11, <1>12, <1>14 DEF r
-----------------------------------------------------------------------------
(* The steps. *)

LEMMA QueueInit == Init => QueueInv
<1> SUFFICES ASSUME Init PROVE QueueInv
  OBVIOUS
<1>1. /\ Slots \in Nat /\ Slots > 0 /\ Indices = 0..(Slots - 1) /\ Cardinality(Outputs) \in Nat
  BY SlotsAndOutputs
<1>2. NoFrame \in Frames /\ NoFrame.which \in Outputs /\ NoFrame.buffer = 0
  <2>1. (CHOOSE o \in Outputs : TRUE) \in Outputs
    BY FrameAssumption
  <2> QED BY <2>1 DEF NoFrame, Frames
<1>3. 0..(frame_queue_len - 1) = {} /\ frame_queue_len = 0
  BY DEF Init
<1>4. Queued = {}
  BY <1>3 DEF Queued
<1>5. LineInv
  <2>1. frame_queue_read \in Indices /\ frame_queue_write = frame_queue_read
    BY DEF Init
  <2>2. Place(0) = frame_queue_read
    <3>1. frame_queue_read + 0 = frame_queue_read /\ frame_queue_read < Slots /\ 0 \in 0..Slots
      BY ONLY <1>1, <2>1
    <3> QED BY <2>1, <3>1, Wraps DEF Place
  <2>3. 0 <= Cardinality(Outputs)
    BY <1>1
  <2> QED BY <1>3, <2>1, <2>2, <2>3 DEF LineInv, NobodyWaitsForRoom
<1>6. TypeOK
  <2>1. /\ allocated \in Nat /\ pool \subseteq Buffers /\ lost \subseteq Buffers
        /\ locked_pixels \in Buffers \cup {0}
    BY DEF Init, Buffers
  <2>2. fb \in [Drawers -> Buffers \cup {0}] /\ cur_buffer \in [Drawers -> Outputs]
    BY <1>2 DEF Init
  <2>3. /\ frame_queue \in [Indices -> Frames] /\ frame_queue_len \in 0..Slots
        /\ frame_queue_read \in Indices /\ frame_queue_write \in Indices /\ showing \in Frames
    BY <1>1, <1>2 DEF Init
  <2>4. /\ main \in {"top", "deciding", "waiting", "showing", "out"}
        /\ callback \in {"idle", "running", "ending"}
        /\ playing \in BOOLEAN /\ audio_active \in BOOLEAN
        /\ force_release \in BOOLEAN /\ should_return \in BOOLEAN
    BY DEF Init
  <2>5. copies \in 0..MaxCopies /\ reloads \in 0..MaxReloads
    BY FrameAssumption DEF Init
  <2>6. drawn \in [Outputs -> Nat] /\ shown \in [Outputs -> Nat]
    BY DEF Init
  <2> QED BY ONLY <2>1, <2>2, <2>3, <2>4, <2>5, <2>6 DEF TypeOK
<1>7. NumberInv
  BY <1>4 DEF Init, NumberInv
<1>8. BufferInv
  BY <1>2, <1>4 DEF Init, BufferInv
<1>9. SliceInv
  BY DEF Init, SliceInv
<1> QED BY <1>5, <1>6, <1>7, <1>8, <1>9 DEF QueueInv

\* Frames of the queue are frames, one of each output.
LEMMA QueuedFrames ==
  ASSUME QueueInv
  PROVE  /\ \A f \in Queued : f \in Frames
         /\ \A f, g \in Queued : f.which = g.which => f = g
<1>1. Queued = {At(i) : i \in 0..(frame_queue_len - 1)}
  BY DEF Queued, At
<1>2. \A i \in 0..(frame_queue_len - 1) : At(i) \in Frames
  BY Ring
<1>3. \A i, j \in 0..(frame_queue_len - 1) : At(i).which = At(j).which => i = j
  BY DEF QueueInv, LineInv
<1> QED BY ONLY <1>1, <1>2, <1>3

\* The frames a new one of this output takes the place of.
Older(o) == {f \in Queued : f.which = o}

NewFrame(t) == [buffer |-> locked_pixels, which |-> cur_buffer[t], n |-> drawn[cur_buffer[t]] + 1]

\* What render_framebuffer_updated does to the queue, in either case.
LEMMA Updated ==
  ASSUME QueueInv, NEW t \in Drawers, FramebufferUpdated(t)
  PROVE  /\ NewFrame(t) \in Frames /\ LineInv'
         /\ Queued' = (Queued \ Older(cur_buffer[t])) \cup {NewFrame(t)}
         /\ pool' = pool \cup {f.buffer : f \in Older(cur_buffer[t])}
         /\ frame_queue' \in [Indices -> Frames]
         /\ frame_queue_write' \in Indices /\ frame_queue_len' \in 0..Slots
<1> DEFINE o == cur_buffer[t]
           new == NewFrame(t)
<1>1. o \in Outputs /\ new \in Frames /\ new.which = o
  BY DEF QueueInv, TypeOK, NewFrame, Frames, Buffers
<1>2. /\ frame_queue_len \in Nat /\ frame_queue_len < Slots /\ frame_queue_write \in Indices
      /\ frame_queue_len > 0 => (frame_queue_write - 1) % Slots = Place(frame_queue_len - 1)
      /\ \A i \in 0..frame_queue_len : Place(i) \in Indices
      /\ Slots \in Nat /\ Indices = 0..(Slots - 1)
  BY Ring, SlotsAndOutputs
<1>3. frame_queue \in [Indices -> Frames]
  BY DEF QueueInv, TypeOK
<1>4. \/ /\ Waiting(o) = {}
         /\ frame_queue' = [frame_queue EXCEPT ![frame_queue_write] = new]
         /\ frame_queue_write' = (frame_queue_write + 1) % Slots
         /\ frame_queue_len' = frame_queue_len + 1
         /\ pool' = pool
      \/ \E cur \in Waiting(o) :
           /\ frame_queue' = [Closed(cur) EXCEPT ![(frame_queue_write - 1) % Slots] = new]
           /\ pool' = pool \cup {frame_queue[cur].buffer}
           /\ UNCHANGED <<frame_queue_write, frame_queue_len>>
  BY DEF FramebufferUpdated, NewFrame
<1>5. UNCHANGED frame_queue_read
  BY DEF FramebufferUpdated
<1> HIDE DEF o, new
<1>6. CASE /\ Waiting(o) = {}
           /\ frame_queue' = [frame_queue EXCEPT ![frame_queue_write] = new]
           /\ frame_queue_write' = (frame_queue_write + 1) % Slots
           /\ frame_queue_len' = frame_queue_len + 1
           /\ pool' = pool
  <2>1. LineInv' /\ Queued' = Queued \cup {new} /\ \A f \in Queued : f.which # o
    BY <1>1, <1>5, <1>6, AppendRing
  <2>2. Older(o) = {}
    BY <2>1 DEF Older
  <2>3. frame_queue' \in [Indices -> Frames]
    BY <1>1, <1>3, <1>6
  <2>4. frame_queue_write' \in Indices
    <3>1. 1 \in 0..Slots
      BY ONLY <1>2
    <3> QED BY <1>2, <1>6, <3>1, Wraps
  <2>5. frame_queue_len' \in 0..Slots
    BY ONLY <1>2, <1>6
  <2> QED BY <1>1, <1>6, <2>1, <2>2, <2>3, <2>4, <2>5 DEF o, new
<1>7. ASSUME NEW cur \in Waiting(o),
             frame_queue' = [Closed(cur) EXCEPT ![(frame_queue_write - 1) % Slots] = new],
             pool' = pool \cup {frame_queue[cur].buffer},
             UNCHANGED <<frame_queue_write, frame_queue_len>>
      PROVE  /\ LineInv'
             /\ Queued' = (Queued \ Older(o)) \cup {new}
             /\ pool' = pool \cup {f.buffer : f \in Older(o)}
             /\ frame_queue' \in [Indices -> Frames]
             /\ frame_queue_write' \in Indices /\ frame_queue_len' \in 0..Slots
  <2>1. /\ LineInv'
        /\ frame_queue[cur] \in Queued /\ frame_queue[cur].which = o
        /\ Queued' = (Queued \ {frame_queue[cur]}) \cup {new}
    BY <1>1, <1>5, <1>7, ReplaceRing
  <2>2. Older(o) = {frame_queue[cur]}
    BY <2>1, QueuedFrames DEF Older
  <2>3. frame_queue' \in [Indices -> Frames]
    <3>1. Slots \in Nat \ {0} /\ frame_queue_write - 1 \in Int
      BY <1>2, SlotsAndOutputs
    <3>2. (frame_queue_write - 1) % Slots \in Indices
      BY ONLY <1>2, <3>1
    <3>3. Closed(cur) \in [Indices -> Frames]
      BY <1>3, <3>2 DEF Closed
    <3> QED BY <1>1, <1>7, <3>3
  <2>4. frame_queue_write' \in Indices /\ frame_queue_len' \in 0..Slots
    BY ONLY <1>2, <1>7
  <2> QED BY <1>7, <2>1, <2>2, <2>3, <2>4
<1>8. /\ LineInv'
      /\ Queued' = (Queued \ Older(o)) \cup {new}
      /\ pool' = pool \cup {f.buffer : f \in Older(o)}
      /\ frame_queue' \in [Indices -> Frames]
      /\ frame_queue_write' \in Indices /\ frame_queue_len' \in 0..Slots
  BY <1>4, <1>6, <1>7 DEF o, new
<1> QED BY <1>1, <1>8 DEF o, new

\* What changes neither buffers nor frames.
LEMMA Elsewhere ==
  ASSUME QueueInv,
         UNCHANGED <<pool, allocated, fb, cur_buffer, locked_pixels, lost, frame_queue,
                     frame_queue_len, frame_queue_read, frame_queue_write, showing, drawn, shown>>,
         main' \in {"top", "deciding", "waiting", "showing", "out"},
         (main' = "showing") = (main = "showing"),
         callback' \in {"idle", "running", "ending"},
         playing' \in BOOLEAN, audio_active' \in BOOLEAN, force_release' \in BOOLEAN,
         should_return' \in BOOLEAN, copies' \in 0..MaxCopies, reloads' \in 0..MaxReloads,
         SliceInv'
  PROVE  QueueInv'
<1>1. Queued' = Queued /\ (\A i : Place(i)' = Place(i)) /\ \A i : At(i)' = At(i)
  BY DEF Queued, At, Place
<1>2. TypeOK'
  BY DEF QueueInv, TypeOK, Buffers
<1>3. LineInv'
  BY <1>1 DEF QueueInv, LineInv, NobodyWaitsForRoom
<1>4. NumberInv'
  BY <1>1 DEF QueueInv, NumberInv
<1>5. BufferInv'
  BY <1>1 DEF QueueInv, BufferInv, Buffers
<1> QED BY <1>2, <1>3, <1>4, <1>5 DEF QueueInv

LEMMA GetStep ==
  ASSUME QueueInv, NEW t \in Drawers, GetFramebuffer(t)
  PROVE  QueueInv'
<1>1. PICK b \in IF pool = {} THEN {allocated + 1} ELSE pool :
        /\ allocated' = IF pool = {} THEN allocated + 1 ELSE allocated
        /\ pool' = pool \ {b}
        /\ fb' = [fb EXCEPT ![t] = b]
        /\ locked_pixels' = b
  BY DEF GetFramebuffer
<1>2. UNCHANGED <<frame_queue, frame_queue_len, frame_queue_read, frame_queue_write, main, showing,
                  callback, playing, audio_active, copies, force_release, should_return,
                  reloads, drawn, shown, cur_buffer, lost>>
  BY DEF GetFramebuffer, queueVars, sliceVars
<1>3. allocated \in Nat /\ allocated' \in Nat /\ allocated <= allocated' /\ b \in 1..allocated'
  <2>1. allocated \in Nat /\ pool \subseteq 1..allocated
    BY DEF QueueInv, TypeOK, Buffers
  <2>2. CASE pool = {}
    BY ONLY <1>1, <2>1, <2>2
  <2>3. CASE pool # {}
    BY ONLY <1>1, <2>1, <2>3
  <2> QED BY <2>2, <2>3
<1>4. Buffers \subseteq Buffers' /\ b \in Buffers' /\ b # 0
  BY ONLY <1>3 DEF Buffers
<1>5. Queued' = Queued /\ (\A i : Place(i)' = Place(i)) /\ \A i : At(i)' = At(i)
  BY <1>2 DEF Queued, At, Place
<1>6. TypeOK'
  <2>1. /\ pool' \subseteq Buffers' /\ lost' \subseteq Buffers' /\ locked_pixels' \in Buffers' \cup {0}
        /\ fb' \in [Drawers -> Buffers' \cup {0}]
    BY <1>1, <1>2, <1>4 DEF QueueInv, TypeOK
  <2> QED BY <1>2, <1>3, <2>1 DEF QueueInv, TypeOK
<1>7. LineInv'
  BY <1>2, <1>5 DEF QueueInv, LineInv, NobodyWaitsForRoom
<1>8. NumberInv' /\ SliceInv'
  BY <1>2, <1>5 DEF QueueInv, NumberInv, SliceInv
<1>9. BufferInv'
  BY <1>1, <1>2, <1>4, <1>5 DEF QueueInv, BufferInv
<1> QED BY <1>6, <1>7, <1>8, <1>9 DEF QueueInv

LEMMA UpdatedStep ==
  ASSUME QueueInv, NEW t \in Drawers, FramebufferUpdated(t)
  PROVE  QueueInv'
<1> DEFINE o == cur_buffer[t]
           new == NewFrame(t)
<1>1. /\ new \in Frames /\ LineInv'
      /\ Queued' = (Queued \ Older(o)) \cup {new}
      /\ pool' = pool \cup {f.buffer : f \in Older(o)}
      /\ frame_queue' \in [Indices -> Frames]
      /\ frame_queue_write' \in Indices /\ frame_queue_len' \in 0..Slots
  BY Updated
<1>2. /\ fb[t] # 0
      /\ fb' = [fb EXCEPT ![t] = 0]
      /\ \E next \in Outputs : cur_buffer' = [cur_buffer EXCEPT ![t] = next]
      /\ drawn' = [drawn EXCEPT ![o] = @ + 1]
      /\ main' = Signalled
      /\ UNCHANGED <<frame_queue_read, showing, callback, playing, audio_active, copies,
                     force_release, should_return, reloads, shown, allocated, locked_pixels, lost>>
  BY DEF FramebufferUpdated, sliceVars
<1>3. /\ new.which = o /\ new.n = drawn[o] + 1 /\ new.buffer = locked_pixels
      /\ o \in Outputs /\ drawn \in [Outputs -> Nat] /\ shown \in [Outputs -> Nat]
      /\ \A f \in Older(o) : f \in Queued
      /\ \A f \in Queued \ Older(o) : f.which # o /\ f.which \in Outputs
  BY QueuedFrames DEF NewFrame, Older, QueueInv, TypeOK, Frames
<1>4. locked_pixels \in Buffers /\ \A f \in Queued : f.buffer \in Buffers
  BY <1>2 DEF QueueInv, BufferInv, TypeOK
<1>5. Buffers' = Buffers
  BY <1>2 DEF Buffers
<1> HIDE DEF o, new
<1>6. main' \in {"top", "deciding", "waiting", "showing", "out"} /\ (main' = "showing") = (main = "showing")
  BY <1>2 DEF Signalled, QueueInv, TypeOK
<1>7. drawn' \in [Outputs -> Nat] /\ drawn'[o] = drawn[o] + 1 /\ \A p \in Outputs : p # o => drawn'[p] = drawn[p]
  BY <1>2, <1>3
<1>8. TypeOK'
  <2>1. pool' \subseteq Buffers
    BY <1>1, <1>3, <1>4 DEF QueueInv, TypeOK
  <2>2. fb' \in [Drawers -> Buffers \cup {0}] /\ cur_buffer' \in [Drawers -> Outputs]
    BY <1>2 DEF QueueInv, TypeOK
  <2> QED BY <1>1, <1>2, <1>5, <1>6, <1>7, <2>1, <2>2 DEF QueueInv, TypeOK
<1>9. NumberInv'
  <2>1. /\ \A f \in Queued : f.n = drawn[f.which] /\ shown[f.which] < f.n
        /\ \A p \in Outputs : shown[p] <= drawn[p]
    BY DEF QueueInv, NumberInv
  <2>2. shown[o] < drawn[o] + 1
    BY <1>3, <2>1
  <2>3. \A f \in Queued' : f.n = drawn'[f.which] /\ shown[f.which] < f.n
    BY ONLY <1>1, <1>3, <1>7, <2>1, <2>2
  <2>4. \A p \in Outputs : shown[p] <= drawn'[p]
    <3> TAKE p \in Outputs
    <3>1. shown[p] \in Nat /\ drawn[p] \in Nat /\ shown[p] <= drawn[p]
      BY <1>3, <2>1
    <3>2. drawn'[p] = drawn[p] \/ drawn'[p] = drawn[p] + 1
      BY ONLY <1>7, p \in Outputs
    <3> QED BY ONLY <3>1, <3>2
  <2> QED BY <1>2, <2>3, <2>4 DEF NumberInv
<1>10. BufferInv'
  <2>1. \A f \in Queued' : f.buffer \in Buffers
    BY <1>1, <1>3, <1>4
  <2>2. IF main' = "showing" THEN showing'.buffer \in Buffers ELSE showing'.buffer = 0
    BY <1>2, <1>6 DEF QueueInv, BufferInv
  <2>3. \A u \in Drawers : fb'[u] # 0 => locked_pixels' # 0
    BY <1>2 DEF QueueInv, BufferInv
  <2> QED BY <1>5, <2>1, <2>2, <2>3 DEF BufferInv
<1>11. SliceInv'
  BY <1>2 DEF QueueInv, SliceInv
<1> QED BY <1>1, <1>8, <1>9, <1>10, <1>11 DEF QueueInv

LEMMA TakeStep ==
  ASSUME QueueInv, TakeFrame
  PROVE  /\ QueueInv'
         /\ showing' \in Queued /\ Queued' = Queued \ {showing'}
<1> DEFINE f == frame_queue[frame_queue_read]
<1>1. /\ main = "top" /\ frame_queue_len > 0
      /\ showing' = f
      /\ frame_queue' = [frame_queue EXCEPT ![frame_queue_read] = NoFrame]
      /\ shown' = [shown EXCEPT ![f.which] = f.n]
      /\ frame_queue_read' = (frame_queue_read + 1) % Slots
      /\ frame_queue_len' = frame_queue_len - 1
      /\ main' = "showing"
      /\ UNCHANGED <<pool, allocated, fb, cur_buffer, locked_pixels, lost, frame_queue_write,
                     callback, playing, audio_active, copies, force_release, should_return,
                     reloads, drawn>>
  BY DEF TakeFrame, bufferVars, sliceVars
<1>2. LineInv' /\ f \in Queued /\ Queued' = Queued \ {f}
  BY <1>1, TakeRing
<1>3. /\ frame_queue_len \in Nat /\ frame_queue_len < Slots /\ frame_queue_read \in Indices
      /\ Slots \in Nat /\ 1 \in 0..Slots
  BY Ring, SlotsAndOutputs
<1> HIDE DEF f
<1>4. f \in Frames /\ \A g \in Queued \ {f} : g.which # f.which
  BY <1>2, QueuedFrames
<1>5. f.which \in Outputs /\ f.n \in Nat /\ f.buffer \in Buffers
  BY <1>2, <1>4 DEF Frames, QueueInv, BufferInv
<1>6. /\ shown \in [Outputs -> Nat] /\ drawn \in [Outputs -> Nat]
      /\ \A g \in Queued : g.n = drawn[g.which] /\ shown[g.which] < g.n /\ g.which \in Outputs
      /\ \A o \in Outputs : shown[o] <= drawn[o]
  BY QueuedFrames DEF QueueInv, TypeOK, NumberInv, Frames
<1>7. TypeOK'
  <2>1. frame_queue' \in [Indices -> Frames]
    <3>1. NoFrame \in Frames
      <4>1. (CHOOSE o \in Outputs : TRUE) \in Outputs
        BY FrameAssumption
      <4> QED BY <4>1 DEF NoFrame, Frames
    <3> QED BY <1>1, <3>1 DEF QueueInv, TypeOK
  <2>2. frame_queue_read' \in Indices
    BY <1>1, <1>3, Wraps
  <2>3. frame_queue_len' \in 0..Slots
    BY ONLY <1>1, <1>3
  <2>4. shown' \in [Outputs -> Nat]
    BY ONLY <1>1, <1>5, <1>6
  <2> QED BY <1>1, <1>4, <2>1, <2>2, <2>3, <2>4 DEF QueueInv, TypeOK, Buffers
<1>8. NumberInv'
  <2>1. shown'[f.which] = f.n /\ \A o \in Outputs : o # f.which => shown'[o] = shown[o]
    BY ONLY <1>1, <1>5, <1>6
  <2>2. \A g \in Queued' : g.n = drawn[g.which] /\ shown'[g.which] < g.n
    BY ONLY <1>2, <1>4, <1>6, <2>1
  <2>3. \A o \in Outputs : shown'[o] <= drawn[o]
    <3> TAKE o \in Outputs
    <3>1. shown'[o] = drawn[o] \/ shown'[o] = shown[o]
      BY ONLY <1>2, <1>6, <2>1, o \in Outputs
    <3> QED BY ONLY <1>6, <3>1, o \in Outputs
  <2> QED BY <1>1, <2>2, <2>3 DEF NumberInv
<1>9. BufferInv'
  <2>1. Buffers' = Buffers
    BY <1>1 DEF Buffers
  <2> QED BY <1>1, <1>2, <1>5, <2>1 DEF QueueInv, BufferInv
<1>10. SliceInv'
  BY <1>1 DEF QueueInv, SliceInv
<1> QED BY <1>1, <1>2, <1>7, <1>8, <1>9, <1>10 DEF QueueInv

LEMMA ShownStep ==
  ASSUME QueueInv, FrameShown
  PROVE  QueueInv'
<1>1. /\ main = "showing" /\ main' = "top" /\ showing' = NoFrame
      /\ pool' = pool \cup {showing.buffer}
      /\ UNCHANGED <<frame_queue, frame_queue_len, frame_queue_read, frame_queue_write,
                     callback, playing, audio_active, copies, force_release, should_return, reloads,
                     drawn, shown, allocated, fb, cur_buffer, locked_pixels, lost>>
  BY DEF FrameShown, ReleasedBuffer, queueVars, sliceVars
<1>2. Queued' = Queued /\ (\A i : Place(i)' = Place(i)) /\ (\A i : At(i)' = At(i)) /\ Buffers' = Buffers
  BY <1>1 DEF Queued, At, Place, Buffers
<1>3. showing.buffer \in Buffers
  BY <1>1 DEF QueueInv, BufferInv
<1>4. NoFrame \in Frames /\ NoFrame.buffer = 0
  <2>1. (CHOOSE o \in Outputs : TRUE) \in Outputs
    BY FrameAssumption
  <2> QED BY <2>1 DEF NoFrame, Frames
<1>5. TypeOK'
  BY <1>1, <1>2, <1>3, <1>4 DEF QueueInv, TypeOK
<1>6. LineInv'
  BY <1>1, <1>2 DEF QueueInv, LineInv, NobodyWaitsForRoom
<1>7. NumberInv' /\ SliceInv'
  BY <1>1, <1>2 DEF QueueInv, NumberInv, SliceInv
<1>8. BufferInv'
  BY <1>1, <1>2, <1>4 DEF QueueInv, BufferInv
<1> QED BY <1>5, <1>6, <1>7, <1>8 DEF QueueInv

\* A new machine draws into buffers of its own.
LEMMA ReloadStep ==
  ASSUME QueueInv, Reload
  PROVE  QueueInv'
<1>1. /\ main = "out" /\ main' = "top" /\ reloads' = reloads + 1 /\ reloads < MaxReloads
      /\ lost' = lost \cup (Range(fb) \ {0})
      /\ fb' = [t \in Drawers |-> 0]
      /\ cur_buffer' = [t \in Drawers |-> NoFrame.which]
      /\ copies' = 1 /\ audio_active' = TRUE /\ playing' = TRUE
      /\ force_release' = FALSE /\ should_return' = FALSE
      /\ UNCHANGED <<pool, allocated, locked_pixels, frame_queue, frame_queue_len, frame_queue_read,
                     frame_queue_write, showing, callback, drawn, shown>>
  BY DEF Reload, queueVars
<1>2. Queued' = Queued /\ (\A i : Place(i)' = Place(i)) /\ (\A i : At(i)' = At(i)) /\ Buffers' = Buffers
  BY <1>1 DEF Queued, At, Place, Buffers
<1>3. TypeOK'
  <2>1. Range(fb) \ {0} \subseteq Buffers
    BY DEF Range, QueueInv, TypeOK
  <2>2. NoFrame.which \in Outputs
    <3>1. (CHOOSE o \in Outputs : TRUE) \in Outputs
      BY FrameAssumption
    <3> QED BY <3>1 DEF NoFrame
  <2>3. 1 \in 0..MaxCopies /\ reloads' \in 0..MaxReloads
    <3>1. MaxCopies \in Nat \ {0} /\ MaxReloads \in Nat /\ reloads \in 0..MaxReloads
      BY FrameAssumption DEF QueueInv, TypeOK
    <3> QED BY ONLY <1>1, <3>1
  <2>4. lost' \subseteq Buffers' /\ pool' \subseteq Buffers' /\ locked_pixels' \in Buffers' \cup {0}
        /\ fb' \in [Drawers -> Buffers' \cup {0}] /\ cur_buffer' \in [Drawers -> Outputs]
        /\ copies' \in 0..MaxCopies
    BY <1>1, <1>2, <2>1, <2>2, <2>3 DEF QueueInv, TypeOK
  <2> QED BY <1>1, <2>3, <2>4 DEF QueueInv, TypeOK
<1>4. LineInv'
  BY <1>1, <1>2 DEF QueueInv, LineInv, NobodyWaitsForRoom
<1>5. NumberInv' /\ SliceInv'
  BY <1>1, <1>2 DEF QueueInv, NumberInv, SliceInv
<1>6. BufferInv'
  BY <1>1, <1>2 DEF QueueInv, BufferInv
<1> QED BY <1>3, <1>4, <1>5, <1>6 DEF QueueInv

LEMMA QueueStep ==
  ASSUME QueueInv, [Next]_vars
  PROVE  QueueInv'
<1> USE DEF bufferVars, queueVars, sliceVars
<1>1. /\ MaxCopies \in Nat /\ MaxCopies > 0 /\ copies \in 0..MaxCopies /\ reloads \in 0..MaxReloads
      /\ main \in {"top", "deciding", "waiting", "showing", "out"}
      /\ callback \in {"idle", "running", "ending"}
      /\ playing \in BOOLEAN /\ audio_active \in BOOLEAN /\ force_release \in BOOLEAN
      /\ should_return \in BOOLEAN
      /\ SliceInv
  BY FrameAssumption DEF QueueInv, TypeOK
<1>2. ASSUME NEW t \in Drawers, GetFramebuffer(t) PROVE QueueInv'
  BY <1>2, GetStep
<1>3. ASSUME NEW t \in Drawers, FramebufferUpdated(t) PROVE QueueInv'
  BY <1>3, UpdatedStep
<1>4. CASE TakeFrame
  BY <1>4, TakeStep
<1>5. CASE FrameShown
  BY <1>5, ShownStep
<1>6. CASE LookAround
  BY <1>1, <1>6, Elsewhere DEF LookAround, SliceInv
<1>7. CASE CondWait
  BY <1>1, <1>7, Elsewhere DEF CondWait, SliceInv
<1>8. CASE PressMenu
  BY <1>1, <1>8, Elsewhere DEF PressMenu, SliceInv
<1>9. CASE SpuriousWakeup
  BY <1>1, <1>9, Elsewhere DEF SpuriousWakeup, SliceInv
<1>10. CASE BeginSlice
  <2>1. copies' \in 0..MaxCopies /\ copies # 0 /\ (copies' = copies \/ copies' = copies + 1)
    <3>1. copies # 0
      BY <1>1, <1>10 DEF BeginSlice, SliceInv
    <3>2. copies' = copies \/ (copies' = copies + 1 /\ copies < MaxCopies)
      BY <1>10 DEF BeginSlice, TakeBack
    <3> QED BY ONLY <1>1, <3>1, <3>2
  <2>2. copies' # 0
    BY ONLY <1>1, <2>1
  <2> QED BY <1>1, <1>10, <2>1, <2>2, Elsewhere DEF BeginSlice, TakeBack, SliceInv
<1>11. CASE AudioReady
  BY <1>1, <1>11, Elsewhere DEF AudioReady, SliceInv
<1>12. CASE CpuReturns
  BY <1>1, <1>12, Elsewhere DEF CpuReturns, SliceInv
<1>13. CASE EndSlice
  <2>1. copies # 0
    BY <1>1, <1>13 DEF EndSlice, SliceInv
  <2>2. CASE force_release /\ ReleaseSources
    <3>1. copies' \in 0..MaxCopies /\ (copies = 1 \/ copies' # 0)
      <4>1. copies' = copies - 1
        BY <2>2 DEF ReleaseSources
      <4> QED BY ONLY <1>1, <2>1, <4>1
    <3>2. copies = 1 => playing' = FALSE
      BY <2>2 DEF ReleaseSources
    <3>3. SliceInv'
      BY <1>1, <1>13, <2>2, <3>1, <3>2 DEF EndSlice, SliceInv
    <3> QED BY <1>1, <1>13, <2>2, <3>1, <3>3, Elsewhere DEF EndSlice, ReleaseSources, Signalled
  <2>3. CASE ~force_release /\ UNCHANGED <<copies, playing, audio_active, main>>
    BY <1>1, <1>13, <2>1, <2>3, Elsewhere DEF EndSlice, SliceInv
  <2> QED BY <1>13, <2>2, <2>3 DEF EndSlice
<1>14. CASE Resume
  <2>1. copies' \in 0..MaxCopies /\ copies' # 0
    <3>1. (force_release /\ copies' = IF copies < MaxCopies THEN copies + 1 ELSE copies)
          \/ (copies' = copies /\ copies # 0)
      BY <1>1, <1>14 DEF Resume, TakeBack, SliceInv
    <3>2. copies' = (IF copies < MaxCopies THEN copies + 1 ELSE copies) \/ (copies' = copies /\ copies # 0)
      BY ONLY <3>1
    <3> QED BY ONLY <1>1, <3>2
  <2> QED BY <1>1, <1>14, <2>1, Elsewhere DEF Resume, TakeBack, SliceInv
<1>15. CASE Reload
  BY <1>15, ReloadStep
<1>16. CASE UNCHANGED vars
  BY <1>1, <1>16, Elsewhere DEF vars, SliceInv
<1> QED BY <1>2, <1>3, <1>4, <1>5, <1>6, <1>7, <1>8, <1>9, <1>10, <1>11, <1>12, <1>13, <1>14, <1>15,
           <1>16 DEF Next, Draw, VideoLoop

\* The state of the queue and of the slices keeps its type: buffers that exist,
\* indices within frame_queue, no source released twice.
THEOREM FrameTypeCorrect == Spec => []TypeOK
<1>1. QueueInv => TypeOK
  BY DEF QueueInv
<1> QED BY <1>1, QueueInit, QueueStep, PTL DEF Spec

\* render_framebuffer_updated never finds frame_queue full, however many frames
\* are drawn before the main thread shows one.
THEOREM NobodyWaits == Spec => []NobodyWaitsForRoom
<1>1. QueueInv => NobodyWaitsForRoom
  BY DEF QueueInv, LineInv
<1> QED BY <1>1, QueueInit, QueueStep, PTL DEF Spec
-----------------------------------------------------------------------------
(* One box per output. *)

\* The frame of an output among those of q.
NumberOf(frames) == IF frames = {} THEN 0 ELSE (CHOOSE f \in frames : TRUE).n
PendingIn(q, o) == NumberOf({f \in q : f.which = o})

Boxes(q) == [o \in Outputs |-> PendingIn(q, o)]

LEMMA PendingNone ==
  ASSUME NEW q, NEW o, \A f \in q : f.which # o
  PROVE  PendingIn(q, o) = 0
<1>1. {f \in q : f.which = o} = {}
  OBVIOUS
<1> QED BY <1>1 DEF PendingIn, NumberOf

LEMMA PendingOne ==
  ASSUME NEW q, NEW o, NEW f \in q, f.which = o, \A g \in q : g.which = o => g = f
  PROVE  PendingIn(q, o) = f.n
<1>1. {g \in q : g.which = o} = {f}
  OBVIOUS
<1>2. (CHOOSE g \in {f} : TRUE) = f /\ {f} # {}
  OBVIOUS
<1> QED BY <1>1, <1>2 DEF PendingIn, NumberOf

LEMMA PendingSame ==
  ASSUME NEW q, NEW p, NEW o, \A f : f.which = o => (f \in q <=> f \in p)
  PROVE  PendingIn(q, o) = PendingIn(p, o)
<1>1. {f \in q : f.which = o} = {f \in p : f.which = o}
  OBVIOUS
<1> QED BY ONLY <1>1 DEF PendingIn

LEMMA BoxesAre ==
  /\ [o \in Outputs |-> Pending(o)] = Boxes(Queued)
  /\ [o \in Outputs |-> Pending(o)]' = Boxes(Queued')
BY DEF Boxes, Pending, PendingIn, NumberOf

LEMMA MailboxInit == Init => QueueInv /\ Mailbox!MailboxInit
<1> SUFFICES ASSUME Init PROVE QueueInv /\ Mailbox!MailboxInit
  OBVIOUS
<1>1. Queued = {}
  <2>1. 0..(frame_queue_len - 1) = {}
    BY DEF Init
  <2> QED BY <2>1 DEF Queued
<1>2. [o \in Outputs |-> Pending(o)] = [o \in Outputs |-> 0]
  BY <1>1 DEF Pending
<1> QED BY <1>2, QueueInit DEF Init, Mailbox!MailboxInit

\* A new frame is posted.
LEMMA PostStep ==
  ASSUME QueueInv, NEW t \in Drawers, FramebufferUpdated(t)
  PROVE  Mailbox!MailboxNext
<1>0. PICK o \in Outputs : o = cur_buffer[t]
  BY DEF QueueInv, TypeOK
<1> DEFINE new == NewFrame(t)
<1>1. Queued' = (Queued \ Older(o)) \cup {new}
  BY <1>0, Updated
<1>2. drawn' = [drawn EXCEPT ![o] = @ + 1] /\ shown' = shown
  BY <1>0 DEF FramebufferUpdated
<1>3. new.which = o /\ new.n = drawn[o] + 1
  BY <1>0 DEF NewFrame
<1>4. \A f : f \in Older(o) <=> f \in Queued /\ f.which = o
  BY DEF Older
<1> HIDE DEF new
<1>5. PendingIn(Queued', o) = drawn[o] + 1
  <2>1. new \in Queued' /\ \A g \in Queued' : g.which = o => g = new
    BY <1>1, <1>4
  <2> QED BY <1>3, <2>1, PendingOne
<1>6. ASSUME NEW p \in Outputs, p # o
      PROVE  PendingIn(Queued', p) = PendingIn(Queued, p)
  <2>1. \A f : f.which = p => (f \in Queued' <=> f \in Queued)
    BY <1>1, <1>3, <1>4, <1>6
  <2> QED BY <2>1, PendingSame
<1>7. Boxes(Queued') = [Boxes(Queued) EXCEPT ![o] = drawn[o] + 1]
  BY <1>5, <1>6 DEF Boxes
<1>8. [p \in Outputs |-> Pending(p)]' = [[p \in Outputs |-> Pending(p)] EXCEPT ![o] = drawn[o] + 1]
  BY ONLY <1>7, BoxesAre
<1>9. Mailbox!Post(o)
  BY <1>2, <1>8 DEF Mailbox!Post
<1> QED BY <1>9 DEF Mailbox!MailboxNext

\* The first frame of the queue is taken out of its box.
LEMMA BoxStep ==
  ASSUME QueueInv, TakeFrame
  PROVE  Mailbox!MailboxNext
<1>0. PICK f \in Queued : f = showing' /\ Queued' = Queued \ {f}
  BY TakeStep
<1>1. f \in Frames /\ (\A g \in Queued : g.which = f.which => g = f) /\ shown[f.which] < f.n
  BY <1>0, QueuedFrames DEF QueueInv, NumberInv
<1>2. PICK o \in Outputs : o = f.which
  BY <1>1 DEF Frames
<1>3. shown' = [shown EXCEPT ![o] = f.n] /\ drawn' = drawn
  BY <1>0, <1>2 DEF TakeFrame
<1>4. PendingIn(Queued, o) = f.n
  BY <1>1, <1>2, PendingOne
<1>5. PendingIn(Queued', o) = 0
  <2>1. \A g \in Queued' : g.which # o
    BY <1>0, <1>1, <1>2
  <2> QED BY <2>1, PendingNone
<1>6. ASSUME NEW p \in Outputs, p # o
      PROVE  PendingIn(Queued', p) = PendingIn(Queued, p)
  <2>1. \A g : g.which = p => (g \in Queued' <=> g \in Queued)
    BY <1>0, <1>2, <1>6
  <2> QED BY <2>1, PendingSame
<1>7. Boxes(Queued') = [Boxes(Queued) EXCEPT ![o] = 0] /\ Boxes(Queued)[o] = f.n
  BY <1>4, <1>5, <1>6 DEF Boxes
<1>8. /\ [p \in Outputs |-> Pending(p)]' = [[p \in Outputs |-> Pending(p)] EXCEPT ![o] = 0]
      /\ [p \in Outputs |-> Pending(p)][o] = f.n
  BY ONLY <1>7, BoxesAre
<1>9. f.n > shown[o]
  <2>1. shown[o] \in Nat /\ f.n \in Nat
    BY <1>1 DEF QueueInv, TypeOK, Frames
  <2> QED BY <1>1, <1>2, <2>1
<1>10. Mailbox!Take(o)
  BY ONLY <1>3, <1>8, <1>9 DEF Mailbox!Take
<1> QED BY <1>10 DEF Mailbox!MailboxNext

LEMMA MailboxStep ==
  ASSUME QueueInv, [Next]_vars
  PROVE  QueueInv' /\ [Mailbox!MailboxNext]_(Mailbox!boxes)
<1>1. QueueInv'
  BY QueueStep
<1>2. ASSUME NEW t \in Drawers, FramebufferUpdated(t) PROVE Mailbox!MailboxNext
  BY <1>2, PostStep
<1>3. ASSUME TakeFrame PROVE Mailbox!MailboxNext
  BY <1>3, BoxStep
<1>4. ASSUME UNCHANGED <<frame_queue, frame_queue_len, frame_queue_read, drawn, shown>>
      PROVE  UNCHANGED Mailbox!boxes
  <2>1. Queued' = Queued
    BY <1>4 DEF Queued, Place
  <2>2. Boxes(Queued') = Boxes(Queued)
    BY ONLY <2>1
  <2>3. [p \in Outputs |-> Pending(p)]' = [p \in Outputs |-> Pending(p)]
    BY ONLY <2>2, BoxesAre
  <2> QED BY <1>4, <2>3 DEF Mailbox!boxes
<1>5. \/ \E t \in Drawers : FramebufferUpdated(t)
      \/ TakeFrame
      \/ UNCHANGED <<frame_queue, frame_queue_len, frame_queue_read, drawn, shown>>
  BY DEF Next, Draw, VideoLoop, GetFramebuffer, FrameShown, LookAround, CondWait, PressMenu,
         SpuriousWakeup, BeginSlice, AudioReady, CpuReturns, EndSlice, Resume, Reload,
         vars, bufferVars, queueVars, sliceVars
<1> QED BY <1>1, <1>2, <1>3, <1>4, <1>5

\* render_framebuffer_updated and render_video_loop implement one box per
\* output: the newest frame waits, no older one is shown after a newer one.
THEOREM QueueImplementsMailbox == Spec => QueueIsMailbox
<1> QED BY MailboxInit, MailboxStep, PTL DEF Spec, QueueIsMailbox, Mailbox!MailboxSpec
-----------------------------------------------------------------------------
(* One place per buffer. *)

\* In mode 5 only the renderer's VDP puts out lines.
OneDraws == \E t : Drawers = {t}

\* Buffers are numbered.
LEMMA Numbered ==
  ASSUME NEW n \in Nat, NEW set \in SUBSET (1..n)
  PROVE  IsFiniteSet(set) /\ Cardinality(set) \in Nat /\ Cardinality(1..n) = n /\ IsFiniteSet(1..n)
<1>1. 1 \in Int /\ n \in Int
  OBVIOUS
<1>2. IsFiniteSet(1..n) /\ Cardinality(1..n) = IF 1 > n THEN 0 ELSE n - 1 + 1
  BY ONLY <1>1, FS_Interval
<1>3. (IF 1 > n THEN 0 ELSE n - 1 + 1) = n
  OBVIOUS
<1>4. IsFiniteSet(set) /\ Cardinality(set) \in Nat
  BY ONLY <1>2, set \in SUBSET (1..n), FS_Subset, FS_CardinalityType
<1> QED BY ONLY <1>2, <1>3, <1>4

LEMMA OwnInit == Init => OwnInv
<1> SUFFICES ASSUME Init PROVE OwnInv
  OBVIOUS
<1>1. Queued = {}
  <2>1. 0..(frame_queue_len - 1) = {}
    BY DEF Init
  <2> QED BY <2>1 DEF Queued
<1>2. /\ allocated = 1 /\ Buffers = {1} /\ pool = {1} /\ lost = {} /\ showing.buffer = 0
      /\ \A t \in Drawers : fb[t] = 0
  BY DEF Init, Buffers, NoFrame
<1>3. allocated <= Cardinality(Outputs) + Cardinality(Drawers) + 1 + Cardinality(lost)
  <2>1. Cardinality(lost) = 0
    BY <1>2, FS_EmptySet
  <2>2. Cardinality(Outputs) \in Nat /\ Cardinality(Drawers) \in Nat
    BY FrameAssumption, FS_CardinalityType
  <2> QED BY ONLY <1>2, <2>1, <2>2
<1> QED BY <1>1, <1>2, <1>3 DEF OwnInv

\* When the pool is empty and nothing is drawn into, buffers are where frames
\* of the queue are, at most as many as outputs, or shown, or lost.
LEMMA BuffersInUse ==
  ASSUME QueueInv, OwnInv, pool = {}, \A t \in Drawers : fb[t] = 0
  PROVE  allocated <= Cardinality(Outputs) + 1 + Cardinality(lost)
<1> DEFINE used == {f.buffer : f \in Queued}
<1>0. PICK n : n = frame_queue_len
  OBVIOUS
<1>1. allocated \in Nat /\ lost \subseteq 1..allocated /\ n \in Nat /\ n <= Cardinality(Outputs)
      /\ Cardinality(Outputs) \in Nat
  BY <1>0, Ring, SlotsAndOutputs DEF QueueInv, TypeOK, Buffers, LineInv, NobodyWaitsForRoom
<1>2. 1..allocated \subseteq (lost \cup {showing.buffer}) \cup used
  BY DEF OwnInv, Buffers
<1>3. /\ IsFiniteSet(1..allocated) /\ Cardinality(1..allocated) = allocated
      /\ IsFiniteSet(lost) /\ Cardinality(lost) \in Nat
  BY ONLY <1>1, Numbered
<1>4. IsFiniteSet(lost) /\ Cardinality(lost) \in Nat
  BY ONLY <1>3
<1>5. /\ IsFiniteSet(lost \cup {showing.buffer})
      /\ Cardinality(lost \cup {showing.buffer}) \in Nat
      /\ Cardinality(lost \cup {showing.buffer}) <= Cardinality(lost) + 1
  <2>1. /\ IsFiniteSet(lost \cup {showing.buffer})
        /\ Cardinality(lost \cup {showing.buffer})
             = IF showing.buffer \in lost THEN Cardinality(lost) ELSE Cardinality(lost) + 1
    BY ONLY <1>4, FS_AddElement
  <2>2. \/ Cardinality(lost \cup {showing.buffer}) = Cardinality(lost)
        \/ Cardinality(lost \cup {showing.buffer}) = Cardinality(lost) + 1
    BY ONLY <2>1
  <2>3. /\ Cardinality(lost \cup {showing.buffer}) \in Nat
        /\ Cardinality(lost \cup {showing.buffer}) <= Cardinality(lost) + 1
    BY ONLY <1>4, <2>2
  <2> QED BY ONLY <2>1, <2>3
<1>6. IsFiniteSet(used) /\ Cardinality(used) <= n /\ Cardinality(used) \in Nat
  <2> DEFINE buffer == [i \in 0..(n - 1) |-> At(i).buffer]
  <2>1. used = {At(i).buffer : i \in 0..(n - 1)}
    BY <1>0 DEF Queued, At
  <2>2. buffer \in Surjection(0..(n - 1), used)
    BY <2>1 DEF Surjection
  <2> HIDE DEF buffer, used
  <2>3. IsFiniteSet(0..(n - 1)) /\ Cardinality(0..(n - 1)) = n
    <3>1. n - 1 \in Int /\ 0 \in Int /\ (IF 0 > n - 1 THEN 0 ELSE n - 1 - 0 + 1) = n
      BY ONLY <1>1
    <3>2. IsFiniteSet(0..(n - 1))
          /\ Cardinality(0..(n - 1)) = IF 0 > n - 1 THEN 0 ELSE n - 1 - 0 + 1
      BY ONLY <3>1, FS_Interval
    <3> QED BY ONLY <3>1, <3>2
  <2> QED BY <2>2, <2>3, FS_Surjection, FS_CardinalityType
<1> HIDE DEF used
<1>7. /\ IsFiniteSet((lost \cup {showing.buffer}) \cup used)
      /\ Cardinality((lost \cup {showing.buffer}) \cup used)
           = Cardinality(lost \cup {showing.buffer}) + Cardinality(used)
               - Cardinality((lost \cup {showing.buffer}) \cap used)
  BY ONLY <1>5, <1>6, FS_Union
<1>8. Cardinality((lost \cup {showing.buffer}) \cap used) \in Nat
  BY ONLY <1>5, FS_Intersection, FS_CardinalityType
<1>9. allocated <= Cardinality((lost \cup {showing.buffer}) \cup used)
  <2>1. 1..allocated \in SUBSET ((lost \cup {showing.buffer}) \cup used)
    BY <1>2
  <2> QED BY ONLY <1>3, <1>7, <2>1, FS_Subset
<1> QED BY ONLY <1>1, <1>4, <1>5, <1>6, <1>7, <1>8, <1>9

LEMMA OwnGet ==
  ASSUME OneDraws, QueueInv, OwnInv, NEW t \in Drawers, GetFramebuffer(t)
  PROVE  OwnInv'
<1>1. PICK b \in IF pool = {} THEN {allocated + 1} ELSE pool :
        /\ allocated' = IF pool = {} THEN allocated + 1 ELSE allocated
        /\ pool' = pool \ {b}
        /\ fb' = [fb EXCEPT ![t] = b]
        /\ locked_pixels' = b
  BY DEF GetFramebuffer
<1>2. /\ UNCHANGED <<frame_queue, frame_queue_len, frame_queue_read, showing, lost>>
      /\ fb[t] = 0 /\ Drawers = {t}
  BY DEF GetFramebuffer, queueVars, OneDraws
<1>3. /\ Queued' = Queued /\ fb'[t] = b
      /\ \A u \in Drawers : fb[u] = 0 /\ u = t
  BY <1>1, <1>2 DEF Queued, Place, QueueInv, TypeOK
<1>4. /\ allocated \in Nat /\ pool \subseteq 1..allocated /\ lost \subseteq 1..allocated
      /\ showing.buffer \in 0..allocated
      /\ \A f \in Queued : f.buffer \in 1..allocated
  BY DEF QueueInv, TypeOK, Buffers, BufferInv
<1>5. /\ b \notin lost /\ b # showing.buffer /\ b # 0
      /\ \A f \in Queued : f.buffer # b
  <2>1. CASE pool = {}
    <3>1. b = allocated + 1
      BY <1>1, <2>1
    <3>2. b \notin 0..allocated
      BY ONLY <1>4, <3>1
    <3>3. \A x \in 1..allocated : x \in 0..allocated
      BY ONLY <1>4
    <3> QED BY ONLY <1>4, <3>1, <3>2, <3>3
  <2>2. CASE pool # {}
    <3>1. b \in pool
      BY <1>1, <2>2
    <3> QED BY <1>4, <3>1 DEF OwnInv
  <2> QED BY <2>1, <2>2
<1>6. \A x \in 1..allocated' : x \in 1..allocated \/ x = b
  <2>1. CASE pool = {}
    BY ONLY <1>1, <1>4, <2>1
  <2>2. CASE pool # {}
    BY ONLY <1>1, <2>2
  <2> QED BY <2>1, <2>2
<1>7. allocated' <= Cardinality(Outputs) + Cardinality(Drawers) + 1 + Cardinality(lost)
  <2>1. Cardinality(Drawers) = 1 /\ Cardinality(Outputs) \in Nat
    BY <1>2, FS_Singleton, SlotsAndOutputs
  <2>2. Cardinality(lost) \in Nat
    BY ONLY <1>4, Numbered
  <2>3. CASE pool = {}
    <3>1. allocated <= Cardinality(Outputs) + 1 + Cardinality(lost)
      BY <1>3, <2>3, BuffersInUse
    <3>2. allocated' = allocated + 1
      BY <1>1, <2>3
    <3> QED BY ONLY <1>4, <2>1, <2>2, <3>1, <3>2
  <2>4. CASE pool # {}
    BY <1>1, <2>4 DEF OwnInv
  <2> QED BY <2>3, <2>4
<1>8. /\ pool' \cap lost = {} /\ showing.buffer \notin pool' \cup lost
      /\ \A f \in Queued :
           /\ f.buffer \notin pool' \cup lost /\ f.buffer # showing.buffer
           /\ \A g \in Queued : f.buffer = g.buffer => f = g
  BY <1>1 DEF OwnInv
<1>9. \A u \in Drawers : fb'[u] # 0 =>
       /\ locked_pixels' = fb'[u]
       /\ fb'[u] \notin pool' \cup lost /\ fb'[u] # showing.buffer
       /\ \A f \in Queued : f.buffer # fb'[u]
  BY <1>1, <1>3, <1>5
<1>10. \A x \in 1..allocated' :
       \/ x \in pool' \cup lost \/ showing.buffer = x
       \/ \E f \in Queued : f.buffer = x
       \/ \E u \in Drawers : fb'[u] = x
  BY <1>1, <1>3, <1>6 DEF OwnInv, Buffers
<1> QED BY ONLY <1>2, <1>3, <1>7, <1>8, <1>9, <1>10 DEF OwnInv, Buffers

LEMMA OwnUpdated ==
  ASSUME OneDraws, QueueInv, OwnInv, NEW t \in Drawers, FramebufferUpdated(t)
  PROVE  OwnInv'
<1>0. PICK o, new : o = cur_buffer[t] /\ new = NewFrame(t)
  OBVIOUS
<1>1. /\ Queued' = (Queued \ Older(o)) \cup {new}
      /\ pool' = pool \cup {f.buffer : f \in Older(o)}
  BY <1>0, Updated
<1>2. /\ fb[t] # 0 /\ fb' = [fb EXCEPT ![t] = 0] /\ Drawers = {t}
      /\ UNCHANGED <<showing, allocated, locked_pixels, lost>>
  BY DEF FramebufferUpdated, OneDraws
<1>3. /\ locked_pixels = fb[t] /\ fb[t] \notin pool \cup lost /\ fb[t] # showing.buffer
      /\ \A f \in Queued : f.buffer # fb[t]
      /\ new.buffer = fb[t]
  BY <1>0, <1>2 DEF OwnInv, NewFrame
<1>4. /\ \A u \in Drawers : u = t /\ fb'[u] = 0
      /\ Older(o) \subseteq Queued
  BY <1>2 DEF QueueInv, TypeOK, Older
<1>5. /\ pool \cap lost = {} /\ showing.buffer \notin pool \cup lost
      /\ \A f \in Queued :
           /\ f.buffer \notin pool \cup lost /\ f.buffer # showing.buffer
           /\ \A g \in Queued : f.buffer = g.buffer => f = g
  BY DEF OwnInv
<1>6. /\ pool' \cap lost = {} /\ showing.buffer \notin pool' \cup lost
  BY ONLY <1>1, <1>4, <1>5
<1>7. ASSUME NEW f \in Queued'
      PROVE  /\ f.buffer \notin pool' \cup lost /\ f.buffer # showing.buffer
             /\ \A g \in Queued' : f.buffer = g.buffer => f = g
  <2>1. CASE f = new
    BY ONLY <1>1, <1>3, <1>4, <2>1
  <2>2. CASE f \in Queued \ Older(o)
    BY ONLY <1>1, <1>3, <1>4, <1>5, <2>2
  <2> QED BY <1>1, <2>1, <2>2
<1>8. ASSUME NEW b \in Buffers
      PROVE  \/ b \in pool' \cup lost \/ showing.buffer = b
             \/ \E f \in Queued' : f.buffer = b
             \/ \E u \in Drawers : fb'[u] = b
  <2>1. \/ b \in pool \cup lost \/ showing.buffer = b
        \/ \E f \in Queued : f.buffer = b
        \/ b = fb[t]
    BY <1>4 DEF OwnInv
  <2>2. ASSUME NEW f \in Queued PROVE f.buffer \in pool' \/ f \in Queued'
    BY ONLY <1>1, f \in Queued
  <2>3. new \in Queued'
    BY <1>1
  <2> QED BY ONLY <1>1, <1>3, <2>1, <2>2, <2>3
<1>9. allocated <= Cardinality(Outputs) + Cardinality(Drawers) + 1 + Cardinality(lost)
  BY DEF OwnInv
<1> QED BY ONLY <1>2, <1>4, <1>6, <1>7, <1>8, <1>9 DEF OwnInv, Buffers

LEMMA OwnTake ==
  ASSUME QueueInv, OwnInv, TakeFrame
  PROVE  OwnInv'
<1>1. showing' \in Queued /\ Queued' = Queued \ {showing'}
  BY TakeStep
<1>2. main = "top" /\ UNCHANGED <<pool, allocated, fb, locked_pixels, lost>>
  BY DEF TakeFrame, bufferVars
<1>3. showing.buffer = 0 /\ \A b \in Buffers : b # 0
  BY <1>2 DEF QueueInv, BufferInv, TypeOK, Buffers
<1>4. Buffers' = Buffers
  BY <1>2 DEF Buffers
<1>5. \A b \in Buffers :
       \/ b \in pool \cup lost \/ showing'.buffer = b
       \/ \E f \in Queued' : f.buffer = b
       \/ \E u \in Drawers : fb[u] = b
  BY <1>1, <1>3 DEF OwnInv
<1>6. /\ showing'.buffer \notin pool \cup lost
      /\ \A f \in Queued' :
           /\ f.buffer \notin pool \cup lost /\ f.buffer # showing'.buffer
           /\ \A g \in Queued' : f.buffer = g.buffer => f = g
  BY <1>1 DEF OwnInv
<1>7. \A u \in Drawers : fb[u] # 0 =>
       /\ locked_pixels = fb[u]
       /\ fb[u] \notin pool \cup lost /\ fb[u] # showing'.buffer
       /\ \A f \in Queued' : f.buffer # fb[u]
  BY <1>1 DEF OwnInv
<1>8. pool \cap lost = {}
      /\ allocated <= Cardinality(Outputs) + Cardinality(Drawers) + 1 + Cardinality(lost)
  BY DEF OwnInv
<1> QED BY ONLY <1>2, <1>4, <1>5, <1>6, <1>7, <1>8 DEF OwnInv

LEMMA OwnShown ==
  ASSUME QueueInv, OwnInv, FrameShown
  PROVE  OwnInv'
<1>1. /\ main = "showing" /\ showing' = NoFrame /\ pool' = pool \cup {showing.buffer}
      /\ UNCHANGED <<frame_queue, frame_queue_len, frame_queue_read, allocated, fb, locked_pixels, lost>>
  BY DEF FrameShown, ReleasedBuffer, queueVars
<1>2. Queued' = Queued /\ Buffers' = Buffers
  BY <1>1 DEF Queued, Place, Buffers
<1>3. /\ showing'.buffer = 0 /\ 0 \notin Buffers /\ showing.buffer \in Buffers
      /\ pool' \subseteq Buffers /\ lost \subseteq Buffers
      /\ \A f \in Queued : f.buffer \in Buffers
  <2>1. showing'.buffer = 0
    BY <1>1 DEF NoFrame
  <2>2. 0 \notin Buffers
    BY DEF Buffers
  <2>3. /\ showing.buffer \in Buffers /\ pool \subseteq Buffers /\ lost \subseteq Buffers
        /\ \A f \in Queued : f.buffer \in Buffers
    BY <1>1 DEF QueueInv, BufferInv, TypeOK
  <2> QED BY <1>1, <2>1, <2>2, <2>3
<1>4. /\ pool' \cap lost = {}
      /\ showing'.buffer \notin pool' \cup lost
      /\ \A f \in Queued :
           /\ f.buffer \notin pool' \cup lost /\ f.buffer # showing'.buffer
           /\ \A g \in Queued : f.buffer = g.buffer => f = g
  BY <1>1, <1>3 DEF OwnInv
<1>5. \A u \in Drawers : fb[u] # 0 =>
       /\ locked_pixels = fb[u]
       /\ fb[u] \notin pool' \cup lost /\ fb[u] # showing'.buffer
       /\ \A f \in Queued : f.buffer # fb[u]
  BY <1>1, <1>3 DEF OwnInv
<1>6. \A b \in Buffers :
       \/ b \in pool' \cup lost \/ showing'.buffer = b
       \/ \E f \in Queued : f.buffer = b
       \/ \E u \in Drawers : fb[u] = b
  BY <1>1 DEF OwnInv
<1>7. allocated <= Cardinality(Outputs) + Cardinality(Drawers) + 1 + Cardinality(lost)
  BY DEF OwnInv
<1> QED BY ONLY <1>1, <1>2, <1>4, <1>5, <1>6, <1>7 DEF OwnInv

LEMMA OwnReload ==
  ASSUME QueueInv, OwnInv, Reload
  PROVE  OwnInv'
<1> DEFINE freed == Range(fb) \ {0}
<1>1. /\ lost' = lost \cup freed
      /\ fb' = [t \in Drawers |-> 0]
      /\ UNCHANGED <<pool, allocated, locked_pixels, frame_queue, frame_queue_len, frame_queue_read,
                     showing>>
  BY DEF Reload, queueVars
<1>2. Queued' = Queued /\ Buffers' = Buffers /\ \A t \in Drawers : fb'[t] = 0
  BY <1>1 DEF Queued, Place, Buffers
<1>3. \A b : b \in freed <=> b # 0 /\ \E t \in Drawers : fb[t] = b
  BY DEF Range, QueueInv, TypeOK
<1> HIDE DEF freed
<1>4. /\ pool \cap lost' = {} /\ showing.buffer \notin pool \cup lost'
      /\ \A f \in Queued :
           /\ f.buffer \notin pool \cup lost' /\ f.buffer # showing.buffer
           /\ \A g \in Queued : f.buffer = g.buffer => f = g
  BY <1>1, <1>3 DEF OwnInv
<1>5. \A b \in Buffers :
       \/ b \in pool \cup lost' \/ showing.buffer = b
       \/ \E f \in Queued : f.buffer = b
       \/ \E u \in Drawers : fb'[u] = b
  <2>1. 0 \notin Buffers
    BY DEF Buffers
  <2> QED BY <1>1, <1>3, <2>1 DEF OwnInv
<1>6. allocated <= Cardinality(Outputs) + Cardinality(Drawers) + 1 + Cardinality(lost')
  <2>1. allocated \in Nat /\ lost' \subseteq 1..allocated /\ lost \subseteq lost'
    <3>1. freed \subseteq 1..allocated
      BY <1>3 DEF QueueInv, TypeOK, Buffers
    <3> QED BY <1>1, <3>1 DEF QueueInv, TypeOK, Buffers
  <2>2. IsFiniteSet(lost') /\ Cardinality(lost') \in Nat
    BY ONLY <2>1, Numbered
  <2>3. Cardinality(lost) \in Nat /\ Cardinality(lost) <= Cardinality(lost')
    BY <2>1, <2>2, FS_Subset, FS_CardinalityType
  <2>4. allocated <= Cardinality(Outputs) + Cardinality(Drawers) + 1 + Cardinality(lost)
    BY DEF OwnInv
  <2>5. Cardinality(Outputs) \in Nat /\ Cardinality(Drawers) \in Nat
    BY FrameAssumption, FS_CardinalityType
  <2> QED BY ONLY <2>1, <2>2, <2>3, <2>4, <2>5
<1> QED BY ONLY <1>1, <1>2, <1>4, <1>5, <1>6 DEF OwnInv

LEMMA OwnStep ==
  ASSUME OneDraws, QueueInv, OwnInv, [Next]_vars
  PROVE  OwnInv'
<1>1. ASSUME NEW t \in Drawers, GetFramebuffer(t) PROVE OwnInv'
  BY <1>1, OwnGet
<1>2. ASSUME NEW t \in Drawers, FramebufferUpdated(t) PROVE OwnInv'
  BY <1>2, OwnUpdated
<1>3. CASE TakeFrame
  BY <1>3, OwnTake
<1>4. CASE FrameShown
  BY <1>4, OwnShown
<1>5. CASE Reload
  BY <1>5, OwnReload
<1>6. ASSUME UNCHANGED <<pool, allocated, fb, locked_pixels, lost, frame_queue, frame_queue_len,
                         frame_queue_read, showing>>
      PROVE  OwnInv'
  <2>1. Queued' = Queued /\ Buffers' = Buffers
    BY <1>6 DEF Queued, Place, Buffers
  <2> QED BY <1>6, <2>1 DEF OwnInv
<1>7. \/ \E t \in Drawers : GetFramebuffer(t) \/ FramebufferUpdated(t)
      \/ TakeFrame \/ FrameShown \/ Reload
      \/ UNCHANGED <<pool, allocated, fb, locked_pixels, lost, frame_queue, frame_queue_len,
                     frame_queue_read, showing>>
  BY DEF Next, Draw, VideoLoop, LookAround, CondWait, PressMenu, SpuriousWakeup, BeginSlice,
         AudioReady, CpuReturns, EndSlice, Resume, vars, bufferVars, queueVars, sliceVars
<1> QED BY <1>1, <1>2, <1>3, <1>4, <1>5, <1>6, <1>7

\* Places in terms of BuffersOwned: there is one for each buffer.
LEMMA OwnedOnce ==
  ASSUME OneDraws, QueueInv, OwnInv, NEW b \in Buffers
  PROVE  Cardinality(Owners(b)) = 1
<1> DEFINE queued == {j \in 0..(frame_queue_len - 1) : frame_queue[Place(j)].buffer = b}
           drawing == {u \in Drawers : fb[u] = b}
<1>1. Owners(b) = (IF b \in pool THEN {"pool"} ELSE {})
                  \cup (IF b \in lost THEN {"lost"} ELSE {})
                  \cup (IF showing.buffer = b THEN {"showing"} ELSE {})
                  \cup {<<"queue", i>> : i \in queued} \cup {<<"drawing", t>> : t \in drawing}
  BY DEF Owners
<1>2. /\ \A j \in queued : At(j) \in Queued /\ At(j).buffer = b
      /\ (\E f \in Queued : f.buffer = b) => queued # {}
  BY DEF Queued, At
<1>3. \A i, j \in queued : i = j
  <2>1. \A i, j \in queued : At(i) = At(j)
    BY <1>2 DEF OwnInv
  <2>2. \A i, j \in queued : i \in 0..(frame_queue_len - 1) /\ j \in 0..(frame_queue_len - 1)
    OBVIOUS
  <2> QED BY ONLY QueueInv, <2>1, <2>2 DEF QueueInv, LineInv
<1>4. /\ \A t \in drawing : t \in Drawers /\ fb[t] # 0 /\ fb[t] = b
      /\ (\E t \in Drawers : fb[t] = b) => drawing # {}
  <2>1. b # 0
    BY DEF Buffers
  <2> QED BY <2>1
<1>5. \A t, u \in drawing : t = u
  BY DEF OneDraws
<1> HIDE DEF queued, drawing
<1>6. /\ b \in pool \cup lost \/ showing.buffer = b \/ queued # {} \/ drawing # {}
      /\ b \in pool => b \notin lost
      /\ b \in pool \cup lost => showing.buffer # b
      /\ b \in pool \cup lost \/ showing.buffer = b => queued = {} /\ drawing = {}
      /\ queued # {} => drawing = {}
  BY <1>2, <1>4 DEF OwnInv
<1>7. {<<"queue", i>> : i \in {}} = {} /\ {<<"drawing", t>> : t \in {}} = {}
  OBVIOUS
<1>8. \E p : Owners(b) = {p}
  <2>1. CASE b \in pool
    BY ONLY <1>1, <1>6, <1>7, <2>1
  <2>2. CASE b \in lost
    BY ONLY <1>1, <1>6, <1>7, <2>2
  <2>3. CASE showing.buffer = b
    BY ONLY <1>1, <1>6, <1>7, <2>3
  <2>4. CASE queued # {}
    <3>1. PICK i : queued = {i}
      BY ONLY <1>3, <2>4
    <3>2. Owners(b) = {<<"queue", i>>}
      BY ONLY <1>1, <1>6, <1>7, <2>4, <3>1
    <3> QED BY <3>2
  <2>5. CASE drawing # {}
    <3>1. PICK t : drawing = {t}
      BY ONLY <1>5, <2>5
    <3>2. Owners(b) = {<<"drawing", t>>}
      BY ONLY <1>1, <1>6, <1>7, <2>5, <3>1
    <3> QED BY <3>2
  <2> QED BY <1>6, <2>1, <2>2, <2>3, <2>4, <2>5
<1> QED BY ONLY <1>8, FS_Singleton

\* render_get_framebuffer, release_buffer and the two ends of frame_queue hand
\* every framebuffer on to exactly one owner, and as many are allocated as can
\* be in use, whichever frames are replaced and whichever machine is loaded.
THEOREM BuffersHaveOneOwner ==
  ASSUME OneDraws
  PROVE  Spec => []BuffersOwned
<1>1. OneDraws
  OBVIOUS
<1>2. QueueInv /\ OwnInv /\ [Next]_vars => QueueInv' /\ OwnInv'
  BY <1>1, QueueStep, OwnStep
<1>3. QueueInv /\ OwnInv => BuffersOwned
  BY <1>1, OwnedOnce DEF BuffersOwned, OwnInv
<1> QED BY QueueInit, OwnInit, <1>2, <1>3, PTL DEF Spec
=============================================================================
