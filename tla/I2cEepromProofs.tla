-------------------------- MODULE I2cEepromProofs --------------------------
(***************************************************************************)
(* The EEPROM and the game that drives it, for bytes of any number of      *)
(* bits, every size and address format, and requests of any length that    *)
(* may be interrupted: the buffer is never indexed past its end            *)
(* (IndexInBounds), and the bit machine is a memory (EepromIsAMemory).     *)
(* What has to be shown is what the bits of a request add up to: after     *)
(* each access, how much of the byte on its way is in the latch, and what  *)
(* the bytes before it have made of state and address.                     *)
(***************************************************************************)
EXTENDS I2cEeprom, FiniteSetTheorems, FunctionTheorems, WellFoundedInduction, TLAPS

\* No state is loaded that was saved within the same request.
Unexposed == "load_in_request" \notin Exposed

\* A game that was interrupted is not interrupted again between the first rise
\* of the clock and the start condition, two accesses of one request.
OneInterruption == MaxResets <= 1

-----------------------------------------------------------------------------
(* Where the bit machine is, for each point of a request.                      *)

\* The request has got through: its first start condition has been made.
Through == request # NoRequest /\ ~(stage = "start" /\ step < 3)

ByteStages == {"device", "high", "low", "device_again", "data"}

\* Clock pulses of the byte on its way, and its first k bits.
Risen == (step + 1) \div 3
Top(v, k) == v \div 2^(Bits - k)
BitOf(v, k) == Top(v, k) % 2

\* What is left in the latch when f bits of a byte have gone out.
Left(v, f) == (v % 2^(Bits - f)) * 2^f

\* Where the next byte of data goes, where the last one went, and the part of
\* the address that comes before the last byte of it.
Here == (request.addr + request.done) % size
Last == (request.addr + (request.done - 1)) % size
Hi == (request.addr \div ByteSize) * ByteSize

StepsOK ==
  /\ request = NoRequest => stage = "start" /\ step = 0
  /\ stage \in {"start", "restart"} => step < 4
  /\ stage = "stop" => step < 3
  /\ stage \in ByteStages => step < 3 * Bits + 3

\* Stages come in requests that have them, and data goes through in one of them.
RouteOK ==
  request # NoRequest =>
    /\ stage = "high" => ~Short /\ size >= WordFrom
    /\ stage = "low" => ~Short
    /\ stage \in {"restart", "device_again"} => ~Short /\ request.op = "read"
    /\ stage \notin {"data", "stop", "made"} => request.done = 0
    /\ stage = "data" => IF step < 3 * Bits - 1 THEN request.done < Len(request.data)
                         ELSE request.done > 0
    /\ stage \in {"stop", "made"} => request.done = Len(request.data)

\* The two lines are where the last access put them.
LinesOK ==
  request # NoRequest =>
    /\ stage \in ByteStages =>
         /\ scl = IF step % 3 = 2 THEN 1 ELSE 0
         /\ step % 3 # 0 => host_sda = BitOut(step \div 3 + 1)
    /\ stage \in {"start", "restart"} =>
         /\ step = 1 => scl = 0 /\ host_sda = 1
         /\ step = 2 => scl = 1 /\ host_sda = 1
         /\ step = 3 => scl = 1 /\ host_sda = 0
    /\ stage = "restart" /\ step = 0 => scl = 0
    /\ stage = "stop" =>
         /\ step < 2 => scl = 0
         /\ step > 0 => host_sda = 0
         /\ step = 2 => scl = 1

\* A byte comes in.
ComesIn(in, ack, v) ==
  /\ Risen < Bits => state = in /\ counter = Bits - Risen /\ latch % 2^Risen = Top(v, Risen)
  /\ Risen = Bits => state = ack /\ latch = v

Writable == state = "write" /\ counter = Bits /\ address = Here
Readable == state = "read" /\ counter = Bits /\ address = Here /\ latch = buffer[Here]
Expects(next) == state = next /\ counter = Bits

DeviceOK ==
  stage = "device" =>
    /\ ComesIn("start", "device_ack", Sent)
    /\ Risen > Bits =>
         IF Short THEN IF request.op = "write" THEN Writable ELSE Readable
         ELSE IF size < WordFrom THEN Expects("address") /\ address = Hi
         ELSE Expects("address_hi")

HighOK ==
  stage = "high" =>
    /\ ComesIn("address_hi", "address_hi_ack", Sent)
    /\ Risen >= Bits => address = Hi
    /\ Risen > Bits => Expects("address")

LowOK ==
  stage = "low" =>
    /\ ComesIn("address", "address_ack", Sent)
    /\ Risen < Bits => address = Hi
    /\ Risen = Bits => address = request.addr
    /\ Risen > Bits => Writable

RestartOK ==
  /\ stage = "restart" =>
       /\ address = Here
       /\ state = IF step < 3 THEN "write" ELSE "start"
       /\ counter = IF step = 2 THEN Bits - 1 ELSE Bits
  /\ stage = "device_again" =>
       /\ address = Here
       /\ ComesIn("start", "device_ack", Sent)
       /\ Risen > Bits => Readable

WriteOK ==
  stage = "data" /\ request.op = "write" =>
    /\ ComesIn("write", "write_ack", Sent)
    /\ Risen < Bits => address = Here
    /\ Risen = Bits => address = Last
    /\ Risen > Bits => Writable

ReadOK ==
  stage = "data" /\ request.op = "read" =>
    /\ Risen < Bits =>
         /\ state = "read" /\ counter = Bits - Risen /\ address = Here
         /\ sampled = Top(buffer[Here], Risen)
         /\ slave_sda = BitOf(buffer[Here], step \div 3 + 1)
         /\ latch = Left(buffer[Here], step \div 3 + 1)
    /\ Risen = Bits => state = "read_ack" /\ address = Last
    /\ Risen > Bits => Readable

EndOK ==
  /\ stage = "start" => Expects("start")
  /\ stage = "stop" =>
       /\ state \in {"read", "write"} /\ address < size
       /\ counter = IF step = 2 THEN Bits - 1 ELSE Bits
  /\ stage = "made" => state = "idle"

SampledOK ==
  request # NoRequest /\ (~Receiving \/ Risen >= Bits) => sampled = 0

ThroughOK ==
  Through =>
    /\ at_risk = Nowhere /\ resets = 0
    /\ DeviceOK /\ HighOK /\ LowOK /\ RestartOK /\ WriteOK /\ ReadOK /\ EndOK

\* The clock may rise without harm: no byte comes in at once that was not begun,
\* and no byte is taken from beyond the end.
CanRise ==
  /\ state \in {"start", "address_hi", "address", "write", "read"} => counter > 0
  /\ state \in {"read", "read_ack", "write", "write_ack"} => address < size
  /\ state = "device_ack" /\ latch % 2 = 1 => Short \/ address < size

\* Until the request gets through, the EEPROM idles, or, after an interruption,
\* is anywhere: the clock rises once more before the start condition.
BeforeRise ==
  /\ CanRise
  /\ state = "write" /\ counter = 1 => at_risk = address

AfterRise == state \in {"read", "read_ack", "write", "write_ack"} => address < size

UnsettledOK ==
  ~Through =>
    /\ resets = 0 => state = "idle"
    /\ resets > 0 => IF step < 2 THEN BeforeRise ELSE AfterRise

IInv ==
  /\ TypeOK /\ StepsOK /\ RouteOK /\ LinesOK /\ SampledOK /\ ThroughOK /\ UnsettledOK

-----------------------------------------------------------------------------
(* Numbers: powers of two, quotients and remainders.                           *)

LEMMA PowerIs ==
  ASSUME NEW n \in Nat
  PROVE  /\ IsFiniteSet(SUBSET (1..n)) /\ Cardinality(SUBSET (1..n)) = 2^n /\ 2^n \in Nat
<1>1. IsFiniteSet(1..n) /\ Cardinality(1..n) = n
  BY FS_Interval
<1>2. IsFiniteSet(SUBSET (1..n)) /\ Cardinality(SUBSET (1..n)) = 2^Cardinality(1..n)
  BY <1>1, FS_SUBSET
<1>3. Cardinality(SUBSET (1..n)) \in Nat
  BY <1>2, FS_CardinalityType
<1>4. Cardinality(SUBSET (1..n)) = 2^n
  BY ONLY <1>1, <1>2, Zenon
<1> QED BY <1>2, <1>3, <1>4

\* Adding an element to a set doubles its subsets.
LEMMA PowerGrows ==
  ASSUME NEW n \in Nat
  PROVE  2^(n + 1) = 2 * 2^n
<1> DEFINE A == SUBSET (1..n)
           B == {T \cup {n + 1} : T \in A}
<1>1. IsFiniteSet(A) /\ Cardinality(A) = 2^n /\ 2^n \in Nat
  BY PowerIs
<1>2. SUBSET (1..(n + 1)) = A \cup B
  <2>1. 1..(n + 1) = (1..n) \cup {n + 1}
    OBVIOUS
  <2>2. ASSUME NEW T \in SUBSET (1..(n + 1)) PROVE T \in A \cup B
    <3>1. CASE n + 1 \in T
      <4>1. T \ {n + 1} \in A /\ T = (T \ {n + 1}) \cup {n + 1}
        BY <2>1, <3>1
      <4> QED BY <4>1, Zenon
    <3>2. CASE n + 1 \notin T
      BY <2>1, <3>2
    <3> QED BY <3>1, <3>2
  <2>3. A \cup B \subseteq SUBSET (1..(n + 1))
    BY <2>1
  <2> QED BY <2>2, <2>3
<1>3. A \cap B = {}
  <2>1. n + 1 \notin 1..n
    OBVIOUS
  <2> QED BY <2>1
<1>4. IsFiniteSet(B) /\ Cardinality(B) = Cardinality(A)
  <2> DEFINE f == [T \in A |-> T \cup {n + 1}]
  <2>0. n + 1 \notin 1..n
    OBVIOUS
  <2>1. f \in Bijection(A, B)
    <3>1. f \in [A -> B]
      OBVIOUS
    <3>2. ASSUME NEW T \in A, NEW U \in A, f[T] = f[U] PROVE T = U
      <4>1. T \cup {n + 1} = U \cup {n + 1}
        BY <3>2
      <4>2. n + 1 \notin T /\ n + 1 \notin U
        BY <2>0
      <4> QED BY ONLY <4>1, <4>2
    <3>3. \A b \in B : \E T \in A : f[T] = b
      OBVIOUS
    <3> HIDE DEF f
    <3> QED BY <3>1, <3>2, <3>3 DEF Bijection, Injection, Surjection, IsInjective
  <2> HIDE DEF f, A, B
  <2>2. ExistsBijection(A, B)
    BY <2>1 DEF ExistsBijection
  <2> QED BY <1>1, <2>2, FS_Bijection
<1>5. Cardinality(A \cup B) = Cardinality(A) + Cardinality(B)
  <2> HIDE DEF A, B
  <2>1. Cardinality(A \cap B) = 0
    BY <1>3, FS_EmptySet
  <2>2. Cardinality(A \cup B) = Cardinality(A) + Cardinality(B) - Cardinality(A \cap B)
    BY <1>1, <1>4, FS_Union
  <2> QED BY <1>1, <1>4, <2>1, <2>2
<1>6. Cardinality(SUBSET (1..(n + 1))) = 2^(n + 1)
  BY PowerIs
<1>7. Cardinality(A \cup B) = 2^(n + 1)
  BY ONLY <1>2, <1>6, Zenon
<1>8. Cardinality(A) + Cardinality(B) = 2 * 2^n
  <2> HIDE DEF A, B
  <2> QED BY ONLY <1>1, <1>4
<1> QED BY ONLY <1>5, <1>7, <1>8, Zenon

LEMMA DivisionOf ==
  \A n \in Nat, d \in Nat \ {0} :
    /\ n \div d \in Nat /\ n % d \in 0..(d - 1) /\ n = (n \div d) * d + (n % d)
<1> TAKE n \in Nat, d \in Nat \ {0}
<1>1. n % d \in 0..(d - 1)
  OBVIOUS
<1>2. n = d * (n \div d) + (n % d)
  OBVIOUS
<1>3. n \div d \in Int
  OBVIOUS
<1>4. n \div d >= 0
  OBVIOUS
<1>5. d * (n \div d) = (n \div d) * d
  BY <1>3
<1> QED BY <1>1, <1>2, <1>3, <1>4, <1>5

LEMMA LessBy ==
  ASSUME NEW a \in Nat, NEW b \in Nat, NEW d \in Nat, a < b
  PROVE  a * d + d <= b * d
<1>1. PICK k \in Nat : b = a + 1 + k
  <2>1. b - a - 1 \in Nat /\ b = a + 1 + (b - a - 1)
    OBVIOUS
  <2> QED BY <2>1
<1>2. b * d = a * d + d + k * d
  BY <1>1
<1>3. k * d \in Nat /\ a * d \in Nat
  OBVIOUS
<1> QED BY <1>2, <1>3

\* A quotient and a remainder are the only ones.
LEMMA DivisionIs ==
  ASSUME NEW n \in Nat, NEW d \in Nat \ {0}, NEW q \in Nat, NEW r \in 0..(d - 1), n = q * d + r
  PROVE  n \div d = q /\ n % d = r
<1> DEFINE p == n \div d
           s == n % d
<1>1. p \in Nat /\ s \in 0..(d - 1) /\ n = p * d + s
  BY DivisionOf
<1> HIDE DEF p, s
<1>2. ~(p < q)
  <2> SUFFICES ASSUME p < q PROVE FALSE
    OBVIOUS
  <2>1. p * d + d <= q * d
    BY <1>1, LessBy
  <2>2. p * d \in Nat /\ q * d \in Nat
    BY <1>1
  <2> QED BY <1>1, <2>1, <2>2
<1>3. ~(q < p)
  <2> SUFFICES ASSUME q < p PROVE FALSE
    OBVIOUS
  <2>1. q * d + d <= p * d
    BY <1>1, LessBy
  <2>2. p * d \in Nat /\ q * d \in Nat
    BY <1>1
  <2> QED BY <1>1, <2>1, <2>2
<1>4. p = q
  BY <1>1, <1>2, <1>3
<1>5. s = r
  <2>1. p * d = q * d /\ p * d \in Nat
    BY <1>1, <1>4
  <2> QED BY <1>1, <2>1
<1> QED BY <1>4, <1>5 DEF p, s

\* The bits of a number above those it has in its lower half.
LEMMA HalvesOf ==
  ASSUME NEW n \in Nat, NEW h \in Nat \ {0}
  PROVE  /\ n \div h = 2 * (n \div (2 * h)) + ((n \div h) % 2)
         /\ n % (2 * h) = ((n \div h) % 2) * h + (n % h)
<1>1. n \div h \in Nat /\ n % h \in 0..(h - 1) /\ n = (n \div h) * h + (n % h)
  BY DivisionOf
<1>2. PICK q \in Nat, b \in {0, 1} : n \div h = 2 * q + b /\ (n \div h) % 2 = b
  <2>1. (n \div h) \div 2 \in Nat /\ (n \div h) % 2 \in {0, 1}
        /\ n \div h = 2 * ((n \div h) \div 2) + ((n \div h) % 2)
    BY <1>1
  <2> QED BY <2>1
<1>3. n = q * (2 * h) + (b * h + (n % h))
  <2>1. (2 * q + b) * h = q * (2 * h) + b * h
    OBVIOUS
  <2>2. n = (2 * q + b) * h + (n % h)
    BY ONLY <1>1, <1>2, Zenon
  <2>3. q * (2 * h) \in Nat /\ b * h \in Nat /\ n % h \in Nat
    BY <1>1
  <2> QED BY ONLY <2>1, <2>2, <2>3
<1>4. b * h + (n % h) \in 0..(2 * h - 1)
  <2>1. b * h = 0 \/ b * h = h
    OBVIOUS
  <2> QED BY <1>1, <2>1
<1>5. n \div (2 * h) = q /\ n % (2 * h) = b * h + (n % h)
  <2>1. 2 * h \in Nat \ {0}
    OBVIOUS
  <2> DEFINE r == b * h + (n % h)
             d == 2 * h
  <2>2. r \in 0..(d - 1) /\ d \in Nat \ {0} /\ n = q * d + r
    BY <1>3, <1>4, <2>1
  <2> HIDE DEF r, d
  <2>3. n \div d = q /\ n % d = r
    BY <2>2, DivisionIs
  <2> QED BY <2>3 DEF r, d
<1> QED BY <1>2, <1>5

LEMMA RemainderOfRemainder ==
  ASSUME NEW n \in Nat, NEW a \in Nat \ {0}, NEW h \in Nat \ {0}
  PROVE  (n % (h * a)) % a = n % a
<1> DEFINE m == h * a
<1>1. m \in Nat \ {0}
  <2>1. h * a >= a
    BY LessBy, 0 < h
  <2> QED BY <2>1
<1>2. PICK q \in Nat, r \in 0..(m - 1) : n = q * m + r /\ n % m = r
  <2> HIDE DEF m
  <2> QED BY <1>1, DivisionOf
<1>3. PICK p \in Nat, s \in 0..(a - 1) : r = p * a + s /\ r % a = s
  <2> HIDE DEF m
  <2>1. r \in Nat
    BY <1>1
  <2> QED BY <2>1, DivisionOf
<1>4. n = (q * h + p) * a + s
  <2>1. q * (h * a) + (p * a + s) = (q * h + p) * a + s
    OBVIOUS
  <2> QED BY ONLY <1>2, <1>3, <2>1
<1>5. q * h + p \in Nat
  OBVIOUS
<1>6. n % a = s
  BY <1>4, <1>5, DivisionIs
<1> QED BY <1>2, <1>3, <1>6

\* 2^n is positive, and a power splits as its exponent does: else, take the
\* least exponent for which it does not.
LEMMA PowerType ==
  \A n \in Nat : 2^n \in Nat \ {0}
<1> TAKE n \in Nat
<1>1. IsFiniteSet(SUBSET (1..n)) /\ Cardinality(SUBSET (1..n)) = 2^n /\ 2^n \in Nat
  BY PowerIs
<1>2. SUBSET (1..n) # {}
  OBVIOUS
<1>3. Cardinality(SUBSET (1..n)) # 0
  BY <1>1, <1>2, FS_EmptySet
<1> QED BY ONLY <1>1, <1>3

LEMMA PowerZero == 2^0 = 1
<1>1. Cardinality(SUBSET (1..0)) = 2^0
  BY PowerIs
<1>2. SUBSET (1..0) = {{}}
  OBVIOUS
<1> QED BY <1>1, <1>2, FS_Singleton

\* One more bit of a number: those from the k-th on of a number of bits bits.
LEMMA TopGrows ==
  ASSUME NEW bits \in Nat, NEW k \in Nat, k < bits, NEW v \in Nat
  PROVE  v \div 2^(bits - (k + 1))
           = 2 * (v \div 2^(bits - k)) + ((v \div 2^(bits - (k + 1))) % 2)
<1> DEFINE e == bits - (k + 1)
<1>1. e \in Nat /\ bits - k = e + 1
  OBVIOUS
<1> HIDE DEF e
<1>2. 2^e \in Nat \ {0} /\ 2^(e + 1) = 2 * 2^e
  BY <1>1, PowerType, PowerGrows
<1>3. PICK h \in Nat \ {0} : h = 2^e
  BY <1>2
<1>4. v \div h = 2 * (v \div (2 * h)) + ((v \div h) % 2)
  BY HalvesOf
<1>5. 2^(bits - k) = 2 * h
  BY ONLY <1>1, <1>2, <1>3, Zenon
<1> QED BY ONLY <1>3, <1>4, <1>5, Zenon DEF e

\* A set of naturals has a least element.
LEMMA LeastOfNaturals ==
  ASSUME NEW S \in SUBSET Nat, S # {}
  PROVE  \E x \in S : \A y \in S : x <= y
<1> DEFINE R == OpToRel(<, Nat)
<1>1. \A x, y \in Nat : <<x, y>> \in R <=> x < y
  <2>1. R = {p \in Nat \X Nat : p[1] < p[2]}
    BY DEF OpToRel
  <2> QED BY <2>1
<1>2. IsWellFoundedOn(R, Nat)
  BY NatLessThanWellFounded
<1> HIDE DEF R
<1>3. PICK x \in S : \A y \in S : ~(<<y, x>> \in R)
  BY <1>2, WFMin
<1>4. \A y \in S : ~(y < x)
  BY <1>1, <1>3, Zenon
<1> QED BY ONLY <1>4, S \subseteq Nat, x \in S

\* A power splits as its exponent does: else, take the least second part of an
\* exponent for which it does not.
LEMMA PowerSplits ==
  ASSUME NEW m \in Nat
  PROVE  \A n \in Nat : 2^(m + n) = 2^m * 2^n
<1> DEFINE S == {n \in Nat : 2^(m + n) # 2^m * 2^n}
<1> SUFFICES ASSUME S # {} PROVE FALSE
  OBVIOUS
<1>1. PICK n \in S : \A k \in S : n <= k
  BY LeastOfNaturals
<1>2. CASE n = 0
  <2>1. 2^m \in Nat /\ 2^0 = 1 /\ m + n = m
    BY <1>2, PowerType, PowerZero
  <2>2. 2^(m + n) = 2^m * 1
    BY ONLY <1>2, <2>1, m \in Nat
  <2> QED BY <1>1, <1>2, <2>1, <2>2
<1>3. CASE n # 0
  <2>1. n - 1 \in Nat /\ n - 1 \notin S
    BY <1>1, <1>3
  <2>2. PICK k \in Nat : k = n - 1
    BY <2>1
  <2>3. 2^(m + k) = 2^m * 2^k
    BY <2>1, <2>2
  <2>4. 2^((m + k) + 1) = 2 * 2^(m + k) /\ 2^(k + 1) = 2 * 2^k
    BY PowerGrows
  <2>5. (m + k) + 1 = m + n /\ k + 1 = n
    BY <1>1, <2>2
  <2>6. PICK a, b \in Nat : a = 2^m /\ b = 2^k
    BY PowerType
  <2>7. 2^(m + n) = 2 * (a * b) /\ 2^n = 2 * b
    BY ONLY <2>3, <2>4, <2>5, <2>6, Zenon
  <2>8. 2 * (a * b) = a * (2 * b)
    OBVIOUS
  <2>9. 2^(m + n) = 2^m * 2^n
    BY ONLY <2>6, <2>7, <2>8, Zenon
  <2> QED BY <1>1, <2>9
<1> QED BY <1>2, <1>3

LEMMA SplitPower ==
  \A n \in Nat : \A k \in 0..n : 2^n = 2^(n - k) * 2^k
<1> TAKE n \in Nat
<1> TAKE k \in 0..n
<1>1. n - k \in Nat /\ k \in Nat /\ (n - k) + k = n
  OBVIOUS
<1>2. 2^((n - k) + k) = 2^(n - k) * 2^k
  BY ONLY <1>1, PowerSplits
<1> QED BY ONLY <1>1, <1>2, Zenon
-----------------------------------------------------------------------------
\* The latch as a byte comes in: its last k bits are the first k of the byte.
LEMMA LatchIn ==
  ASSUME NEW bits \in Nat, NEW k \in Nat, k < bits, NEW v \in Nat, NEW latched \in Nat,
         latched % 2^k = v \div 2^(bits - k)
  PROVE  ((2 * latched + ((v \div 2^(bits - (k + 1))) % 2)) % 2^bits) % 2^(k + 1)
           = v \div 2^(bits - (k + 1))
<1>1. PICK h \in Nat \ {0}, a \in Nat \ {0}, c \in Nat \ {0} :
        h = 2^(bits - (k + 1)) /\ a = 2^(k + 1) /\ c = 2^k
  <2>1. bits - (k + 1) \in Nat /\ k + 1 \in Nat
    OBVIOUS
  <2> QED BY <2>1, PowerType
<1>2. 2^bits = h * a /\ a = 2 * c
  <2>1. k + 1 \in 0..bits
    OBVIOUS
  <2>2. 2^bits = 2^(bits - (k + 1)) * 2^(k + 1)
    BY <2>1, SplitPower
  <2>3. 2^(k + 1) = 2 * 2^k
    BY PowerGrows
  <2> QED BY ONLY <1>1, <2>2, <2>3, Zenon
<1>3. PICK b \in {0, 1}, t \in Nat : b = (v \div h) % 2 /\ t = v \div 2^(bits - k) /\ v \div h = 2 * t + b
  <2>1. v \div h = 2 * (v \div 2^(bits - k)) + ((v \div h) % 2)
    <3>1. v \div 2^(bits - (k + 1))
           = 2 * (v \div 2^(bits - k)) + ((v \div 2^(bits - (k + 1))) % 2)
      BY TopGrows
    <3> QED BY ONLY <1>1, <3>1, Zenon
  <2>2. v \div h \in Nat
    BY DivisionOf
  <2>3. (v \div h) % 2 \in {0, 1}
    BY <2>2
  <2>4. v \div 2^(bits - k) \in Nat
    <3>1. 2^(bits - k) \in Nat \ {0}
      <4>1. bits - k \in Nat
        OBVIOUS
      <4> QED BY <4>1, PowerType
    <3> QED BY <3>1, DivisionOf
  <2> QED BY <2>1, <2>3, <2>4
<1>4. PICK n \in Nat : n = 2 * latched + b
  OBVIOUS
<1>5. (n % (h * a)) % a = n % a
  BY RemainderOfRemainder
<1>6. n % a = 2 * t + b
  <2>1. latched % c = t
    BY ONLY <1>1, <1>3, latched % 2^k = v \div 2^(bits - k), Zenon
  <2>2. latched \div c \in Nat /\ t \in 0..(c - 1) /\ latched = (latched \div c) * c + t
    BY <2>1, DivisionOf
  <2>3. PICK q \in Nat : q = latched \div c
    BY <2>2
  <2>4. n = q * (2 * c) + (2 * t + b)
    <3>1. 2 * (q * c + t) + b = q * (2 * c) + (2 * t + b)
      OBVIOUS
    <3>2. latched = q * c + t
      BY ONLY <2>2, <2>3, Zenon
    <3> QED BY ONLY <1>4, <3>1, <3>2, Zenon
  <2>5. 2 * t + b \in 0..(2 * c - 1)
    BY <2>2
  <2>6. n = q * a + (2 * t + b) /\ 2 * t + b \in 0..(a - 1)
    BY ONLY <1>2, <2>4, <2>5, Zenon
  <2> QED BY <2>6, DivisionIs
<1>7. (n % 2^bits) % 2^(k + 1) = v \div h
  BY ONLY <1>1, <1>2, <1>3, <1>5, <1>6, Zenon
<1>8. n = 2 * latched + ((v \div 2^(bits - (k + 1))) % 2)
  BY ONLY <1>1, <1>3, <1>4, Zenon
<1> QED BY ONLY <1>1, <1>7, <1>8, Zenon

\* The latch as a byte goes out: after f bits, the rest of them, and the next
\* one on top.
LEMMA LatchOut ==
  ASSUME NEW bits \in Nat, NEW f \in Nat, f < bits, NEW v \in Nat, NEW latched \in Nat,
         latched = (v % 2^(bits - f)) * 2^f
  PROVE  /\ latched \div 2^(bits - 1) = (v \div 2^(bits - (f + 1))) % 2
         /\ (2 * latched) % 2^bits = (v % 2^(bits - (f + 1))) * 2^(f + 1)
<1>0. bits - (f + 1) \in Nat /\ f + 1 \in Nat /\ f + 1 \in 0..bits /\ bits - 1 \in Nat
      /\ bits - f = (bits - (f + 1)) + 1 /\ (bits - (f + 1)) + f = bits - 1
  OBVIOUS
<1>1. PICK h \in Nat \ {0}, c \in Nat \ {0} : h = 2^(bits - (f + 1)) /\ c = 2^f
  BY <1>0, PowerType
<1>2. 2^(bits - f) = 2 * h /\ 2^(f + 1) = 2 * c /\ 2^(bits - 1) = h * c /\ 2^bits = h * (2 * c)
  <2>1. 2^((bits - (f + 1)) + 1) = 2 * 2^(bits - (f + 1))
    BY <1>0, PowerGrows
  <2>2. 2^(f + 1) = 2 * 2^f
    BY PowerGrows
  <2>3. 2^((bits - (f + 1)) + f) = 2^(bits - (f + 1)) * 2^f
    BY <1>0, PowerSplits
  <2>4. 2^bits = 2^(bits - (f + 1)) * 2^(f + 1)
    BY <1>0, SplitPower
  <2>5. 2^(bits - f) = 2 * 2^(bits - (f + 1))
    BY ONLY <1>0, <2>1, Zenon
  <2>6. 2^(bits - 1) = 2^(bits - (f + 1)) * 2^f
    BY ONLY <1>0, <2>3, Zenon
  <2> QED BY ONLY <1>1, <2>2, <2>4, <2>5, <2>6, Zenon
<1>3. PICK b \in {0, 1}, r \in 0..(h - 1) : b = (v \div h) % 2 /\ r = v % h /\ v % (2 * h) = b * h + r
  <2>1. v \div h \in Nat /\ v % h \in 0..(h - 1)
    BY DivisionOf
  <2>2. (v \div h) % 2 \in {0, 1}
    BY <2>1
  <2>3. v % (2 * h) = ((v \div h) % 2) * h + (v % h)
    BY HalvesOf
  <2> QED BY <2>1, <2>2, <2>3
<1>4. latched = (b * h + r) * c
  BY ONLY <1>1, <1>2, <1>3, latched = (v % 2^(bits - f)) * 2^f, Zenon
<1>5. r * c \in 0..(h * c - 1) /\ h * c \in Nat \ {0} /\ r * (2 * c) \in 0..(h * (2 * c) - 1)
      /\ h * (2 * c) \in Nat \ {0}
  <2>1. r * c \in Nat /\ h * c \in Nat /\ h * (2 * c) = 2 * (h * c) /\ r * (2 * c) = 2 * (r * c)
    OBVIOUS
  <2>2. r * c + c <= h * c
    BY LessBy
  <2> QED BY <2>1, <2>2
<1>6. latched = b * (h * c) + r * c
  BY <1>4
<1>7. latched \div (h * c) = b
  <2>1. PICK d \in Nat \ {0} : d = h * c
    BY <1>5
  <2>2. PICK s \in 0..(d - 1) : s = r * c
    BY <1>5, <2>1
  <2>3. latched = b * d + s
    BY ONLY <1>6, <2>1, <2>2, Zenon
  <2>4. latched \div d = b
    BY <2>3, DivisionIs
  <2> QED BY ONLY <2>1, <2>4, Zenon
<1>8. (2 * latched) % (h * (2 * c)) = r * (2 * c)
  <2>1. PICK d \in Nat \ {0} : d = h * (2 * c)
    BY <1>5
  <2>2. PICK s \in 0..(d - 1) : s = r * (2 * c)
    BY <1>5, <2>1
  <2>3. 2 * latched = b * d + s
    <3>1. 2 * ((b * h + r) * c) = b * (h * (2 * c)) + r * (2 * c)
      OBVIOUS
    <3> QED BY ONLY <1>4, <2>1, <2>2, <3>1, Zenon
  <2>4. (2 * latched) % d = s
    <3>1. 2 * latched \in Nat
      OBVIOUS
    <3> QED BY <2>3, <3>1, DivisionIs
  <2> QED BY ONLY <2>1, <2>2, <2>4, Zenon
<1> QED BY ONLY <1>1, <1>2, <1>3, <1>7, <1>8, Zenon

-----------------------------------------------------------------------------
(* What an access does to the EEPROM, by the edge it makes.                    *)

Still == UNCHANGED <<buffer, state, counter, latch, address>>

LEMMA Moves ==
  ASSUME MakeAccess, NEW w, w = Written(Wire, Lines)
  PROVE  /\ buffer' = w.buffer /\ state' = w.state /\ counter' = w.counter
         /\ latch' = w.latch /\ address' = w.address
         /\ host_sda' = w.host_sda /\ slave_sda' = w.slave_sda /\ scl' = w.scl
BY DEF MakeAccess

LEMMA Risks ==
  ASSUME MakeAccess
  PROVE  /\ at_risk' = IF scl = 1 /\ Lines.scl = 1 /\ Lines.sda < host_sda THEN Nowhere ELSE at_risk
         /\ resets' = IF scl = 1 /\ Lines.scl = 1 /\ Lines.sda < host_sda THEN 0 ELSE resets
BY DEF MakeAccess

LEMMA SetUp ==
  ASSUME MakeAccess, scl = 0, Lines.scl = 0
  PROVE  Still /\ scl' = 0 /\ host_sda' = Lines.sda /\ UNCHANGED slave_sda
<1>1. Written(Wire, Lines) = [Wire EXCEPT !.scl = 0, !.host_sda = Lines.sda]
  BY DEF Written, set_host_sda, set_scl, Wire
<1>2. Wire.scl = 0
  BY DEF Wire
<1> QED BY <1>1, <1>2 DEF MakeAccess, Wire, Still

\* The clock falls: what SDA does then is neither a start nor a stop.
LEMMA Falls ==
  ASSUME MakeAccess, scl = 1, Lines.scl = 0,
         NEW l, NEW s, SclFalls(Wire) = [Wire EXCEPT !.slave_sda = s, !.latch = l]
  PROVE  /\ UNCHANGED <<buffer, state, counter, address>> /\ latch' = l /\ slave_sda' = s
         /\ scl' = 0 /\ host_sda' = Lines.sda
<1>1. set_scl(Wire, 0) = [Wire EXCEPT !.slave_sda = s, !.latch = l, !.scl = 0]
  <2>1. Wire.scl = 1
    BY DEF Wire
  <2>2. set_scl(Wire, 0) = [SclFalls(Wire) EXCEPT !.scl = 0]
    BY <2>1 DEF set_scl
  <2> QED BY <2>2 DEF Wire
<1>2. PICK w : w = [Wire EXCEPT !.slave_sda = s, !.latch = l, !.scl = 0]
  OBVIOUS
<1>3. w.scl = 0
  BY <1>2 DEF Wire
<1>4. Written(Wire, Lines) = [w EXCEPT !.host_sda = Lines.sda]
  <2>1. Written(Wire, Lines) = set_host_sda(w, Lines.sda)
    BY <1>1, <1>2 DEF Written
  <2>2. ~(w.scl = 1)
    BY <1>3
  <2>3. set_host_sda(w, Lines.sda) = [w EXCEPT !.host_sda = Lines.sda]
    BY ONLY <2>2 DEF set_host_sda
  <2> QED BY <2>1, <2>3
<1>5. PICK v : v = Written(Wire, Lines)
  OBVIOUS
<1>6. v = [Wire EXCEPT !.slave_sda = s, !.latch = l, !.scl = 0, !.host_sda = Lines.sda]
  BY <1>2, <1>4, <1>5 DEF Wire
<1>7. /\ v.buffer = buffer /\ v.state = state /\ v.counter = counter /\ v.address = address
      /\ v.latch = l /\ v.slave_sda = s /\ v.scl = 0 /\ v.host_sda = Lines.sda
  BY ONLY <1>6 DEF Wire
<1> QED BY <1>5, <1>7, Moves

LEMMA FallAcks ==
  ASSUME MakeAccess, scl = 1, Lines.scl = 0, state \in Acks
  PROVE  Still /\ scl' = 0 /\ host_sda' = Lines.sda /\ slave_sda' = 0
<1>1. SclFalls(Wire) = [Wire EXCEPT !.slave_sda = 0]
  <2>1. Wire.state \in Acks /\ Wire.state # "read"
    BY DEF Wire, Acks
  <2> QED BY <2>1 DEF SclFalls
<1>2. PICK l : l = latch
  OBVIOUS
<1>3. SclFalls(Wire) = [Wire EXCEPT !.slave_sda = 0, !.latch = l]
  BY <1>1, <1>2 DEF Wire
<1> QED BY <1>2, <1>3, Falls DEF Still

LEMMA FallRead ==
  ASSUME MakeAccess, scl = 1, Lines.scl = 0, state = "read"
  PROVE  /\ UNCHANGED <<buffer, state, counter, address>> /\ scl' = 0 /\ host_sda' = Lines.sda
         /\ slave_sda' = latch \div 2^(Bits - 1) /\ latch' = (2 * latch) % 2^Bits
<1>1. PICK s, l : s = latch \div 2^(Bits - 1) /\ l = (2 * latch) % 2^Bits
  OBVIOUS
<1>2. SclFalls(Wire) = [Wire EXCEPT !.slave_sda = s, !.latch = l]
  <2>1. Wire.state = "read" /\ Wire.state \notin Acks /\ Wire.latch = latch
    BY DEF Wire, Acks
  <2> QED BY <1>1, <2>1 DEF SclFalls, ByteSize
<1> QED BY <1>1, <1>2, Falls

LEMMA FallElse ==
  ASSUME MakeAccess, scl = 1, Lines.scl = 0, state \notin Acks, state # "read"
  PROVE  Still /\ scl' = 0 /\ host_sda' = Lines.sda /\ slave_sda' = 1
<1>1. SclFalls(Wire) = [Wire EXCEPT !.slave_sda = 1]
  <2>1. Wire.state \notin Acks /\ Wire.state # "read"
    BY DEF Wire
  <2> QED BY <2>1 DEF SclFalls
<1>2. PICK l : l = latch
  OBVIOUS
<1>3. SclFalls(Wire) = [Wire EXCEPT !.slave_sda = 1, !.latch = l]
  BY <1>1, <1>2 DEF Wire
<1> QED BY <1>2, <1>3, Falls DEF Still

LEMMA StartEdge ==
  ASSUME MakeAccess, scl = 1, Lines.scl = 1, host_sda = 1, Lines.sda = 0
  PROVE  /\ UNCHANGED <<buffer, latch, address>> /\ state' = "start" /\ counter' = Bits
         /\ scl' = 1 /\ host_sda' = 0 /\ slave_sda' = 1 /\ at_risk' = Nowhere /\ resets' = 0
<1>1. set_scl(Wire, 1) = Wire
  BY DEF set_scl, Wire
<1>2. set_host_sda(Wire, 0) = [Wire EXCEPT !.state = "start", !.slave_sda = 1, !.counter = Bits, !.host_sda = 0]
  <2>1. Wire.scl = 1 /\ Wire.host_sda = 1
    BY DEF Wire
  <2>2. set_host_sda(Wire, 0) = [StartCondition(Wire) EXCEPT !.host_sda = 0]
    BY <2>1 DEF set_host_sda
  <2> QED BY <2>2 DEF StartCondition, Wire
<1>3. Written(Wire, Lines) = set_host_sda(Wire, 0)
  BY <1>1 DEF Written
<1>4. Wire.scl = 1
  BY DEF Wire
<1>5. PICK v : v = Written(Wire, Lines)
  OBVIOUS
<1>6. v = [Wire EXCEPT !.state = "start", !.slave_sda = 1, !.counter = Bits, !.host_sda = 0]
  BY <1>2, <1>3, <1>5
<1>7. /\ v.buffer = buffer /\ v.state = "start" /\ v.counter = Bits /\ v.address = address
      /\ v.latch = latch /\ v.scl = scl /\ v.slave_sda = 1 /\ v.host_sda = 0
  BY ONLY <1>6 DEF Wire
<1>8. at_risk' = Nowhere /\ resets' = 0
  BY Risks, 0 < 1
<1>9. buffer' = v.buffer /\ state' = v.state /\ counter' = v.counter
         /\ latch' = v.latch /\ address' = v.address
         /\ host_sda' = v.host_sda /\ slave_sda' = v.slave_sda /\ scl' = v.scl
  BY <1>5, Moves
<1> QED BY <1>7, <1>8, <1>9

LEMMA StopEdge ==
  ASSUME MakeAccess, scl = 1, Lines.scl = 1, host_sda = 0, Lines.sda = 1
  PROVE  /\ UNCHANGED <<buffer, latch, address, counter>> /\ state' = "idle"
         /\ scl' = 1 /\ host_sda' = 1 /\ slave_sda' = 1 /\ UNCHANGED <<at_risk, resets>>
<1>1. set_scl(Wire, 1) = Wire
  BY DEF set_scl, Wire
<1>2. set_host_sda(Wire, 1) = [Wire EXCEPT !.state = "idle", !.slave_sda = 1, !.host_sda = 1]
  <2>1. Wire.scl = 1 /\ Wire.host_sda = 0
    BY DEF Wire
  <2>2. set_host_sda(Wire, 1) = [StopCondition(Wire) EXCEPT !.host_sda = 1]
    BY <2>1 DEF set_host_sda
  <2> QED BY <2>2 DEF StopCondition, Wire
<1>3. Written(Wire, Lines) = set_host_sda(Wire, 1)
  BY <1>1 DEF Written
<1>4. Wire.scl = 1
  BY DEF Wire
<1>5. PICK v : v = Written(Wire, Lines)
  OBVIOUS
<1>6. v = [Wire EXCEPT !.state = "idle", !.slave_sda = 1, !.host_sda = 1]
  BY <1>2, <1>3, <1>5
<1>7. /\ v.buffer = buffer /\ v.state = "idle" /\ v.counter = counter /\ v.address = address
      /\ v.latch = latch /\ v.scl = scl /\ v.slave_sda = 1 /\ v.host_sda = 1
  BY ONLY <1>6 DEF Wire
<1>8. UNCHANGED <<at_risk, resets>>
  BY Risks, ~(1 < 0)
<1>9. buffer' = v.buffer /\ state' = v.state /\ counter' = v.counter
         /\ latch' = v.latch /\ address' = v.address
         /\ host_sda' = v.host_sda /\ slave_sda' = v.slave_sda /\ scl' = v.scl
  BY <1>5, Moves
<1> QED BY <1>7, <1>8, <1>9

Fields == {"state", "counter", "latch", "address", "buffer", "host_sda", "slave_sda", "scl"}

\* The clock rises: SDA is where it was, so that there is no start and no stop.
LEMMA Rises ==
  ASSUME MakeAccess, scl = 0, Lines.scl = 1, Lines.sda = host_sda, host_sda \in {0, 1},
         NEW w, SclRises(Wire) = w, DOMAIN w = Fields, w.host_sda = host_sda, w.slave_sda = slave_sda
  PROVE  /\ state' = w.state /\ counter' = w.counter /\ latch' = w.latch
         /\ address' = w.address /\ buffer' = w.buffer
         /\ scl' = 1 /\ UNCHANGED <<host_sda, slave_sda, at_risk, resets>>
<1>1. PICK u : u = [w EXCEPT !.scl = 1]
  OBVIOUS
<1>2. set_scl(Wire, 1) = u
  <2>1. Wire.scl = 0
    BY DEF Wire
  <2> QED BY <1>1, <2>1 DEF set_scl
<1>3. /\ u.host_sda = host_sda /\ u.scl = 1 /\ DOMAIN u = Fields /\ u.slave_sda = w.slave_sda
      /\ u.state = w.state /\ u.counter = w.counter /\ u.latch = w.latch
      /\ u.address = w.address /\ u.buffer = w.buffer
  BY <1>1 DEF Fields
<1>4. ~(host_sda < host_sda) /\ ~(host_sda > host_sda)
  OBVIOUS
<1>5. set_host_sda(u, host_sda) = [u EXCEPT !.host_sda = host_sda]
  BY <1>3, <1>4 DEF set_host_sda
<1>6. PICK v : v = Written(Wire, Lines)
  OBVIOUS
<1>7. v = [u EXCEPT !.host_sda = host_sda]
  BY <1>2, <1>5, <1>6 DEF Written
<1>8. /\ v.host_sda = host_sda /\ v.scl = 1 /\ v.slave_sda = slave_sda
      /\ v.state = w.state /\ v.counter = w.counter /\ v.latch = w.latch
      /\ v.address = w.address /\ v.buffer = w.buffer
  BY ONLY <1>3, <1>7, w.slave_sda = slave_sda DEF Fields
<1>9. buffer' = v.buffer /\ state' = v.state /\ counter' = v.counter
         /\ latch' = v.latch /\ address' = v.address
         /\ host_sda' = v.host_sda /\ slave_sda' = v.slave_sda /\ scl' = v.scl
  BY <1>6, Moves
<1>10. UNCHANGED <<at_risk, resets>>
  BY <1>4, Risks
<1> QED BY <1>8, <1>9, <1>10

LEMMA WireFields ==
  /\ Wire.state = state /\ Wire.counter = counter /\ Wire.latch = latch /\ Wire.address = address
  /\ Wire.buffer = buffer /\ Wire.host_sda = host_sda /\ Wire.slave_sda = slave_sda /\ Wire.scl = scl
BY DEF Wire

\* A bit comes in.
LEMMA BitShifts ==
  ASSUME state \in {"start", "address_hi", "address", "write"}
  PROVE  \E n : /\ DOMAIN n = Fields /\ n.host_sda = host_sda /\ n.slave_sda = slave_sda
                /\ n.state = state /\ n.counter = counter - 1 /\ n.latch = (2 * latch + host_sda) % ByteSize
                /\ n.address = address /\ n.buffer = buffer
                /\ SclRises(Wire) = IF n.counter = 0 THEN ByteIn(n) ELSE n
<1>1. PICK n : n = [Wire EXCEPT !.latch = (2 * latch + host_sda) % ByteSize, !.counter = counter - 1]
  OBVIOUS
<1>2. /\ DOMAIN n = Fields /\ n.host_sda = host_sda /\ n.slave_sda = slave_sda
      /\ n.state = state /\ n.counter = counter - 1 /\ n.latch = (2 * latch + host_sda) % ByteSize
      /\ n.address = address /\ n.buffer = buffer
  BY ONLY <1>1 DEF Wire, Fields
<1>3. SclRises(Wire) = BitIn(Wire)
  BY WireFields DEF SclRises
<1>4. n = [Wire EXCEPT !.latch = Shifted(Wire), !.counter = Wire.counter - 1]
  BY <1>1, WireFields DEF Shifted
<1>5. BitIn(Wire) = IF n.counter = 0 THEN ByteIn(n) ELSE n
  BY ONLY <1>4 DEF BitIn, Wire
<1>6. SclRises(Wire) = IF n.counter = 0 THEN ByteIn(n) ELSE n
  BY ONLY <1>3, <1>5
<1> QED BY ONLY <1>2, <1>6, Zenon

LEMMA RiseBit ==
  ASSUME MakeAccess, scl = 0, Lines.scl = 1, Lines.sda = host_sda, host_sda \in {0, 1},
         state \in {"start", "address_hi", "address", "write"}, counter \in Nat, counter # 1
  PROVE  /\ state' = state /\ counter' = counter - 1 /\ latch' = (2 * latch + host_sda) % ByteSize
         /\ address' = address /\ buffer' = buffer
         /\ scl' = 1 /\ UNCHANGED <<host_sda, slave_sda, at_risk, resets>>
<1>1. PICK n : /\ DOMAIN n = Fields /\ n.host_sda = host_sda /\ n.slave_sda = slave_sda
               /\ n.state = state /\ n.counter = counter - 1 /\ n.latch = (2 * latch + host_sda) % ByteSize
               /\ n.address = address /\ n.buffer = buffer
               /\ SclRises(Wire) = IF n.counter = 0 THEN ByteIn(n) ELSE n
  BY BitShifts
<1>2. n.counter # 0
  BY <1>1
<1>3. SclRises(Wire) = n
  BY <1>1, <1>2
<1> QED BY <1>1, <1>3, Rises

\* The last bit of a byte, by the state it comes in.
LEMMA LastBitShifts ==
  ASSUME state \in {"start", "address_hi", "address", "write"}, counter = 1
  PROVE  \E n : /\ DOMAIN n = Fields /\ n.host_sda = host_sda /\ n.slave_sda = slave_sda
                /\ n.state = state /\ n.counter = 0 /\ n.latch = (2 * latch + host_sda) % ByteSize
                /\ n.address = address /\ n.buffer = buffer /\ SclRises(Wire) = ByteIn(n)
<1>1. PICK n : /\ DOMAIN n = Fields /\ n.host_sda = host_sda /\ n.slave_sda = slave_sda
               /\ n.state = state /\ n.counter = counter - 1 /\ n.latch = (2 * latch + host_sda) % ByteSize
               /\ n.address = address /\ n.buffer = buffer
               /\ SclRises(Wire) = IF n.counter = 0 THEN ByteIn(n) ELSE n
  BY BitShifts
<1>2. n.counter = 0
  BY <1>1
<1>3. SclRises(Wire) = ByteIn(n)
  BY <1>1, <1>2
<1> QED BY ONLY <1>1, <1>2, <1>3, Zenon

LEMMA RiseLastOfDevice ==
  ASSUME MakeAccess, scl = 0, Lines.scl = 1, Lines.sda = host_sda, host_sda \in {0, 1},
         state = "start", counter = 1
  PROVE  /\ state' = "device_ack" /\ counter' = 0 /\ latch' = (2 * latch + host_sda) % ByteSize
         /\ address' = address /\ buffer' = buffer
         /\ scl' = 1 /\ UNCHANGED <<host_sda, slave_sda, at_risk, resets>>
<1>1. PICK n : /\ DOMAIN n = Fields /\ n.host_sda = host_sda /\ n.slave_sda = slave_sda
               /\ n.state = state /\ n.counter = 0 /\ n.latch = (2 * latch + host_sda) % ByteSize
               /\ n.address = address /\ n.buffer = buffer /\ SclRises(Wire) = ByteIn(n)
  BY LastBitShifts
<1>2. PICK w : w = ByteIn(n)
  OBVIOUS
<1>3. /\ DOMAIN w = Fields /\ w.host_sda = host_sda /\ w.slave_sda = slave_sda
      /\ w.state = "device_ack" /\ w.counter = 0 /\ w.latch = (2 * latch + host_sda) % ByteSize
      /\ w.address = address /\ w.buffer = buffer
  BY ONLY <1>1, <1>2, state = "start" DEF Fields, ByteIn
<1> QED BY <1>1, <1>2, <1>3, Rises

LEMMA RiseLastOfHigh ==
  ASSUME MakeAccess, scl = 0, Lines.scl = 1, Lines.sda = host_sda, host_sda \in {0, 1},
         state = "address_hi", counter = 1
  PROVE  /\ state' = "address_hi_ack" /\ counter' = 0 /\ latch' = (2 * latch + host_sda) % ByteSize
         /\ address' = ((2 * latch + host_sda) % ByteSize) * ByteSize /\ buffer' = buffer
         /\ scl' = 1 /\ UNCHANGED <<host_sda, slave_sda, at_risk, resets>>
<1>1. PICK n : /\ DOMAIN n = Fields /\ n.host_sda = host_sda /\ n.slave_sda = slave_sda
               /\ n.state = state /\ n.counter = 0 /\ n.latch = (2 * latch + host_sda) % ByteSize
               /\ n.address = address /\ n.buffer = buffer /\ SclRises(Wire) = ByteIn(n)
  BY LastBitShifts
<1>2. PICK w : w = ByteIn(n)
  OBVIOUS
<1>3. /\ DOMAIN w = Fields /\ w.host_sda = host_sda /\ w.slave_sda = slave_sda
      /\ w.state = "address_hi_ack" /\ w.counter = 0 /\ w.latch = (2 * latch + host_sda) % ByteSize
      /\ w.address = ((2 * latch + host_sda) % ByteSize) * ByteSize /\ w.buffer = buffer
  BY ONLY <1>1, <1>2, state = "address_hi" DEF Fields, ByteIn
<1> QED BY <1>1, <1>2, <1>3, Rises

LEMMA RiseLastOfLow ==
  ASSUME MakeAccess, scl = 0, Lines.scl = 1, Lines.sda = host_sda, host_sda \in {0, 1},
         state = "address", counter = 1
  PROVE  /\ state' = "address_ack" /\ counter' = 0 /\ latch' = (2 * latch + host_sda) % ByteSize
         /\ address' = address + ((2 * latch + host_sda) % ByteSize) /\ buffer' = buffer
         /\ scl' = 1 /\ UNCHANGED <<host_sda, slave_sda, at_risk, resets>>
<1>1. PICK n : /\ DOMAIN n = Fields /\ n.host_sda = host_sda /\ n.slave_sda = slave_sda
               /\ n.state = state /\ n.counter = 0 /\ n.latch = (2 * latch + host_sda) % ByteSize
               /\ n.address = address /\ n.buffer = buffer /\ SclRises(Wire) = ByteIn(n)
  BY LastBitShifts
<1>2. PICK w : w = ByteIn(n)
  OBVIOUS
<1>3. /\ DOMAIN w = Fields /\ w.host_sda = host_sda /\ w.slave_sda = slave_sda
      /\ w.state = "address_ack" /\ w.counter = 0 /\ w.latch = (2 * latch + host_sda) % ByteSize
      /\ w.address = address + ((2 * latch + host_sda) % ByteSize) /\ w.buffer = buffer
  BY ONLY <1>1, <1>2, state = "address" DEF Fields, ByteIn
<1> QED BY <1>1, <1>2, <1>3, Rises

LEMMA RiseLastOfData ==
  ASSUME MakeAccess, scl = 0, Lines.scl = 1, Lines.sda = host_sda, host_sda \in {0, 1},
         state = "write", counter = 1
  PROVE  /\ state' = "write_ack" /\ counter' = 0 /\ latch' = (2 * latch + host_sda) % ByteSize
         /\ address' = address /\ buffer' = [buffer EXCEPT ![address] = (2 * latch + host_sda) % ByteSize]
         /\ scl' = 1 /\ UNCHANGED <<host_sda, slave_sda, at_risk, resets>>
<1>1. PICK n : /\ DOMAIN n = Fields /\ n.host_sda = host_sda /\ n.slave_sda = slave_sda
               /\ n.state = state /\ n.counter = 0 /\ n.latch = (2 * latch + host_sda) % ByteSize
               /\ n.address = address /\ n.buffer = buffer /\ SclRises(Wire) = ByteIn(n)
  BY LastBitShifts
<1>2. PICK w : w = ByteIn(n)
  OBVIOUS
<1>3. /\ DOMAIN w = Fields /\ w.host_sda = host_sda /\ w.slave_sda = slave_sda
      /\ w.state = "write_ack" /\ w.counter = 0 /\ w.latch = (2 * latch + host_sda) % ByteSize
      /\ w.address = address /\ w.buffer = [buffer EXCEPT ![address] = (2 * latch + host_sda) % ByteSize]
  BY ONLY <1>1, <1>2, state = "write" DEF Fields, ByteIn
<1> QED BY <1>1, <1>2, <1>3, Rises

\* No bit comes in: a byte was acknowledged, or is read.
LEMMA RiseToRead ==
  ASSUME MakeAccess, scl = 0, Lines.scl = 1, Lines.sda = host_sda, host_sda \in {0, 1},
         state = "device_ack", latch % 2 = 1
  PROVE  /\ state' = "read" /\ counter' = Bits /\ latch' = buffer[IF Short THEN latch \div 2 ELSE address]
         /\ address' = (IF Short THEN latch \div 2 ELSE address) /\ buffer' = buffer
         /\ scl' = 1 /\ UNCHANGED <<host_sda, slave_sda, at_risk, resets>>
<1>1. PICK w : w = DeviceByte(Wire)
  OBVIOUS
<1>2. SclRises(Wire) = w
  BY <1>1, WireFields DEF SclRises
<1>3. DOMAIN w = Fields /\ w.host_sda = host_sda /\ w.slave_sda = slave_sda
  BY ONLY <1>1 DEF Wire, Fields, DeviceByte, Short
<1>4. /\ w.state = "read" /\ w.counter = Bits /\ w.latch = buffer[IF Short THEN latch \div 2 ELSE address]
      /\ w.address = (IF Short THEN latch \div 2 ELSE address) /\ w.buffer = buffer
  BY ONLY <1>1, state = "device_ack", latch % 2 = 1 DEF Wire, Fields, DeviceByte, Short
<1> QED BY <1>2, <1>3, <1>4, Rises

LEMMA RiseToWrite ==
  ASSUME MakeAccess, scl = 0, Lines.scl = 1, Lines.sda = host_sda, host_sda \in {0, 1},
         state = "device_ack", latch % 2 # 1, Short
  PROVE  /\ state' = "write" /\ counter' = Bits /\ latch' = latch
         /\ address' = latch \div 2 /\ buffer' = buffer
         /\ scl' = 1 /\ UNCHANGED <<host_sda, slave_sda, at_risk, resets>>
<1>1. PICK w : w = DeviceByte(Wire)
  OBVIOUS
<1>2. SclRises(Wire) = w
  BY <1>1, WireFields DEF SclRises
<1>3. DOMAIN w = Fields /\ w.host_sda = host_sda /\ w.slave_sda = slave_sda
  BY ONLY <1>1 DEF Wire, Fields, DeviceByte, Short
<1>4. /\ w.state = "write" /\ w.counter = Bits /\ w.latch = latch
      /\ w.address = latch \div 2 /\ w.buffer = buffer
  BY ONLY <1>1, state = "device_ack", latch % 2 # 1, Short DEF Wire, Fields, DeviceByte, Short
<1> QED BY <1>2, <1>3, <1>4, Rises

LEMMA RiseToLow ==
  ASSUME MakeAccess, scl = 0, Lines.scl = 1, Lines.sda = host_sda, host_sda \in {0, 1},
         state = "device_ack", latch % 2 # 1, ~Short, size < WordFrom
  PROVE  /\ state' = "address" /\ counter' = Bits /\ latch' = latch
         /\ address' = ((latch \div 2) % 8) * ByteSize /\ buffer' = buffer
         /\ scl' = 1 /\ UNCHANGED <<host_sda, slave_sda, at_risk, resets>>
<1>1. PICK w : w = DeviceByte(Wire)
  OBVIOUS
<1>2. SclRises(Wire) = w
  BY <1>1, WireFields DEF SclRises
<1>3. DOMAIN w = Fields /\ w.host_sda = host_sda /\ w.slave_sda = slave_sda
  BY ONLY <1>1 DEF Wire, Fields, DeviceByte, Short
<1>4. /\ w.state = "address" /\ w.counter = Bits /\ w.latch = latch
      /\ w.address = ((latch \div 2) % 8) * ByteSize /\ w.buffer = buffer
  BY ONLY <1>1, state = "device_ack", latch % 2 # 1, ~Short, size < WordFrom DEF Wire, Fields, DeviceByte, Short
<1> QED BY <1>2, <1>3, <1>4, Rises

LEMMA RiseToHigh ==
  ASSUME MakeAccess, scl = 0, Lines.scl = 1, Lines.sda = host_sda, host_sda \in {0, 1},
         state = "device_ack", latch % 2 # 1, ~Short, ~(size < WordFrom)
  PROVE  /\ state' = "address_hi" /\ counter' = Bits /\ latch' = latch
         /\ address' = address /\ buffer' = buffer
         /\ scl' = 1 /\ UNCHANGED <<host_sda, slave_sda, at_risk, resets>>
<1>1. PICK w : w = DeviceByte(Wire)
  OBVIOUS
<1>2. SclRises(Wire) = w
  BY <1>1, WireFields DEF SclRises
<1>3. DOMAIN w = Fields /\ w.host_sda = host_sda /\ w.slave_sda = slave_sda
  BY ONLY <1>1 DEF Wire, Fields, DeviceByte, Short
<1>4. /\ w.state = "address_hi" /\ w.counter = Bits /\ w.latch = latch
      /\ w.address = address /\ w.buffer = buffer
  BY ONLY <1>1, state = "device_ack", latch % 2 # 1, ~Short, ~(size < WordFrom) DEF Wire, Fields, DeviceByte, Short
<1> QED BY <1>2, <1>3, <1>4, Rises

LEMMA RiseHighAck ==
  ASSUME MakeAccess, scl = 0, Lines.scl = 1, Lines.sda = host_sda, host_sda \in {0, 1},
         state = "address_hi_ack"
  PROVE  /\ state' = "address" /\ counter' = Bits /\ latch' = latch
         /\ address' = address /\ buffer' = buffer
         /\ scl' = 1 /\ UNCHANGED <<host_sda, slave_sda, at_risk, resets>>
<1>1. PICK w : w = [Wire EXCEPT !.state = "address", !.counter = Bits]
  OBVIOUS
<1>2. SclRises(Wire) = w
  BY <1>1, WireFields DEF SclRises
<1>3. DOMAIN w = Fields /\ w.host_sda = host_sda /\ w.slave_sda = slave_sda
  BY ONLY <1>1 DEF Wire, Fields
<1>4. /\ w.state = "address" /\ w.counter = Bits /\ w.latch = latch
      /\ w.address = address /\ w.buffer = buffer
  BY ONLY <1>1, state = "address_hi_ack" DEF Wire, Fields
<1> QED BY <1>2, <1>3, <1>4, Rises

LEMMA RiseAddressAck ==
  ASSUME MakeAccess, scl = 0, Lines.scl = 1, Lines.sda = host_sda, host_sda \in {0, 1},
         state = "address_ack"
  PROVE  /\ state' = "write" /\ counter' = Bits /\ latch' = latch
         /\ address' = address % size /\ buffer' = buffer
         /\ scl' = 1 /\ UNCHANGED <<host_sda, slave_sda, at_risk, resets>>
<1>1. PICK w : w = [Wire EXCEPT !.state = "write", !.address = address % size, !.counter = Bits]
  OBVIOUS
<1>2. SclRises(Wire) = w
  BY <1>1, WireFields DEF SclRises, Wrapped
<1>3. DOMAIN w = Fields /\ w.host_sda = host_sda /\ w.slave_sda = slave_sda
  BY ONLY <1>1 DEF Wire, Fields, Wrapped
<1>4. /\ w.state = "write" /\ w.counter = Bits /\ w.latch = latch
      /\ w.address = address % size /\ w.buffer = buffer
  BY ONLY <1>1, state = "address_ack" DEF Wire, Fields, Wrapped
<1> QED BY <1>2, <1>3, <1>4, Rises

LEMMA RiseRead ==
  ASSUME MakeAccess, scl = 0, Lines.scl = 1, Lines.sda = host_sda, host_sda \in {0, 1},
         state = "read"
  PROVE  /\ state' = (IF counter = 1 THEN "read_ack" ELSE "read") /\ counter' = counter - 1 /\ latch' = latch
         /\ address' = address /\ buffer' = buffer
         /\ scl' = 1 /\ UNCHANGED <<host_sda, slave_sda, at_risk, resets>>
<1>1. PICK w : w = [Wire EXCEPT !.counter = counter - 1, !.state = IF counter = 1 THEN "read_ack" ELSE "read"]
  OBVIOUS
<1>2. SclRises(Wire) = w
  BY <1>1, WireFields DEF SclRises
<1>3. DOMAIN w = Fields /\ w.host_sda = host_sda /\ w.slave_sda = slave_sda
  BY ONLY <1>1 DEF Wire, Fields
<1>4. /\ w.state = (IF counter = 1 THEN "read_ack" ELSE "read") /\ w.counter = counter - 1 /\ w.latch = latch
      /\ w.address = address /\ w.buffer = buffer
  BY ONLY <1>1, state = "read" DEF Wire, Fields
<1> QED BY <1>2, <1>3, <1>4, Rises

LEMMA RiseReadAck ==
  ASSUME MakeAccess, scl = 0, Lines.scl = 1, Lines.sda = host_sda, host_sda \in {0, 1},
         state = "read_ack"
  PROVE  /\ state' = "read" /\ counter' = Bits /\ latch' = buffer[(address + 1) % size]
         /\ address' = (address + 1) % size /\ buffer' = buffer
         /\ scl' = 1 /\ UNCHANGED <<host_sda, slave_sda, at_risk, resets>>
<1>1. PICK w : w = [Wire EXCEPT !.state = "read", !.counter = Bits, !.address = (address + 1) % size,
                                !.latch = buffer[(address + 1) % size]]
  OBVIOUS
<1>2. SclRises(Wire) = w
  BY <1>1, WireFields DEF SclRises, Wrapped
<1>3. DOMAIN w = Fields /\ w.host_sda = host_sda /\ w.slave_sda = slave_sda
  BY ONLY <1>1 DEF Wire, Fields, Wrapped
<1>4. /\ w.state = "read" /\ w.counter = Bits /\ w.latch = buffer[(address + 1) % size]
      /\ w.address = (address + 1) % size /\ w.buffer = buffer
  BY ONLY <1>1, state = "read_ack" DEF Wire, Fields, Wrapped
<1> QED BY <1>2, <1>3, <1>4, Rises

LEMMA RiseWriteAck ==
  ASSUME MakeAccess, scl = 0, Lines.scl = 1, Lines.sda = host_sda, host_sda \in {0, 1},
         state = "write_ack"
  PROVE  /\ state' = "write" /\ counter' = Bits /\ latch' = latch
         /\ address' = (address + 1) % size /\ buffer' = buffer
         /\ scl' = 1 /\ UNCHANGED <<host_sda, slave_sda, at_risk, resets>>
<1>1. PICK w : w = [Wire EXCEPT !.state = "write", !.counter = Bits, !.address = (address + 1) % size]
  OBVIOUS
<1>2. SclRises(Wire) = w
  BY <1>1, WireFields DEF SclRises, Wrapped
<1>3. DOMAIN w = Fields /\ w.host_sda = host_sda /\ w.slave_sda = slave_sda
  BY ONLY <1>1 DEF Wire, Fields, Wrapped
<1>4. /\ w.state = "write" /\ w.counter = Bits /\ w.latch = latch
      /\ w.address = (address + 1) % size /\ w.buffer = buffer
  BY ONLY <1>1, state = "write_ack" DEF Wire, Fields, Wrapped
<1> QED BY <1>2, <1>3, <1>4, Rises

LEMMA RiseIdle ==
  ASSUME MakeAccess, scl = 0, Lines.scl = 1, Lines.sda = host_sda, host_sda \in {0, 1},
         state = "idle"
  PROVE  /\ state' = "idle" /\ counter' = counter /\ latch' = latch
         /\ address' = address /\ buffer' = buffer
         /\ scl' = 1 /\ UNCHANGED <<host_sda, slave_sda, at_risk, resets>>
<1>1. PICK w : w = Wire
  OBVIOUS
<1>2. SclRises(Wire) = w
  BY <1>1, WireFields DEF SclRises
<1>3. DOMAIN w = Fields /\ w.host_sda = host_sda /\ w.slave_sda = slave_sda
  BY ONLY <1>1 DEF Wire, Fields
<1>4. /\ w.state = "idle" /\ w.counter = counter /\ w.latch = latch
      /\ w.address = address /\ w.buffer = buffer
  BY ONLY <1>1, state = "idle" DEF Wire, Fields
<1> QED BY <1>2, <1>3, <1>4, Rises

-----------------------------------------------------------------------------
(* Constants and bytes.                                                        *)

LEMMA Constants ==
  /\ Bits \in Nat /\ Bits >= 3 /\ ByteSize \in Nat /\ ByteSize > 1 /\ ByteSize = 2^Bits
  /\ BlockFrom \in Nat /\ WordFrom \in Nat /\ MaxResets \in Nat
  /\ \A n \in Sizes : /\ n \in Nat /\ n > 0 /\ n <= ByteSize * ByteSize
                      /\ n < BlockFrom => 2 * n = ByteSize
                      /\ n >= BlockFrom /\ n < WordFrom => n <= 8 * ByteSize /\ 2 * n <= ByteSize * ByteSize
<1>1. Bits \in Nat /\ Bits >= 3 /\ BlockFrom \in Nat /\ WordFrom \in Nat /\ MaxResets \in Nat
  BY EepromAssumption, SizesAssumption
<1>2. ByteSize \in Nat /\ ByteSize > 1
  <2>1. Bits - 1 \in Nat /\ (Bits - 1) + 1 = Bits
    BY <1>1
  <2>2. 2^((Bits - 1) + 1) = 2 * 2^(Bits - 1)
    BY <2>1, PowerGrows
  <2>3. PICK h \in Nat \ {0} : h = 2^(Bits - 1)
    BY <2>1, PowerType
  <2>4. ByteSize = 2 * h
    BY ONLY <2>1, <2>2, <2>3, Zenon DEF ByteSize
  <2> QED BY <2>4
<1>3. ASSUME NEW n \in Sizes
      PROVE  n \in Nat /\ n > 0 /\ n <= ByteSize * ByteSize
  <2>1. PICK k \in 0..(2 * Bits) : n = 2^k
    BY SizesAssumption
  <2>2. 2 * Bits \in Nat /\ 2 * Bits = Bits + Bits /\ k \in Nat /\ 2 * Bits - k \in Nat
    BY <1>1
  <2>3. 2^(2 * Bits) = 2^(2 * Bits - k) * 2^k
    BY <2>2, SplitPower
  <2>4. 2^(Bits + Bits) = 2^Bits * 2^Bits
    BY <1>1, PowerSplits
  <2>5. PICK a \in Nat \ {0} : a = 2^(2 * Bits - k)
    BY <2>2, PowerType
  <2>6. n \in Nat \ {0}
    BY <2>1, <2>2, PowerType
  <2>7. ByteSize * ByteSize = a * n
    BY ONLY <2>1, <2>2, <2>3, <2>4, <2>5, Zenon DEF ByteSize
  <2>8. n <= a * n
    <3>1. 0 * n + n <= a * n
      BY <2>6, LessBy, 0 < a
    <3> QED BY <2>6, <3>1
  <2> QED BY <2>6, <2>7, <2>8
<1> QED BY <1>1, <1>2, <1>3, SizesAssumption DEF ByteSize

-----------------------------------------------------------------------------
(* Bytes on their way, bit by bit.                                             *)

LEMMA TopType ==
  \A v \in Nat, k \in 0..Bits : Top(v, k) \in Nat /\ BitOf(v, k) \in {0, 1}
<1> TAKE v \in Nat, k \in 0..Bits
<1>1. Bits - k \in Nat
  BY Constants
<1>2. PICK h \in Nat \ {0} : h = 2^(Bits - k)
  BY <1>1, PowerType
<1>3. v \div h \in Nat
  BY DivisionOf
<1>4. Top(v, k) \in Nat
  BY <1>2, <1>3 DEF Top
<1> QED BY <1>4 DEF BitOf

LEMMA TopEnds ==
  \A v \in ByteValues : Top(v, 0) = 0 /\ Top(v, Bits) = v
<1> TAKE v \in ByteValues
<1>1. Bits - 0 = Bits /\ Bits - Bits = 0 /\ v \in Nat /\ v \in 0..(ByteSize - 1)
      /\ ByteSize \in Nat \ {0}
  BY Constants DEF ByteValues
<1>2. v \div ByteSize = 0
  <2>1. v = 0 * ByteSize + v
    BY <1>1
  <2> QED BY <1>1, <2>1, DivisionIs
<1>3. v \div 1 = v
  <2>1. v = v * 1 + 0
    BY <1>1
  <2> QED BY <1>1
<1>4. Top(v, 0) = v \div 2^Bits
  BY ONLY <1>1 DEF Top
<1>5. Top(v, Bits) = v \div 1
  BY ONLY <1>1, PowerZero DEF Top
<1> QED BY <1>2, <1>3, <1>4, <1>5 DEF ByteSize

LEMMA TopNext ==
  \A v \in Nat, k \in 0..(Bits - 1) : Top(v, k + 1) = 2 * Top(v, k) + BitOf(v, k + 1)
<1> TAKE v \in Nat, k \in 0..(Bits - 1)
<1>1. Bits \in Nat /\ k \in Nat /\ k < Bits
  BY Constants
<1> QED BY <1>1, TopGrows DEF Top, BitOf

LEMMA ComesInNext ==
  \A v \in Nat, l \in Nat, k \in 0..(Bits - 1) :
    l % 2^k = Top(v, k) => ((2 * l + BitOf(v, k + 1)) % ByteSize) % 2^(k + 1) = Top(v, k + 1)
<1> TAKE v \in Nat, l \in Nat, k \in 0..(Bits - 1)
<1>1. Bits \in Nat /\ k \in Nat /\ k < Bits
  BY Constants
<1> QED BY <1>1, LatchIn DEF Top, BitOf, ByteSize

LEMMA ComesInStarts ==
  \A l \in Nat, v \in ByteValues : l % 2^0 = Top(v, 0)
<1> TAKE l \in Nat, v \in ByteValues
<1>1. l % 1 = 0
  OBVIOUS
<1> QED BY <1>1, PowerZero, TopEnds

LEMMA ComesInEnds ==
  \A l \in ByteValues, v \in ByteValues : l % 2^Bits = Top(v, Bits) => l = v
<1> TAKE l \in ByteValues, v \in ByteValues
<1>1. l \in Nat /\ l \in 0..(ByteSize - 1) /\ ByteSize \in Nat \ {0}
  BY Constants DEF ByteValues
<1>2. l % ByteSize = l
  <2>1. l = 0 * ByteSize + l
    BY <1>1
  <2> QED BY <1>1, <2>1, DivisionIs
<1> QED BY <1>2, TopEnds DEF ByteSize

LEMMA GoesOutStarts ==
  \A v \in ByteValues : Left(v, 0) = v
<1> TAKE v \in ByteValues
<1>1. v \in Nat /\ v \in 0..(ByteSize - 1) /\ ByteSize \in Nat \ {0} /\ Bits - 0 = Bits
  BY Constants DEF ByteValues
<1>2. v % ByteSize = v
  <2>1. v = 0 * ByteSize + v
    BY <1>1
  <2> QED BY <1>1, <2>1, DivisionIs
<1>3. Left(v, 0) = (v % 2^Bits) * 1
  BY ONLY <1>1, PowerZero DEF Left
<1>4. Left(v, 0) = v * 1
  BY ONLY <1>2, <1>3 DEF ByteSize
<1> QED BY <1>1, <1>4

LEMMA GoesOutNext ==
  \A v \in Nat, f \in 0..(Bits - 1) :
    /\ Left(v, f) \div 2^(Bits - 1) = BitOf(v, f + 1)
    /\ (2 * Left(v, f)) % ByteSize = Left(v, f + 1)
<1> TAKE v \in Nat, f \in 0..(Bits - 1)
<1>1. Bits \in Nat /\ f \in Nat /\ f < Bits /\ Bits - f \in Nat
  BY Constants
<1>2. PICK l \in Nat : l = (v % 2^(Bits - f)) * 2^f
  <2>1. PICK a \in Nat \ {0}, c \in Nat \ {0} : a = 2^(Bits - f) /\ c = 2^f
    BY <1>1, PowerType
  <2>2. v % a \in Nat
    BY DivisionOf
  <2>3. (v % a) * c \in Nat
    BY <2>2
  <2> QED BY <2>1, <2>3
<1>3. l \div 2^(Bits - 1) = (v \div 2^(Bits - (f + 1))) % 2
      /\ (2 * l) % 2^Bits = (v % 2^(Bits - (f + 1))) * 2^(f + 1)
  BY <1>1, <1>2, LatchOut
<1> QED BY ONLY <1>2, <1>3 DEF Left, BitOf, Top, ByteSize

-----------------------------------------------------------------------------
(* The game: its request, its place in it, and the lines.                      *)

LEMMA NextWraps ==
  \A n \in Nat \ {0}, x \in Nat : ((x % n) + 1) % n = (x + 1) % n
<1> TAKE n \in Nat \ {0}, x \in Nat
<1>1. PICK q \in Nat, r \in 0..(n - 1) : x = q * n + r /\ x % n = r
  BY DivisionOf
<1>2. CASE r + 1 < n
  <2>1. x + 1 = q * n + (r + 1) /\ r + 1 = 0 * n + (r + 1) /\ r + 1 \in 0..(n - 1) /\ x + 1 \in Nat
    <3>1. q * n \in Nat
      OBVIOUS
    <3> QED BY <1>1, <1>2, <3>1
  <2>2. (x + 1) % n = r + 1
    BY <2>1, DivisionIs
  <2>3. (r + 1) % n = r + 1
    BY <2>1, DivisionIs
  <2> QED BY <1>1, <2>2, <2>3
<1>3. CASE r + 1 = n
  <2>1. x + 1 = (q + 1) * n + 0 /\ x + 1 \in Nat /\ q + 1 \in Nat /\ 0 \in 0..(n - 1)
    <3>1. q * n \in Nat /\ (q + 1) * n = q * n + n
      OBVIOUS
    <3> QED BY <1>1, <1>3, <3>1
  <2>2. (x + 1) % n = 0
    BY <2>1, DivisionIs
  <2>3. n = 1 * n + 0 /\ 1 \in Nat
    OBVIOUS
  <2>4. n % n = 0
    BY <2>1, <2>3, DivisionIs
  <2> QED BY <1>1, <1>3, <2>2, <2>4
<1> QED BY <1>1, <1>2, <1>3

LEMMA StaysWithin ==
  \A n \in Nat \ {0} : \A x \in 0..(n - 1) : x % n = x
<1> TAKE n \in Nat \ {0}
<1> TAKE x \in 0..(n - 1)
<1>1. x = 0 * n + x /\ x \in Nat
  OBVIOUS
<1> QED BY <1>1, DivisionIs

\* A number with two bytes, of n or less.
LEMMA HighByte ==
  ASSUME NEW a \in Nat, NEW n \in Nat, a < n, NEW b \in Nat \ {0}, NEW m \in Nat, NEW c \in Nat,
         c * n <= m * b
  PROVE  c * (a \div b) < m \/ c = 0
<1>1. a \div b \in Nat /\ a % b \in 0..(b - 1) /\ a = (a \div b) * b + (a % b)
  BY DivisionOf
<1>2. PICK q \in Nat : q = a \div b
  BY <1>1
<1> SUFFICES ASSUME c > 0, m <= c * q PROVE FALSE
  BY <1>2
<1>3. q * b < n
  <2>1. q * b \in Nat
    OBVIOUS
  <2> QED BY <1>1, <1>2, <2>1
<1>4. (q * b) * c + c <= n * c
  <2>1. q * b \in Nat
    OBVIOUS
  <2> QED BY <1>3, <2>1, LessBy
<1>5. m * b <= (c * q) * b
  <2>1. c * q \in Nat
    OBVIOUS
  <2>2. CASE m = c * q
    <3>1. (c * q) * b \in Nat
      BY <2>1
    <3>2. m * b = (c * q) * b
      BY ONLY <2>2
    <3> QED BY ONLY <3>1, <3>2
  <2>3. CASE m < c * q
    <3>1. m * b + b <= (c * q) * b
      BY <2>1, <2>3, LessBy
    <3>2. m * b \in Nat /\ (c * q) * b \in Nat
      BY <2>1
    <3> QED BY <3>1, <3>2
  <2> QED BY <2>1, <2>2, <2>3
<1>6. (q * b) * c = (c * q) * b /\ n * c = c * n /\ (q * b) * c \in Nat /\ c * n \in Nat /\ m * b \in Nat
  OBVIOUS
<1> QED BY ONLY <1>4, <1>5, <1>6, c * n <= m * b, c > 0, c \in Nat

LEMMA RequestFacts ==
  ASSUME TypeOK, request # NoRequest
  PROVE  /\ size \in Nat /\ size > 0 /\ size \in Sizes
         /\ request.op \in {"read", "write"} /\ request.addr \in 0..(size - 1) /\ request.addr \in Nat
         /\ request.data \in Seq(ByteValues) /\ Len(request.data) \in Nat /\ Len(request.data) > 0
         /\ request.done \in 0..Len(request.data) /\ request.done \in Nat
         /\ DOMAIN request = {"op", "addr", "data", "done"}
         /\ Here \in 0..(size - 1)
         /\ request.done = 0 => Here = request.addr
         /\ request.done > 0 => (Last + 1) % size = Here /\ Last \in 0..(size - 1)
<1>1. size \in Nat /\ size > 0 /\ size \in Sizes
  BY Constants DEF TypeOK
<1>2. IsRequest(request)
  BY DEF TypeOK
<1>3. request.op \in {"read", "write"} /\ request.addr \in 0..(size - 1)
      /\ request.data \in Seq(ByteValues) /\ Len(request.data) > 0
      /\ request.done \in 0..Len(request.data) /\ DOMAIN request = {"op", "addr", "data", "done"}
  BY <1>2 DEF IsRequest
<1>4. Len(request.data) \in Nat /\ request.addr \in Nat /\ request.done \in Nat
  BY <1>1, <1>3
<1>5. PICK a \in Nat, d \in Nat : a = request.addr /\ d = request.done
  BY <1>4
<1>6. (a + d) % size \in 0..(size - 1)
  BY <1>1
<1>7. d = 0 => (a + d) % size = a
  BY <1>1, <1>3, <1>5, StaysWithin
<1>8. d > 0 => (((a + (d - 1)) % size) + 1) % size = (a + d) % size /\ (a + (d - 1)) % size \in 0..(size - 1)
  <2> SUFFICES ASSUME d > 0
               PROVE  (((a + (d - 1)) % size) + 1) % size = (a + d) % size
                      /\ (a + (d - 1)) % size \in 0..(size - 1)
    OBVIOUS
  <2>1. PICK x \in Nat : x = a + (d - 1)
    OBVIOUS
  <2>2. x + 1 = a + d
    BY <2>1
  <2>3. ((x % size) + 1) % size = (x + 1) % size /\ x % size \in 0..(size - 1)
    BY <1>1, NextWraps
  <2> QED BY ONLY <2>1, <2>2, <2>3
<1> QED BY ONLY <1>1, <1>3, <1>4, <1>5, <1>6, <1>7, <1>8 DEF Here, Last

\* The address, byte by byte.
LEMMA AddressFacts ==
  ASSUME TypeOK, request # NoRequest
  PROVE  /\ request.addr \div ByteSize \in Nat /\ request.addr % ByteSize \in ByteValues
         /\ request.addr \div ByteSize \in ByteValues
         /\ Hi \in Nat /\ Hi + (request.addr % ByteSize) = request.addr
         /\ Short => 2 * request.addr + 1 \in ByteValues
         /\ ~Short /\ size < WordFrom =>
              request.addr \div ByteSize < 8 /\ 2 * (request.addr \div ByteSize) \in ByteValues
<1>1. PICK a \in Nat, n \in Nat, b \in Nat : a = request.addr /\ n = size /\ b = ByteSize /\ a < n /\ b > 1
        /\ n \in Sizes
  BY RequestFacts, Constants
<1>2. a \div b \in Nat /\ a % b \in 0..(b - 1) /\ a = (a \div b) * b + (a % b)
  <2>1. b \in Nat \ {0}
    BY <1>1
  <2> QED BY <2>1, DivisionOf
<1>3. PICK q \in Nat, r \in 0..(b - 1) : q = a \div b /\ r = a % b
  BY <1>2
<1>4. q < b
  <2>1. 1 * n <= b * b
    BY <1>1, Constants
  <2>2. 1 * q < b
    BY <1>1, <1>3, <2>1, HighByte
  <2> QED BY <2>2
<1>5. q * b \in Nat /\ q * b + r = a
  <2>1. q * b \in Nat
    BY <1>1
  <2> QED BY ONLY <1>2, <1>3, <2>1
<1>6. n < BlockFrom => 2 * a + 1 \in 0..(b - 1)
  BY <1>1, Constants
<1>7. ~(n < BlockFrom) /\ n < WordFrom => q < 8 /\ 2 * q \in 0..(b - 1)
  <2> SUFFICES ASSUME ~(n < BlockFrom), n < WordFrom PROVE q < 8 /\ 2 * q \in 0..(b - 1)
    OBVIOUS
  <2>1. 1 * n <= 8 * b /\ 2 * n <= b * b
    BY <1>1, Constants
  <2>2. 1 * q < 8
    BY <1>1, <1>3, <2>1, HighByte
  <2>3. 2 * q < b
    BY <1>1, <1>3, <2>1, HighByte
  <2> QED BY <1>1, <2>2, <2>3
<1>8. Hi = q * b /\ request.addr \div ByteSize = q /\ request.addr % ByteSize = r
  BY ONLY <1>1, <1>3 DEF Hi
<1>9. q \in 0..(b - 1)
  BY <1>1, <1>4
<1>10. ByteValues = 0..(b - 1) /\ (Short <=> n < BlockFrom) /\ (size < WordFrom <=> n < WordFrom)
  BY ONLY <1>1 DEF ByteValues, Short
<1> QED BY ONLY <1>1, <1>5, <1>6, <1>7, <1>8, <1>9, <1>10

LEMMA StepParts ==
  \A s \in Nat : \E q \in Nat, p \in {0, 1, 2} :
    s = 3 * q + p /\ s \div 3 = q /\ s % 3 = p /\ (s + 1) \div 3 = (IF p = 2 THEN q + 1 ELSE q)
<1> TAKE s \in Nat
<1>1. PICK q \in Nat, p \in {0, 1, 2} : s = 3 * q + p /\ s \div 3 = q /\ s % 3 = p
  <2>1. s \div 3 \in Nat /\ s % 3 \in {0, 1, 2} /\ s = 3 * (s \div 3) + (s % 3)
    OBVIOUS
  <2> QED BY <2>1
<1>2. (s + 1) \div 3 = (IF p = 2 THEN q + 1 ELSE q)
  BY <1>1
<1> QED BY <1>1, <1>2

LEMMA PartsOfStep ==
  ASSUME NEW q \in Nat, NEW p \in {0, 1, 2}
  PROVE  /\ (3 * q + p) \div 3 = q /\ (3 * q + p) % 3 = p
         /\ (3 * q + p + 1) \div 3 = (IF p = 2 THEN q + 1 ELSE q)
OBVIOUS

\* What the game sends in a stage.
LEMMA SentFacts ==
  ASSUME TypeOK, StepsOK, RouteOK, request # NoRequest, stage \in ByteStages, ~Receiving
  PROVE  /\ Sent \in ByteValues
         /\ stage = "device" /\ Short => Sent \div 2 = request.addr /\ (Sent % 2 = 1 <=> request.op = "read")
         /\ stage = "device" /\ ~Short => Sent % 2 # 1
         /\ stage = "device" /\ ~Short /\ size < WordFrom => ((Sent \div 2) % 8) * ByteSize = Hi
         /\ stage = "high" => Sent * ByteSize = Hi
         /\ stage = "low" => Hi + Sent = request.addr
         /\ stage = "device_again" => Sent = 1
<1>0. 0 \in ByteValues /\ 1 \in ByteValues /\ ByteValues \subseteq Nat
  BY Constants DEF ByteValues
<1>1. CASE stage = "device" /\ Short
  <2>1. PICK a \in Nat : a = request.addr
    BY RequestFacts
  <2>2. 2 * a + 1 \in ByteValues
    BY <1>1, <2>1, AddressFacts
  <2>3. 2 * a \in ByteValues
    BY <2>2, Constants DEF ByteValues
  <2>4. Sent = 2 * a + (IF request.op = "read" THEN 1 ELSE 0)
    BY <1>1, <2>1 DEF Sent
  <2> QED BY <1>1, <2>1, <2>2, <2>3, <2>4
<1>2. CASE stage = "device" /\ ~Short /\ size < WordFrom
  <2>1. PICK q \in Nat : q = request.addr \div ByteSize
    BY AddressFacts
  <2>2. q < 8 /\ 2 * q \in ByteValues
    BY <1>2, <2>1, AddressFacts
  <2>3. Sent = 2 * q
    BY <1>2, <2>1 DEF Sent
  <2>4. (2 * q) % 2 # 1 /\ ((2 * q) \div 2) % 8 = q
    BY <2>2
  <2>5. Hi = q * ByteSize
    BY <2>1 DEF Hi
  <2> QED BY <1>2, <2>2, <2>3, <2>4, <2>5
<1>3. CASE stage = "device" /\ ~Short /\ ~(size < WordFrom)
  <2>1. Sent = 0
    BY <1>3 DEF Sent
  <2> QED BY <1>0, <1>3, <2>1
<1>4. CASE stage = "high"
  <2>1. Sent = request.addr \div ByteSize
    BY <1>4 DEF Sent
  <2> QED BY <1>4, <2>1, AddressFacts DEF Hi
<1>5. CASE stage = "low"
  <2>1. Sent = request.addr % ByteSize
    BY <1>5 DEF Sent
  <2> QED BY <1>5, <2>1, AddressFacts
<1>6. CASE stage = "device_again"
  <2>1. Sent = 1
    BY <1>6 DEF Sent
  <2> QED BY <1>0, <1>6, <2>1
<1>7. CASE stage = "data"
  <2>1. Sent = request.data[Byte]
    BY <1>7 DEF Sent
  <2>2. Byte \in 1..Len(request.data)
    BY <1>7, RequestFacts DEF RouteOK, Byte
  <2>3. request.data[Byte] \in ByteValues
    BY <2>2, RequestFacts
  <2> QED BY <1>7, <2>1, <2>3
<1> QED BY <1>1, <1>2, <1>3, <1>4, <1>5, <1>6, <1>7 DEF ByteStages

LEMMA BitOutFacts ==
  ASSUME TypeOK, StepsOK, RouteOK, request # NoRequest, stage \in ByteStages, NEW q \in 0..Bits
  PROVE  /\ BitOut(q + 1) \in {0, 1}
         /\ q < Bits /\ ~Receiving => BitOut(q + 1) = BitOf(Sent, q + 1)
         /\ q < Bits /\ Receiving => BitOut(q + 1) = 1
<1>1. Bits \in Nat
  BY Constants
<1>2. CASE q = Bits
  <2>1. q + 1 > Bits
    BY <1>1, <1>2
  <2> QED BY <1>1, <1>2, <2>1 DEF BitOut
<1>3. CASE q < Bits
  <2>1. ~(q + 1 > Bits) /\ q + 1 \in 0..Bits
    BY <1>1, <1>3
  <2>2. CASE Receiving
    BY <2>1, <2>2 DEF BitOut
  <2>3. CASE ~Receiving
    <3>1. BitOut(q + 1) = BitOf(Sent, q + 1)
      BY <2>1, <2>3 DEF BitOut, BitOf, Top
    <3>2. Sent \in Nat
      <4>1. Sent \in ByteValues
        BY ONLY TypeOK, StepsOK, RouteOK, request # NoRequest, stage \in ByteStages, <2>3, SentFacts
      <4>2. ByteValues \subseteq Nat
        BY Constants DEF ByteValues
      <4> QED BY <4>1, <4>2
    <3>3. BitOf(Sent, q + 1) \in {0, 1}
      BY <2>1, <3>2, TopType
    <3> QED BY <2>3, <3>1, <3>3
  <2> QED BY <2>2, <2>3
<1> QED BY <1>1, <1>2, <1>3

\* An access within a byte.
LEMMA ByteStep ==
  ASSUME TypeOK, StepsOK, MakeAccess, stage \in ByteStages, NEW q \in Nat, NEW p \in {0, 1, 2}, step = 3 * q + p
  PROVE  /\ q \in 0..Bits /\ step \div 3 = q /\ step % 3 = p
         /\ Risen = (IF p = 2 THEN q + 1 ELSE q)
         /\ ~(q = Bits /\ p = 2) => /\ stage' = stage /\ step' = step + 1
                                    /\ Risen' = (IF p = 0 THEN q ELSE q + 1)
         /\ q = Bits /\ p = 2 => stage' = NextStage /\ step' = 0 /\ Risen' = 0
         /\ Lines.scl = (IF p = 1 THEN 1 ELSE 0) /\ Lines.sda = BitOut(q + 1)
         /\ Completes <=> stage = "data" /\ q = Bits - 1 /\ p = 1
         /\ size' = size
         /\ (step < 3 * Bits - 1) <=> (q < Bits - 1 \/ (q = Bits - 1 /\ p # 2))
<1>1. Bits \in Nat /\ Bits >= 3
  BY Constants
<1>2. step < 3 * Bits + 3
  BY DEF StepsOK
<1>3. q \in 0..Bits
  BY <1>1, <1>2
<1>4. step \div 3 = q /\ step % 3 = p /\ Risen = (IF p = 2 THEN q + 1 ELSE q)
  BY PartsOfStep DEF Risen
<1>5. Accesses = 3 * Bits + 3 /\ Lines = InByte
  BY DEF Accesses, Lines, ByteStages
<1>6. Lines.scl = (IF p = 1 THEN 1 ELSE 0) /\ Lines.sda = BitOut(q + 1)
  BY <1>4, <1>5 DEF InByte, Access
<1>7. IF step + 1 < Accesses THEN step' = step + 1 /\ stage' = stage ELSE step' = 0 /\ stage' = NextStage
  BY DEF MakeAccess
<1>8. step + 1 < Accesses <=> ~(q = Bits /\ p = 2)
  BY <1>1, <1>3, <1>5
<1>9. ASSUME step' = step + 1 PROVE Risen' = (IF p = 0 THEN q ELSE q + 1)
  <2>1. Risen' = (step' + 1) \div 3
    BY DEF Risen
  <2>2. step' + 1 = 3 * q + p + 2
    BY <1>9
  <2>3. (3 * q + p + 2) \div 3 = (IF p = 0 THEN q ELSE q + 1)
    OBVIOUS
  <2> QED BY ONLY <2>1, <2>2, <2>3
<1>10. ASSUME step' = 0 PROVE Risen' = 0
  BY <1>10 DEF Risen
<1>11. Completes <=> stage = "data" /\ q = Bits - 1 /\ p = 1
  BY <1>1 DEF Completes
<1>12. size' = size
  BY DEF MakeAccess
<1>13. (step < 3 * Bits - 1) <=> (q < Bits - 1 \/ (q = Bits - 1 /\ p # 2))
  BY <1>1
<1> QED BY <1>3, <1>4, <1>6, <1>7, <1>8, <1>9, <1>10, <1>11, <1>12, <1>13

LEMMA RequestStep ==
  ASSUME TypeOK, MakeAccess
  PROVE  /\ request # NoRequest /\ request' # NoRequest /\ size' = size
         /\ request'.op = request.op /\ request'.addr = request.addr /\ request'.data = request.data
         /\ request'.done = (IF Completes THEN request.done + 1 ELSE request.done)
         /\ DOMAIN request' = {"op", "addr", "data", "done"}
<1>1. request # NoRequest /\ size' = size
      /\ request' = (IF Completes THEN [request EXCEPT !.done = @ + 1] ELSE request)
  BY DEF MakeAccess
<1>2. DOMAIN request = {"op", "addr", "data", "done"} /\ request.op \in {"read", "write"}
  BY <1>1, RequestFacts
<1>3. DOMAIN request' = {"op", "addr", "data", "done"} /\ request'.op = request.op
      /\ request'.addr = request.addr /\ request'.data = request.data
      /\ request'.done = (IF Completes THEN request.done + 1 ELSE request.done)
  BY ONLY <1>1, <1>2
<1>4. request'.op # NoRequest.op
  BY <1>2, <1>3 DEF NoRequest
<1> QED BY <1>1, <1>3, <1>4

LEMMA SameByte ==
  ASSUME IInv, MakeAccess, stage \in ByteStages, NEW q \in Nat, NEW p \in {0, 1, 2}, step = 3 * q + p,
         ~(q = Bits /\ p = 2)
  PROVE  /\ Sent' = Sent /\ (Receiving' <=> Receiving) /\ (Short' <=> Short)
         /\ p # 2 => BitOut(q + 1)' = BitOut(q + 1)
<1>1. stage' = stage /\ step' = step + 1 /\ size' = size /\ q \in 0..Bits
      /\ (Completes <=> stage = "data" /\ q = Bits - 1 /\ p = 1)
  BY ByteStep DEF IInv
<1>2. request'.op = request.op /\ request'.addr = request.addr /\ request'.data = request.data
      /\ request'.done = (IF Completes THEN request.done + 1 ELSE request.done)
      /\ request.done \in Nat
  BY RequestStep, RequestFacts DEF IInv
<1>3. (Receiving' <=> Receiving) /\ (Short' <=> Short)
  BY <1>1, <1>2 DEF Receiving, Short
<1>4. stage = "data" => Byte' = Byte
  BY <1>1, <1>2, Constants DEF Byte
<1>5. Sent' = Sent
  <2>1. CASE stage = "data"
    <3>1. Sent = request.data[Byte] /\ Sent' = request'.data[Byte']
      BY ONLY <1>1, <2>1 DEF Sent
    <3> QED BY ONLY <1>2, <1>4, <2>1, <3>1
  <2>2. CASE stage # "data"
    BY ONLY <1>1, <1>2, <1>3, <2>2, stage \in ByteStages DEF Sent, ByteStages
  <2> QED BY <2>1, <2>2
<1>6. p # 2 => BitOut(q + 1)' = BitOut(q + 1)
  <2>1. q + 1 > Bits => request'.done = request.done
    BY <1>1, <1>2, Constants
  <2> QED BY ONLY <1>2, <1>3, <1>5, <2>1 DEF BitOut
<1> QED BY <1>3, <1>5, <1>6

\* The three accesses of a bit.
LEMMA ByteLines ==
  ASSUME IInv, MakeAccess, stage \in ByteStages, NEW q \in Nat, NEW p \in {0, 1, 2}, step = 3 * q + p
  PROVE  /\ q \in 0..Bits /\ request # NoRequest
         /\ p # 2 => scl = 0
         /\ p = 2 => scl = 1 /\ Lines.scl = 0
         /\ p = 0 => Lines.scl = 0
         /\ p = 1 => Lines.scl = 1 /\ Lines.sda = host_sda /\ host_sda \in {0, 1}
         /\ p # 0 => host_sda = BitOut(q + 1)
         /\ Lines.sda = BitOut(q + 1)
<1>1. step \div 3 = q /\ step % 3 = p /\ Lines.scl = (IF p = 1 THEN 1 ELSE 0)
      /\ Lines.sda = BitOut(q + 1) /\ q \in 0..Bits
  BY ByteStep DEF IInv
<1>2. request # NoRequest
  BY DEF MakeAccess
<1>3. /\ scl = IF step % 3 = 2 THEN 1 ELSE 0
      /\ step % 3 # 0 => host_sda = BitOut(step \div 3 + 1)
  BY <1>2 DEF IInv, LinesOK
<1>4. host_sda \in {0, 1}
  BY DEF IInv, TypeOK
<1> QED BY <1>1, <1>2, <1>3, <1>4

\* However the clock rises.
LEMMA RiseLines ==
  ASSUME TypeOK, MakeAccess, scl = 0, Lines.scl = 1, Lines.sda = host_sda
  PROVE  scl' = 1 /\ UNCHANGED <<host_sda, slave_sda, at_risk, resets>>
<1>1. host_sda \in {0, 1} /\ state \in States /\ counter \in Nat
  BY Constants DEF TypeOK
<1>2. CASE state \in {"start", "address_hi", "address", "write"} /\ counter # 1
  BY <1>1, <1>2, RiseBit
<1>3. CASE state \in {"start", "address_hi", "address", "write"} /\ counter = 1
  BY <1>1, <1>3, RiseLastOfDevice, RiseLastOfHigh, RiseLastOfLow, RiseLastOfData
<1>4. CASE state = "device_ack"
  BY <1>1, <1>4, RiseToRead, RiseToWrite, RiseToLow, RiseToHigh
<1>5. CASE state \in {"address_hi_ack", "address_ack", "read", "read_ack", "write_ack", "idle"}
  BY <1>1, <1>5, RiseHighAck, RiseAddressAck, RiseRead, RiseReadAck, RiseWriteAck, RiseIdle
<1> QED BY <1>1, <1>2, <1>3, <1>4, <1>5 DEF States

LEMMA LatchType ==
  ASSUME TypeOK
  PROVE  (2 * latch + host_sda) % ByteSize \in ByteValues /\ latch \in Nat /\ latch \div 2 \in Nat
<1>1. latch \in Nat /\ host_sda \in Nat /\ ByteSize \in Nat \ {0}
  BY Constants DEF TypeOK, ByteValues
<1> QED BY <1>1 DEF ByteValues

LEMMA RiseKeeps ==
  ASSUME TypeOK, MakeAccess, scl = 0, Lines.scl = 1, Lines.sda = host_sda, CanRise
  PROVE  /\ state' \in States /\ counter' \in 0..Bits /\ latch' \in ByteValues /\ address' \in Nat
         /\ state' \in {"read", "read_ack", "write", "write_ack"} => address' < size
         /\ IF state = "write" /\ counter = 1
            THEN /\ address \in 0..(size - 1)
                 /\ buffer' = [buffer EXCEPT ![address] = (2 * latch + host_sda) % ByteSize]
            ELSE buffer' = buffer
<1>1. host_sda \in {0, 1} /\ state \in States /\ counter \in Nat /\ counter \in 0..Bits /\ latch \in ByteValues
      /\ address \in Nat /\ buffer \in [0..(size - 1) -> ByteValues] /\ Bits \in Nat /\ Bits >= 3
      /\ size \in Nat /\ size > 0 /\ size \in Sizes
  BY Constants DEF TypeOK
<1>2. latch \in Nat /\ latch \div 2 \in Nat
  BY LatchType
<1>0. PICK l \in ByteValues : l = (2 * latch + host_sda) % ByteSize
  BY LatchType
<1>3. ByteValues \subseteq Nat /\ ByteSize \in Nat /\ ByteSize > 1
  BY Constants DEF ByteValues
<1>18. l \in ByteValues /\ l \in Nat
  BY <1>3
<1>19. 0 \in 0..Bits /\ address \in Nat /\ address + l \in Nat /\ l * ByteSize \in Nat
  BY <1>1, <1>3, <1>18
<1>4. CASE state \in {"start", "address_hi", "address", "write"} /\ counter # 1
  <2>1. counter > 0
    BY <1>4 DEF CanRise
  <2>2. /\ state' = state /\ counter' = counter - 1 /\ latch' = l
        /\ address' = address /\ buffer' = buffer
    BY <1>0, <1>1, <1>4, RiseBit
  <2>3. counter - 1 \in 0..Bits
    BY <1>1, <2>1
  <2>4. state = "write" => address < size
    BY DEF CanRise
  <2> QED BY ONLY <1>1, <1>2, <1>4, <2>2, <2>3, <2>4
<1>5. CASE state = "start" /\ counter = 1
  <2>1. /\ state' = "device_ack" /\ counter' = 0 /\ latch' = l
        /\ address' = address /\ buffer' = buffer
    BY <1>0, <1>1, <1>5, RiseLastOfDevice
  <2> QED BY ONLY <1>19, <1>18, <1>5, <2>1 DEF States
<1>6. CASE state = "address_hi" /\ counter = 1
  <2>1. /\ state' = "address_hi_ack" /\ counter' = 0 /\ latch' = l
        /\ address' = l * ByteSize /\ buffer' = buffer
    BY <1>0, <1>1, <1>6, RiseLastOfHigh
  <2>2. address' \in Nat
    BY ONLY <1>19, <2>1
  <2> QED BY ONLY <1>19, <1>18, <1>6, <2>1, <2>2 DEF States
<1>7. CASE state = "address" /\ counter = 1
  <2>1. /\ state' = "address_ack" /\ counter' = 0 /\ latch' = l
        /\ address' = address + l /\ buffer' = buffer
    BY <1>0, <1>1, <1>7, RiseLastOfLow
  <2>2. address' \in Nat
    BY ONLY <1>19, <2>1
  <2> QED BY ONLY <1>19, <1>18, <1>7, <2>1, <2>2 DEF States
<1>8. CASE state = "write" /\ counter = 1
  <2>1. /\ state' = "write_ack" /\ counter' = 0 /\ latch' = l
        /\ address' = address /\ buffer' = [buffer EXCEPT ![address] = l]
    BY <1>0, <1>1, <1>8, RiseLastOfData
  <2>2. address < size /\ address \in 0..(size - 1)
    BY <1>1, <1>8 DEF CanRise
  <2>3. buffer' = [buffer EXCEPT ![address] = (2 * latch + host_sda) % ByteSize]
    BY ONLY <1>0, <2>1, Zenon
  <2>4. 0 \in 0..Bits
    BY ONLY <1>1
  <2> QED BY ONLY <1>1, <1>8, <2>1, <2>2, <2>3, <2>4, Zenon DEF States
<1>9. CASE state = "device_ack" /\ latch % 2 = 1
  <2>1. /\ state' = "read" /\ counter' = Bits /\ latch' = buffer[IF Short THEN latch \div 2 ELSE address]
        /\ address' = (IF Short THEN latch \div 2 ELSE address) /\ buffer' = buffer
    BY <1>1, <1>9, RiseToRead
  <2>2. PICK a : a = (IF Short THEN latch \div 2 ELSE address)
    OBVIOUS
  <2>3. a \in 0..(size - 1)
    <3>1. CASE Short
      <4>1. 2 * size = ByteSize
        BY <1>1, <3>1, Constants DEF Short
      <4>2. latch < ByteSize
        BY <1>1, <1>3 DEF ByteValues
      <4>3. latch \div 2 < size
        BY ONLY <1>1, <1>2, <4>1, <4>2
      <4> QED BY ONLY <1>1, <1>2, <2>2, <3>1, <4>3
    <3>2. CASE ~Short
      <4>1. address < size
        BY <1>9, <3>2 DEF CanRise
      <4> QED BY ONLY <1>1, <2>2, <3>2, <4>1
    <3> QED BY <3>1, <3>2
  <2>4. address' = a /\ latch' = buffer[a]
    BY ONLY <2>1, <2>2
  <2>5. a \in Nat /\ a < size
    BY ONLY <1>1, <2>3
  <2>6. Bits \in 0..Bits
    BY ONLY <1>1
  <2> QED BY ONLY <1>1, <1>9, <2>1, <2>3, <2>4, <2>5, <2>6 DEF States
<1>10. CASE state = "device_ack" /\ latch % 2 # 1 /\ Short
  <2>1. /\ state' = "write" /\ counter' = Bits /\ latch' = latch
        /\ address' = latch \div 2 /\ buffer' = buffer
    BY <1>1, <1>10, RiseToWrite
  <2>2. 2 * size = ByteSize
    BY <1>1, <1>10, Constants DEF Short
  <2>3. latch < ByteSize
    BY <1>1, <1>3 DEF ByteValues
  <2>4. latch \div 2 < size
    BY ONLY <1>1, <1>2, <2>2, <2>3
  <2>6. Bits \in 0..Bits
    BY ONLY <1>1
  <2> QED BY ONLY <1>1, <1>2, <1>10, <2>1, <2>4, <2>6 DEF States
<1>11. CASE state = "device_ack" /\ latch % 2 # 1 /\ ~Short
  <2>1. state' \in {"address", "address_hi"} /\ counter' = Bits /\ latch' = latch /\ buffer' = buffer
        /\ address' \in {address, ((latch \div 2) % 8) * ByteSize}
    BY <1>1, <1>11, RiseToLow, RiseToHigh
  <2>2. ((latch \div 2) % 8) * ByteSize \in Nat
    <3>1. PICK x \in Nat : x = (latch \div 2) % 8
      BY <1>2
    <3> QED BY ONLY <1>3, <3>1
  <2>6. Bits \in 0..Bits
    BY ONLY <1>1
  <2> QED BY ONLY <1>1, <1>2, <1>11, <2>1, <2>2, <2>6 DEF States
<1>12. CASE state = "address_hi_ack"
  <2>1. /\ state' = "address" /\ counter' = Bits /\ latch' = latch
        /\ address' = address /\ buffer' = buffer
    BY <1>1, <1>12, RiseHighAck
  <2>6. Bits \in 0..Bits
    BY ONLY <1>1
  <2> QED BY ONLY <1>1, <1>12, <2>1, <2>6 DEF States
<1>13. CASE state = "address_ack"
  <2>1. /\ state' = "write" /\ counter' = Bits /\ latch' = latch
        /\ address' = address % size /\ buffer' = buffer
    BY <1>1, <1>13, RiseAddressAck
  <2>2. address % size \in Nat /\ address % size < size
    BY ONLY <1>1
  <2>6. Bits \in 0..Bits
    BY ONLY <1>1
  <2> QED BY ONLY <1>1, <1>13, <2>1, <2>2, <2>6 DEF States
<1>14. CASE state = "read"
  <2>1. /\ state' = (IF counter = 1 THEN "read_ack" ELSE "read") /\ counter' = counter - 1 /\ latch' = latch
        /\ address' = address /\ buffer' = buffer
    BY <1>1, <1>14, RiseRead
  <2>2. address < size /\ counter > 0
    BY <1>14 DEF CanRise
  <2>3. counter - 1 \in 0..Bits
    BY ONLY <1>1, <2>2
  <2> QED BY ONLY <1>1, <1>14, <2>1, <2>2, <2>3 DEF States
<1>15. CASE state = "read_ack"
  <2>1. /\ state' = "read" /\ counter' = Bits /\ latch' = buffer[(address + 1) % size]
        /\ address' = (address + 1) % size /\ buffer' = buffer
    BY <1>1, <1>15, RiseReadAck
  <2>2. PICK a \in 0..(size - 1) : a = (address + 1) % size
    BY ONLY <1>1
  <2>3. address' = a /\ latch' = buffer[a] /\ a \in Nat /\ a < size
    BY ONLY <1>1, <2>1, <2>2
  <2>6. Bits \in 0..Bits
    BY ONLY <1>1
  <2> QED BY ONLY <1>1, <1>15, <2>1, <2>2, <2>3, <2>6 DEF States
<1>16. CASE state = "write_ack"
  <2>1. /\ state' = "write" /\ counter' = Bits /\ latch' = latch
        /\ address' = (address + 1) % size /\ buffer' = buffer
    BY <1>1, <1>16, RiseWriteAck
  <2>2. (address + 1) % size \in Nat /\ (address + 1) % size < size
    BY ONLY <1>1
  <2>6. Bits \in 0..Bits
    BY ONLY <1>1
  <2> QED BY ONLY <1>1, <1>16, <2>1, <2>2, <2>6 DEF States
<1>17. CASE state = "idle"
  <2>1. /\ state' = "idle" /\ counter' = counter /\ latch' = latch
        /\ address' = address /\ buffer' = buffer
    BY <1>1, <1>17, RiseIdle
  <2> QED BY ONLY <1>1, <1>17, <2>1 DEF States
<1> QED BY ONLY <1>1, <1>4, <1>5, <1>6, <1>7, <1>8, <1>9, <1>10, <1>11, <1>12, <1>13, <1>14, <1>15, <1>16, <1>17
        DEF States

\* However it falls.
LEMMA FallLines ==
  ASSUME TypeOK, MakeAccess, scl = 1, Lines.scl = 0
  PROVE  /\ scl' = 0 /\ host_sda' = Lines.sda /\ UNCHANGED <<buffer, state, counter, address, at_risk, resets>>
         /\ slave_sda' \in {0, 1} /\ latch' \in ByteValues
         /\ state # "read" => latch' = latch
<1>1. latch \in Nat /\ latch \in ByteValues /\ ByteSize \in Nat \ {0} /\ latch < ByteSize
  BY Constants DEF TypeOK, ByteValues
<1>2. UNCHANGED <<at_risk, resets>>
  BY Risks
<1>3. CASE state \in Acks
  BY <1>1, <1>2, <1>3, FallAcks DEF Still, Acks
<1>4. CASE state \notin Acks /\ state # "read"
  BY <1>1, <1>2, <1>4, FallElse DEF Still
<1>5. CASE state = "read"
  <2>1. /\ UNCHANGED <<buffer, state, counter, address>> /\ scl' = 0 /\ host_sda' = Lines.sda
        /\ slave_sda' = latch \div 2^(Bits - 1) /\ latch' = (2 * latch) % ByteSize
    BY <1>5, FallRead DEF ByteSize
  <2>2. Left(latch, 0) = latch /\ Left(latch, 0) \div 2^(Bits - 1) = BitOf(latch, 0 + 1)
    BY <1>1, Constants, GoesOutStarts, GoesOutNext
  <2>3. BitOf(latch, 0 + 1) \in {0, 1}
    BY <1>1, Constants, TopType
  <2>4. (2 * latch) % ByteSize \in ByteValues
    BY <1>1 DEF ByteValues
  <2> QED BY ONLY <1>2, <1>5, <2>1, <2>2, <2>3, <2>4
<1> QED BY <1>3, <1>4, <1>5

LEMMA ByteLinesNext ==
  ASSUME IInv, MakeAccess, stage \in ByteStages, NEW q \in Nat, NEW p \in {0, 1, 2}, step = 3 * q + p
  PROVE  /\ scl' = (IF p = 1 THEN 1 ELSE 0) /\ host_sda' = BitOut(q + 1) /\ host_sda' \in {0, 1}
<1>1. q \in 0..Bits /\ Lines.sda = BitOut(q + 1) /\ Lines.scl = (IF p = 1 THEN 1 ELSE 0)
  BY ByteStep DEF IInv
<1>2. BitOut(q + 1) \in {0, 1}
  BY <1>1, BitOutFacts DEF IInv, MakeAccess
<1>3. scl' = Lines.scl /\ host_sda' = Lines.sda
  <2>1. TypeOK
    BY DEF IInv
  <2>2. CASE p = 0
    BY ByteLines, SetUp, <2>2
  <2>3. CASE p = 1
    BY ByteLines, RiseLines, <2>1, <2>3
  <2>4. CASE p = 2
    BY ByteLines, FallLines, <2>1, <2>4
  <2> QED BY <2>2, <2>3, <2>4
<1> QED BY <1>1, <1>2, <1>3

-----------------------------------------------------------------------------
(* A byte comes in.                                                            *)

\* A bit of a byte comes in.
LEMMA LatchNext ==
  ASSUME NEW v \in ByteValues, NEW l \in ByteValues, NEW q \in 0..(Bits - 1), l % 2^q = Top(v, q),
         NEW b, b = BitOf(v, q + 1), NEW m, m = (2 * l + b) % ByteSize
  PROVE  /\ m % 2^(q + 1) = Top(v, q + 1) /\ m \in ByteValues
         /\ q + 1 = Bits => m = v
<1>1. v \in Nat /\ l \in Nat /\ ByteSize \in Nat \ {0} /\ q + 1 \in 0..Bits
  BY Constants DEF ByteValues
<1>2. b \in {0, 1}
  BY <1>1, TopType
<1>3. m \in ByteValues
  <2>1. 2 * l + b \in Nat
    BY <1>1, <1>2
  <2> QED BY <1>1, <2>1 DEF ByteValues
<1>4. m % 2^(q + 1) = Top(v, q + 1)
  BY <1>1, ComesInNext
<1>5. q + 1 = Bits => m = v
  BY <1>3, <1>4, ComesInEnds
<1> QED BY <1>3, <1>4, <1>5

InStates(in, ack) ==
  <<in, ack>> \in {<<"start", "device_ack">>, <<"address_hi", "address_hi_ack">>,
                   <<"address", "address_ack">>, <<"write", "write_ack">>}

LEMMA InStatesAre ==
  ASSUME NEW in, NEW ack, InStates(in, ack)
  PROVE  /\ in \in {"start", "address_hi", "address", "write"}
         /\ ack \in {"device_ack", "address_hi_ack", "address_ack", "write_ack"}
         /\ in = "start" <=> ack = "device_ack"
         /\ in = "address_hi" <=> ack = "address_hi_ack"
         /\ in = "address" <=> ack = "address_ack"
         /\ in = "write" <=> ack = "write_ack"
BY DEF InStates

\* A byte comes in, access by access.
LEMMA ComesInSetUp ==
  ASSUME IInv, MakeAccess, stage \in ByteStages, NEW q \in Nat, step = 3 * q,
         NEW in, NEW ack, ComesIn(in, ack, Sent)
  PROVE  ComesIn(in, ack, Sent)' /\ Still /\ Risen = q /\ Risen' = q /\ UNCHANGED <<at_risk, resets, slave_sda>>
<1>1. step = 3 * q + 0
  OBVIOUS
<1>2. Sent' = Sent
  BY <1>1, SameByte
<1>3. Risen = q /\ Risen' = q
  BY <1>1, ByteStep DEF IInv
<1>4. Still /\ UNCHANGED slave_sda
  BY <1>1, ByteLines, SetUp
<1>5. UNCHANGED <<at_risk, resets>>
  BY <1>1, ByteLines, Risks
<1>6. ComesIn(in, ack, Sent)'
  BY ONLY <1>2, <1>3, <1>4, ComesIn(in, ack, Sent) DEF ComesIn, Top, Still
<1> QED BY <1>3, <1>4, <1>5, <1>6

LEMMA ComesInRises ==
  ASSUME IInv, MakeAccess, stage \in ByteStages, ~Receiving, NEW q \in Nat, q < Bits, step = 3 * q + 1,
         NEW in, NEW ack, InStates(in, ack), ComesIn(in, ack, Sent)
  PROVE  /\ ComesIn(in, ack, Sent)' /\ Risen = q /\ Risen' = q + 1 /\ UNCHANGED <<at_risk, resets, slave_sda>>
         /\ q < Bits - 1 => buffer' = buffer /\ address' = address
         /\ q = Bits - 1 =>
              /\ buffer' = IF in = "write" THEN [buffer EXCEPT ![address] = Sent] ELSE buffer
              /\ address' = CASE in = "address_hi" -> Sent * ByteSize
                              [] in = "address" -> address + Sent
                              [] OTHER -> address
<1>1. PICK v : v = Sent
  OBVIOUS
<1>2. v \in ByteValues /\ Sent' = v
  <2>1. request # NoRequest
    BY DEF MakeAccess
  <2>2. TypeOK /\ StepsOK /\ RouteOK
    BY DEF IInv
  <2>3. Sent \in ByteValues
    BY ONLY <2>1, <2>2, stage \in ByteStages, ~Receiving, SentFacts
  <2>4. Sent' = Sent
    BY SameByte
  <2> QED BY <1>1, <2>3, <2>4
<1>3. Risen = q /\ Risen' = q + 1 /\ q \in 0..(Bits - 1)
  BY ByteStep, Constants DEF IInv
<1>4. scl = 0 /\ Lines.scl = 1 /\ Lines.sda = host_sda /\ host_sda \in {0, 1} /\ host_sda = BitOut(q + 1)
  BY ByteLines
<1>5. host_sda = BitOf(v, q + 1)
  <2>1. request # NoRequest
    BY DEF MakeAccess
  <2> QED BY <1>1, <1>3, <1>4, <2>1, BitOutFacts, Constants DEF IInv
<1>6. state = in /\ counter = Bits - q /\ latch % 2^q = Top(v, q)
  BY <1>1, <1>3, Constants DEF ComesIn
<1>7. latch \in ByteValues
  BY DEF IInv, TypeOK
<1>8. PICK m : m = (2 * latch + host_sda) % ByteSize
  OBVIOUS
<1>9. /\ m % 2^(q + 1) = Top(v, q + 1) /\ m \in ByteValues
      /\ q + 1 = Bits => m = v
  BY <1>2, <1>3, <1>5, <1>6, <1>7, <1>8, LatchNext
<1>10. in \in {"start", "address_hi", "address", "write"}
  BY InStatesAre
<1>11. Bits \in Nat /\ UNCHANGED <<at_risk, resets, slave_sda>>
  BY Constants, <1>4, RiseLines DEF IInv
<1>12. CASE q < Bits - 1
  <2>1. counter \in Nat /\ counter # 1 /\ counter - 1 = Bits - (q + 1) /\ q + 1 < Bits
    BY <1>3, <1>6, <1>11, <1>12
  <2>2. /\ state' = in /\ counter' = Bits - (q + 1) /\ latch' = m
        /\ address' = address /\ buffer' = buffer
    BY <1>4, <1>6, <1>8, <1>10, <2>1, RiseBit
  <2>3. ComesIn(in, ack, Sent)'
    BY ONLY <1>2, <1>3, <1>9, <2>1, <2>2 DEF ComesIn, Top
  <2>4. q # Bits - 1
    BY <1>11, <1>12
  <2> QED BY <1>3, <1>11, <2>2, <2>3, <2>4
<1>13. CASE q = Bits - 1
  <2>1. counter = 1 /\ q + 1 = Bits /\ ~(q + 1 < Bits) /\ ~(q < Bits - 1)
    BY <1>3, <1>6, <1>11, <1>13
  <2>2. m = v
    BY <1>9, <2>1
  <2>3. /\ state' = ack /\ latch' = v
        /\ buffer' = IF in = "write" THEN [buffer EXCEPT ![address] = v] ELSE buffer
        /\ address' = CASE in = "address_hi" -> v * ByteSize
                        [] in = "address" -> address + v
                        [] OTHER -> address
    <3>1. CASE in = "start"
      <4>1. state = "start" /\ ack = "device_ack"
        BY <1>6, <3>1, InStatesAre
      <4>2. /\ state' = "device_ack" /\ latch' = m
            /\ buffer' = buffer
            /\ address' = address
        BY ONLY MakeAccess, <1>4, <1>8, <2>1, <4>1, RiseLastOfDevice
      <4> QED BY ONLY <2>2, <3>1, <4>1, <4>2
    <3>2. CASE in = "address_hi"
      <4>1. state = "address_hi" /\ ack = "address_hi_ack"
        BY <1>6, <3>2, InStatesAre
      <4>2. /\ state' = "address_hi_ack" /\ latch' = m
            /\ buffer' = buffer
            /\ address' = m * ByteSize
        BY ONLY MakeAccess, <1>4, <1>8, <2>1, <4>1, RiseLastOfHigh
      <4> QED BY ONLY <2>2, <3>2, <4>1, <4>2
    <3>3. CASE in = "address"
      <4>1. state = "address" /\ ack = "address_ack"
        BY <1>6, <3>3, InStatesAre
      <4>2. /\ state' = "address_ack" /\ latch' = m
            /\ buffer' = buffer
            /\ address' = address + m
        BY ONLY MakeAccess, <1>4, <1>8, <2>1, <4>1, RiseLastOfLow
      <4> QED BY ONLY <2>2, <3>3, <4>1, <4>2
    <3>4. CASE in = "write"
      <4>1. state = "write" /\ ack = "write_ack"
        BY <1>6, <3>4, InStatesAre
      <4>2. /\ state' = "write_ack" /\ latch' = m
            /\ buffer' = [buffer EXCEPT ![address] = m]
            /\ address' = address
        BY ONLY MakeAccess, <1>4, <1>8, <2>1, <4>1, RiseLastOfData
      <4> QED BY ONLY <2>2, <3>4, <4>1, <4>2
    <3> QED BY <1>10, <3>1, <3>2, <3>3, <3>4
  <2>4. ComesIn(in, ack, Sent)'
    BY ONLY <1>2, <1>3, <2>1, <2>3 DEF ComesIn, Top
  <2>5. /\ buffer' = IF in = "write" THEN [buffer EXCEPT ![address] = Sent] ELSE buffer
        /\ address' = CASE in = "address_hi" -> Sent * ByteSize
                        [] in = "address" -> address + Sent
                        [] OTHER -> address
    BY ONLY <1>1, <2>3, Zenon
  <2> QED BY ONLY <1>3, <1>11, <2>1, <2>4, <2>5, Zenon
<1>14. q < Bits - 1 \/ q = Bits - 1
  BY <1>3, <1>11
<1> QED BY ONLY <1>12, <1>13, <1>14, Zenon

LEMMA ComesInFalls ==
  ASSUME IInv, MakeAccess, stage \in ByteStages, NEW q \in Nat, q < Bits, step = 3 * q + 2,
         NEW in, NEW ack, InStates(in, ack), ComesIn(in, ack, Sent)
  PROVE  ComesIn(in, ack, Sent)' /\ Still /\ Risen = q + 1 /\ Risen' = q + 1 /\ UNCHANGED <<at_risk, resets>>
<1>1. ~(q = Bits) /\ q + 1 \in 0..Bits
  BY Constants
<1>2. Sent' = Sent
  BY <1>1, SameByte
<1>3. Risen = q + 1 /\ Risen' = q + 1
  BY <1>1, ByteStep DEF IInv
<1>4. state # "read"
  <2>1. Risen < Bits \/ Risen = Bits
    BY <1>1, <1>3, Constants
  <2>2. state \in {in, ack}
    BY ONLY <2>1, ComesIn(in, ack, Sent) DEF ComesIn
  <2> QED BY ONLY <2>2, InStates(in, ack) DEF InStates
<1>5. Still /\ UNCHANGED <<at_risk, resets>>
  BY <1>4, ByteLines, FallLines DEF Still, IInv
<1>6. ComesIn(in, ack, Sent)'
  BY ONLY <1>2, <1>3, <1>5, ComesIn(in, ack, Sent) DEF ComesIn, Top, Still
<1> QED BY <1>3, <1>5, <1>6

-----------------------------------------------------------------------------
(* The game goes on: steps, stages, lines and what it has read.                *)

\* The game reads a bit of the byte: the line is the EEPROM's.
LEMMA SampleStep ==
  ASSUME IInv, MakeAccess, Receiving, NEW q \in Nat, q < Bits, step = 3 * q + 1
  PROVE  /\ q < Bits - 1 => sampled' = Top(buffer[Here], q + 1) /\ result' = result
         /\ q = Bits - 1 => sampled' = 0 /\ result' = Append(result, buffer[Here])
         /\ buffer[Here] \in ByteValues
<1>1. stage \in ByteStages /\ stage = "data" /\ request.op = "read" /\ Bits \in Nat
      /\ request # NoRequest /\ TypeOK /\ StepsOK /\ RouteOK
  BY Constants DEF Receiving, ByteStages, IInv, MakeAccess
<1>2. q \in 0..Bits /\ q \in 0..(Bits - 1) /\ Risen = q /\ step \div 3 = q /\ step % 3 = 1
      /\ (Completes <=> q = Bits - 1)
  BY <1>1, ByteStep
<1>3. buffer[Here] \in ByteValues
  BY <1>1, RequestFacts DEF TypeOK
<1>4. PICK b \in Nat : b = buffer[Here]
  BY <1>3, Constants DEF ByteValues
<1>5. sampled = Top(b, q) /\ slave_sda = BitOf(b, q + 1)
  <2>1. Through
    BY <1>1 DEF Through
  <2>2. ReadOK
    BY <2>1 DEF IInv, ThroughOK
  <2> QED BY <1>1, <1>2, <1>4, <2>2 DEF ReadOK
<1>6. host_sda' = 1 /\ slave_sda' = slave_sda
  <2>1. host_sda' = BitOut(q + 1)
    BY <1>1, ByteLinesNext
  <2>2. BitOut(q + 1) = 1
    BY <1>1, <1>2, BitOutFacts
  <2>3. slave_sda' = slave_sda
    BY <1>1, ByteLines, RiseLines
  <2> QED BY <2>1, <2>2, <2>3
<1>7. Reads
  BY <1>1, <1>2 DEF Reads
<1>8. PICK w : w = Written(Wire, Lines)
  OBVIOUS
<1>9. w.host_sda = 1 /\ w.slave_sda = BitOf(b, q + 1)
  BY <1>5, <1>6, <1>8, Moves
<1>10. BitOf(b, q + 1) \in {0, 1} /\ Top(b, q) \in Nat /\ Top(b, q + 1) = 2 * Top(b, q) + BitOf(b, q + 1)
  BY <1>1, <1>2, TopType, TopNext
<1>11. get_sda(w) = BitOf(b, q + 1)
  BY <1>9, <1>10 DEF get_sda
<1>12. 2 * sampled + get_sda(w) = Top(b, q + 1)
  BY ONLY <1>5, <1>10, <1>11
<1>13. /\ sampled' = CASE ~Reads -> sampled [] Reads /\ Completes -> 0 [] OTHER -> 2 * sampled + get_sda(w)
       /\ result' = IF Reads /\ Completes THEN Append(result, 2 * sampled + get_sda(w)) ELSE result
  BY <1>8 DEF MakeAccess
<1>14. CASE q = Bits - 1
  <2>1. Top(b, q + 1) = b
    <3>1. q + 1 = Bits
      BY <1>1, <1>14
    <3> QED BY <1>3, <1>4, <3>1, TopEnds
  <2>2. sampled' = 0 /\ result' = Append(result, b)
    BY ONLY <1>2, <1>7, <1>12, <1>13, <1>14, <2>1
  <2>3. ~(q < Bits - 1)
    BY <1>1, <1>14
  <2> QED BY ONLY <1>3, <1>4, <2>2, <2>3
<1>15. CASE q < Bits - 1
  <2>1. q # Bits - 1
    BY <1>1, <1>15
  <2>2. sampled' = Top(b, q + 1) /\ result' = result
    BY ONLY <1>2, <1>7, <1>12, <1>13, <2>1
  <2> QED BY ONLY <1>3, <1>4, <2>1, <2>2
<1> QED BY <1>1, <1>2, <1>14, <1>15

LEMMA NoSample ==
  ASSUME MakeAccess, ~Reads
  PROVE  sampled' = sampled /\ result' = result
BY DEF MakeAccess

LEMMA NextSteps ==
  ASSUME IInv, MakeAccess
  PROVE  StepsOK'
<1>1. step \in Nat /\ Bits \in Nat /\ Bits >= 3
  BY Constants DEF IInv, TypeOK
<1>2. request' # NoRequest /\ request # NoRequest /\ stage # "made" /\ stage \in Stages
  BY RequestStep DEF IInv, MakeAccess, TypeOK
<1>3. CASE step + 1 < Accesses /\ step' = step + 1 /\ stage' = stage
  BY ONLY <1>1, <1>2, <1>3 DEF StepsOK, Accesses, ByteStages
<1>4. CASE step' = 0
  <2>1. step' < 4 /\ step' < 3 /\ step' < 3 * Bits + 3
    BY <1>1, <1>4
  <2> QED BY ONLY <1>2, <2>1 DEF StepsOK
<1> QED BY <1>3, <1>4 DEF MakeAccess

LEMMA NextStageIn ==
  ASSUME StepsOK, MakeAccess, TypeOK
  PROVE  /\ step + 1 < Accesses => step' = step + 1 /\ stage' = stage
         /\ step + 1 >= Accesses => step' = 0 /\ stage' = NextStage
         /\ Accesses \in Nat /\ stage' \in Stages
<1>1. step \in Nat /\ Bits \in Nat /\ stage \in Stages /\ stage # "made"
  BY Constants DEF TypeOK, MakeAccess
<1>2. Accesses \in Nat
  BY <1>1 DEF Accesses
<1>3. NextStage \in Stages
  BY <1>1 DEF NextStage, Stages
<1> QED BY <1>1, <1>2, <1>3 DEF MakeAccess

LEMMA NextRoute ==
  ASSUME IInv, MakeAccess
  PROVE  RouteOK'
<1>1. step \in Nat /\ Bits \in Nat /\ Bits >= 3 /\ stage \in Stages /\ stage # "made" /\ request # NoRequest
      /\ TypeOK /\ StepsOK
  BY Constants DEF IInv, TypeOK, MakeAccess
<1>2. request'.op = request.op /\ request'.addr = request.addr /\ request'.data = request.data
      /\ request'.done = (IF Completes THEN request.done + 1 ELSE request.done) /\ size' = size
  BY <1>1, RequestStep
<1>3. /\ request.op \in {"read", "write"} /\ request.done \in Nat /\ Len(request.data) \in Nat
      /\ Len(request.data) > 0 /\ request.done \in 0..Len(request.data)
  BY <1>1, RequestFacts
<1>4. /\ step + 1 < Accesses => step' = step + 1 /\ stage' = stage
      /\ step + 1 >= Accesses => step' = 0 /\ stage' = NextStage
      /\ Accesses \in Nat
  BY <1>1, NextStageIn
<1>5. Completes => stage = "data" /\ step = 3 * Bits - 2 /\ request.done < Len(request.data)
  BY <1>1 DEF Completes, IInv, RouteOK
<1>6. Short' <=> Short
  BY <1>2 DEF Short
<1>7. (size < WordFrom)' <=> size < WordFrom
  BY <1>2
<1>8. (size >= WordFrom) <=> ~(size < WordFrom)
  BY <1>1, Constants DEF TypeOK
<1>9. RouteOK
  BY DEF IInv
<1>10. CASE step + 1 < Accesses
  <2>1. step' = step + 1 /\ stage' = stage
    BY <1>4, <1>10
  <2>2. CASE stage = "data"
    BY ONLY <1>1, <1>2, <1>3, <1>5, <1>9, <2>1, <2>2 DEF RouteOK, Completes
  <2>3. CASE stage # "data"
    BY ONLY <1>1, <1>2, <1>5, <1>6, <1>9, <2>1, <2>3 DEF RouteOK
  <2> QED BY <2>2, <2>3
<1>11. CASE step + 1 >= Accesses
  <2>1. step' = 0 /\ stage' = NextStage
    BY <1>4, <1>11
  <2>2. CASE stage = "data"
    <3>1. ~Completes /\ ~(step < 3 * Bits - 1)
      BY <1>1, <1>11, <2>2 DEF Completes, Accesses
    <3>2. stage' = IF request.done < Len(request.data) THEN "data" ELSE "stop"
      BY <2>1, <2>2 DEF NextStage
    <3>3. 0 < 3 * Bits - 1
      BY <1>1
    <3> QED BY ONLY <1>1, <1>2, <1>3, <1>9, <2>1, <2>2, <3>1, <3>2, <3>3 DEF RouteOK
  <2>3. CASE stage # "data"
    <3>1. request'.done = request.done /\ 0 < 3 * Bits - 1
      BY <1>1, <1>2, <1>5, <2>3
    <3>2. CASE stage = "start"
      BY ONLY <1>1, <1>2, <1>9, <2>1, <3>1, <3>2 DEF RouteOK, NextStage
    <3>3. CASE stage = "device"
      BY ONLY <1>1, <1>2, <1>3, <1>6, <1>8, <1>9, <2>1, <3>1, <3>3 DEF RouteOK, NextStage
    <3>4. CASE stage = "high"
      BY ONLY <1>1, <1>2, <1>6, <1>9, <2>1, <3>1, <3>4 DEF RouteOK, NextStage
    <3>5. CASE stage = "low"
      BY ONLY <1>1, <1>2, <1>3, <1>6, <1>9, <2>1, <3>1, <3>5 DEF RouteOK, NextStage
    <3>6. CASE stage = "restart"
      BY ONLY <1>1, <1>2, <1>6, <1>9, <2>1, <3>1, <3>6 DEF RouteOK, NextStage
    <3>7. CASE stage = "device_again"
      BY ONLY <1>1, <1>2, <1>3, <1>6, <1>9, <2>1, <3>1, <3>7 DEF RouteOK, NextStage
    <3>8. CASE stage = "stop"
      BY ONLY <1>1, <1>2, <1>9, <2>1, <3>1, <3>8 DEF RouteOK, NextStage
    <3> QED BY <1>1, <2>3, <3>2, <3>3, <3>4, <3>5, <3>6, <3>7, <3>8 DEF Stages
  <2> QED BY <2>2, <2>3
<1> QED BY <1>1, <1>4, <1>10, <1>11

\* A start condition, in four accesses.
LEMMA StartLines ==
  ASSUME IInv, MakeAccess, stage \in {"start", "restart"}
  PROVE  /\ step \in 0..3 /\ scl \in {0, 1}
         /\ Lines.scl = (IF step \in {0, 3} THEN 0 ELSE 1) /\ Lines.sda = (IF step \in {0, 1} THEN 1 ELSE 0)
         /\ step = 1 => scl = 0 /\ host_sda = 1
         /\ step = 2 => scl = 1 /\ host_sda = 1
         /\ step = 3 => scl = 1 /\ host_sda = 0
         /\ stage = "restart" /\ step = 0 => scl = 0
         /\ IF step < 3 THEN step' = step + 1 /\ stage' = stage ELSE step' = 0 /\ stage' = NextStage
<1>1. step \in 0..3 /\ scl \in {0, 1} /\ request # NoRequest
  BY DEF IInv, TypeOK, StepsOK, MakeAccess
<1>2. Lines = Start[step + 1] /\ Accesses = 4
  BY DEF Lines, Accesses
<1>3. Lines.scl = (IF step \in {0, 3} THEN 0 ELSE 1) /\ Lines.sda = (IF step \in {0, 1} THEN 1 ELSE 0)
  <2>1. CASE step = 0
    BY <1>2, <2>1 DEF Start, Access
  <2>2. CASE step = 1
    BY <1>2, <2>2 DEF Start, Access
  <2>3. CASE step = 2
    BY <1>2, <2>3 DEF Start, Access
  <2>4. CASE step = 3
    BY <1>2, <2>4 DEF Start, Access
  <2> QED BY <1>1, <2>1, <2>2, <2>3, <2>4
<1>4. /\ step = 1 => scl = 0 /\ host_sda = 1
      /\ step = 2 => scl = 1 /\ host_sda = 1
      /\ step = 3 => scl = 1 /\ host_sda = 0
      /\ stage = "restart" /\ step = 0 => scl = 0
  BY <1>1 DEF IInv, LinesOK
<1>5. IF step < 3 THEN step' = step + 1 /\ stage' = stage ELSE step' = 0 /\ stage' = NextStage
  BY <1>1, <1>2 DEF MakeAccess
<1> QED BY <1>1, <1>3, <1>4, <1>5

\* A stop condition, in three.
LEMMA StopLines ==
  ASSUME IInv, MakeAccess, stage = "stop"
  PROVE  /\ step \in 0..2
         /\ Lines.scl = (IF step = 0 THEN 0 ELSE 1) /\ Lines.sda = (IF step = 2 THEN 1 ELSE 0)
         /\ step < 2 => scl = 0
         /\ step > 0 => host_sda = 0
         /\ step = 2 => scl = 1
         /\ IF step < 2 THEN step' = step + 1 /\ stage' = "stop" ELSE step' = 0 /\ stage' = "made"
<1>1. step \in 0..2 /\ request # NoRequest
  BY DEF IInv, TypeOK, StepsOK, MakeAccess
<1>2. Lines = Stop[step + 1] /\ Accesses = 3
  BY DEF Lines, Accesses
<1>3. Lines.scl = (IF step = 0 THEN 0 ELSE 1) /\ Lines.sda = (IF step = 2 THEN 1 ELSE 0)
  <2>1. CASE step = 0
    BY <1>2, <2>1 DEF Stop, Access
  <2>2. CASE step = 1
    BY <1>2, <2>2 DEF Stop, Access
  <2>3. CASE step = 2
    BY <1>2, <2>3 DEF Stop, Access
  <2> QED BY <1>1, <2>1, <2>2, <2>3
<1>4. /\ step < 2 => scl = 0
      /\ step > 0 => host_sda = 0
      /\ step = 2 => scl = 1
  BY <1>1 DEF IInv, LinesOK
<1>5. IF step < 2 THEN step' = step + 1 /\ stage' = "stop" ELSE step' = 0 /\ stage' = "made"
  BY <1>1, <1>2 DEF MakeAccess, NextStage
<1> QED BY <1>1, <1>3, <1>4, <1>5

\* The lines after an access, by the stage that it leaves the game in.
LinesAre ==
  \/ stage \in {"start", "restart"} /\ step = 1 /\ scl = 0 /\ host_sda = 1
  \/ stage \in {"start", "restart"} /\ step = 2 /\ scl = 1 /\ host_sda = 1
  \/ stage \in {"start", "restart"} /\ step = 3 /\ scl = 1 /\ host_sda = 0
  \/ stage = "stop" /\ step = 1 /\ scl = 0 /\ host_sda = 0
  \/ stage = "stop" /\ step = 2 /\ scl = 1 /\ host_sda = 0
  \/ stage = "made"
  \/ stage \in ByteStages /\ scl = 0 /\ step % 3 = 0
  \/ stage \in Stages /\ step = 0 /\ scl = 0
  \/ /\ stage \in ByteStages /\ scl = (IF step % 3 = 2 THEN 1 ELSE 0)
     /\ \E i \in Nat : step \div 3 = i /\ host_sda = BitOut(i + 1)

LEMMA LinesByStage == LinesAre => LinesOK
<1>1. stage \in ByteStages => stage \notin {"start", "restart"} /\ stage # "restart" /\ stage # "stop"
  BY DEF ByteStages
<1>2. ASSUME stage \in {"start", "restart"}, step = 1, scl = 0, host_sda = 1 PROVE LinesOK
  <2>1. CASE stage = "start"
    BY <1>2, <2>1 DEF LinesOK, ByteStages
  <2>2. CASE stage = "restart"
    BY <1>2, <2>2 DEF LinesOK, ByteStages
  <2> QED BY <1>2, <2>1, <2>2
<1>3. ASSUME stage \in {"start", "restart"}, step = 2, scl = 1, host_sda = 1 PROVE LinesOK
  <2>1. CASE stage = "start"
    BY <1>3, <2>1 DEF LinesOK, ByteStages
  <2>2. CASE stage = "restart"
    BY <1>3, <2>2 DEF LinesOK, ByteStages
  <2> QED BY <1>3, <2>1, <2>2
<1>4. ASSUME stage \in {"start", "restart"}, step = 3, scl = 1, host_sda = 0 PROVE LinesOK
  <2>1. CASE stage = "start"
    BY <1>4, <2>1 DEF LinesOK, ByteStages
  <2>2. CASE stage = "restart"
    BY <1>4, <2>2 DEF LinesOK, ByteStages
  <2> QED BY <1>4, <2>1, <2>2
<1>5. ASSUME stage = "stop", step = 1, scl = 0, host_sda = 0 PROVE LinesOK
  BY <1>5 DEF LinesOK, ByteStages
<1>6. ASSUME stage = "stop", step = 2, scl = 1, host_sda = 0 PROVE LinesOK
  BY <1>6 DEF LinesOK, ByteStages
<1>7. ASSUME stage = "made" PROVE LinesOK
  BY <1>7 DEF LinesOK, ByteStages
<1>8. ASSUME stage \in ByteStages, scl = 0, step % 3 = 0 PROVE LinesOK
  BY <1>1, <1>8, 0 # 2, Zenon DEF LinesOK
<1>9. ASSUME stage \in Stages, step = 0, scl = 0 PROVE LinesOK
  <2>1. 0 % 3 = 0
    OBVIOUS
  <2> QED BY <1>1, <1>9, <2>1, 0 # 1, 0 # 2, 0 # 3, ~(0 > 0), Zenon DEF LinesOK
<1>10. ASSUME stage \in ByteStages, scl = (IF step % 3 = 2 THEN 1 ELSE 0),
              NEW i \in Nat, step \div 3 = i, host_sda = BitOut(i + 1)
       PROVE  LinesOK
  BY <1>1, <1>10, Zenon DEF LinesOK
<1> QED BY <1>2, <1>3, <1>4, <1>5, <1>6, <1>7, <1>8, <1>9, <1>10 DEF LinesAre

LEMMA LinesByStageNext == LinesAre' => LinesOK'
BY LinesByStage, PTL

LEMMA NextLines ==
  ASSUME IInv, MakeAccess
  PROVE  LinesOK'
<1>1. TypeOK /\ stage \in Stages /\ stage # "made"
  BY DEF IInv, TypeOK, MakeAccess
<1>2. CASE stage \in ByteStages
  <2>1. PICK q \in Nat, p \in {0, 1, 2} : step = 3 * q + p
    BY <1>1, StepParts DEF TypeOK
  <2>2. scl' = (IF p = 1 THEN 1 ELSE 0) /\ host_sda' = BitOut(q + 1)
    BY <1>2, <2>1, ByteLinesNext
  <2>3. CASE q = Bits /\ p = 2
    <3>1. step' = 0 /\ stage' = NextStage
      BY <1>2, <2>1, <2>3, ByteStep DEF IInv
    <3>2. scl' = 0
      BY <2>2, <2>3
    <3> QED BY ONLY <3>1, <3>2 DEF LinesOK
  <2>4. CASE ~(q = Bits /\ p = 2)
    <3>1. stage' = stage /\ step' = step + 1
      BY <1>2, <2>1, <2>4, ByteStep DEF IInv
    <3>2. p # 2 => BitOut(q + 1)' = BitOut(q + 1)
      BY <1>2, <2>1, <2>4, SameByte
    <3>3. CASE p = 2
      <4>1. step' % 3 = 0 /\ scl' = 0
        BY <2>1, <2>2, <3>1, <3>3
      <4>9. LinesAre'
        BY ONLY <1>2, <3>1, <4>1 DEF LinesAre, Stages
      <4> QED BY <4>9, LinesByStageNext
    <3>4. CASE p # 2
      <4>1. step' % 3 = p + 1 /\ step' \div 3 = q /\ p + 1 # 0 /\ (p + 1 = 2 <=> p = 1)
        BY <2>1, <3>1, <3>4
      <4>2. host_sda' = BitOut(q + 1)'
        BY <2>2, <3>2, <3>4
      <4>3. scl' = (IF step' % 3 = 2 THEN 1 ELSE 0)
        BY ONLY <2>2, <4>1
      <4>4. LinesAre'
        BY ONLY <1>2, <3>1, <4>1, <4>2, <4>3, Zenon DEF LinesAre
      <4> QED BY <4>4, LinesByStageNext
    <3> QED BY <3>3, <3>4
  <2> QED BY <2>3, <2>4
<1>3. CASE stage \in {"start", "restart"}
  <2>1. CASE step = 0
    <3>1. scl' = 0 /\ host_sda' = 1
      BY <1>1, <1>3, <2>1, StartLines, SetUp, FallLines
    <3>2. step' = 1 /\ stage' = stage
      BY <1>3, <2>1, StartLines
    <3>9. LinesAre'
      BY ONLY <1>3, <3>1, <3>2 DEF LinesAre, Stages
    <3> QED BY <3>9, LinesByStageNext
  <2>2. CASE step = 1
    <3>1. scl' = 1 /\ host_sda' = 1
      BY <1>1, <1>3, <2>2, StartLines, RiseLines
    <3>2. step' = 2 /\ stage' = stage
      BY <1>3, <2>2, StartLines
    <3>9. LinesAre'
      BY ONLY <1>3, <3>1, <3>2 DEF LinesAre, Stages
    <3> QED BY <3>9, LinesByStageNext
  <2>3. CASE step = 2
    <3>1. scl' = 1 /\ host_sda' = 0
      BY <1>1, <1>3, <2>3, StartLines, StartEdge
    <3>2. step' = 3 /\ stage' = stage
      BY <1>3, <2>3, StartLines
    <3>9. LinesAre'
      BY ONLY <1>3, <3>1, <3>2 DEF LinesAre, Stages
    <3> QED BY <3>9, LinesByStageNext
  <2>4. CASE step = 3
    <3>1. scl' = 0
      BY <1>1, <1>3, <2>4, StartLines, FallLines
    <3>2. step' = 0 /\ stage' \in {"device", "device_again"}
      <4>1. step' = 0 /\ stage' = NextStage
        BY <1>3, <2>4, StartLines
      <4> QED BY ONLY <1>3, <4>1 DEF NextStage
    <3>9. LinesAre'
      BY ONLY <3>1, <3>2 DEF LinesAre, Stages
    <3> QED BY <3>9, LinesByStageNext
  <2> QED BY <1>3, <2>1, <2>2, <2>3, <2>4, StartLines
<1>4. CASE stage = "stop"
  <2>1. CASE step = 0
    <3>1. scl' = 0 /\ host_sda' = 0
      BY <1>1, <1>4, <2>1, StopLines, SetUp
    <3>2. step' = 1 /\ stage' = stage
      BY <1>4, <2>1, StopLines
    <3>9. LinesAre'
      BY ONLY <1>4, <3>1, <3>2 DEF LinesAre, Stages
    <3> QED BY <3>9, LinesByStageNext
  <2>2. CASE step = 1
    <3>1. scl' = 1 /\ host_sda' = 0
      BY <1>1, <1>4, <2>2, StopLines, RiseLines
    <3>2. step' = 2 /\ stage' = stage
      BY <1>4, <2>2, StopLines
    <3>9. LinesAre'
      BY ONLY <1>4, <3>1, <3>2 DEF LinesAre, Stages
    <3> QED BY <3>9, LinesByStageNext
  <2>3. CASE step = 2
    <3>1. stage' = "made"
      BY <1>4, <2>3, StopLines
    <3>9. LinesAre'
      BY ONLY <3>1 DEF LinesAre, Stages
    <3> QED BY <3>9, LinesByStageNext
  <2> QED BY <1>4, <2>1, <2>2, <2>3, StopLines
<1> QED BY <1>1, <1>2, <1>3, <1>4 DEF Stages, ByteStages

LEMMA NextSampled ==
  ASSUME IInv, MakeAccess
  PROVE  SampledOK'
<1>1. TypeOK /\ stage \in Stages /\ stage # "made" /\ request # NoRequest
  BY DEF IInv, TypeOK, MakeAccess
<1>2. request'.op = request.op /\ request.op \in {"read", "write"}
  BY <1>1, RequestStep, RequestFacts
<1>3. CASE Reads /\ step < 3 * Bits
  <2>1. PICK q \in Nat : step = 3 * q + 1 /\ q < Bits
    <3>1. PICK q \in Nat, p \in {0, 1, 2} : step = 3 * q + p /\ step % 3 = p
      BY <1>1, StepParts DEF TypeOK
    <3> QED BY <1>3, <3>1, Constants DEF Reads
  <2>2. Receiving /\ stage \in ByteStages
    BY <1>3 DEF Reads, Receiving, ByteStages
  <2>3. /\ q = Bits - 1 => sampled' = 0
        /\ Risen' = q + 1 /\ stage' = stage
    <3>1. ~(q = Bits /\ 1 = 2)
      OBVIOUS
    <3> QED BY <2>1, <2>2, <3>1, SampleStep, ByteStep DEF IInv
  <2>4. Receiving' /\ (Risen' >= Bits => q = Bits - 1)
    BY <1>2, <2>1, <2>2, <2>3, Constants DEF Receiving
  <2> QED BY ONLY <2>3, <2>4 DEF SampledOK
<1>4. CASE ~Reads
  <2>1. sampled' = sampled
    BY <1>4, NoSample
  <2>2. SampledOK
    BY DEF IInv
  <2>3. CASE ~Receiving \/ Risen >= Bits
    BY <1>1, <2>1, <2>2, <2>3 DEF SampledOK
  <2>4. CASE Receiving /\ ~(Risen >= Bits)
    <3>1. stage \in ByteStages
      BY <2>4 DEF Receiving, ByteStages
    <3>2. PICK q \in Nat, p \in {0, 1, 2} : step = 3 * q + p
      BY <1>1, StepParts DEF TypeOK
    <3>3. q \in 0..Bits /\ step % 3 = p /\ Risen = (IF p = 2 THEN q + 1 ELSE q)
          /\ (~(q = Bits /\ p = 2) => stage' = stage /\ Risen' = (IF p = 0 THEN q ELSE q + 1))
      BY <3>1, <3>2, ByteStep DEF IInv
    <3>4. p # 1 /\ q < Bits
      BY <1>4, <2>4, <3>2, <3>3, Constants DEF Reads
    <3>5. Risen' = Risen /\ stage' = stage
      BY <3>3, <3>4, Constants
    <3>6. Receiving' /\ ~(Risen' >= Bits)
      BY <1>2, <2>4, <3>5 DEF Receiving
    <3> QED BY ONLY <3>6 DEF SampledOK
  <2> QED BY <2>3, <2>4
<1> QED BY <1>3, <1>4 DEF Reads

-----------------------------------------------------------------------------
(* Where the clock may rise, and the types.                                    *)

\* An access sets SDA, or moves the clock, or makes a condition.
LEMMA AccessKinds ==
  ASSUME IInv, MakeAccess
  PROVE  \/ scl = 0 /\ Lines.scl = 0 /\ Lines.sda \in {0, 1}
         \/ scl = 0 /\ Lines.scl = 1 /\ Lines.sda = host_sda /\ ~(stage = "start" /\ step # 1)
         \/ scl = 1 /\ Lines.scl = 0 /\ Lines.sda \in {0, 1}
         \/ scl = 1 /\ Lines.scl = 1 /\ host_sda = 1 /\ Lines.sda = 0 /\ stage \in {"start", "restart"} /\ step = 2
         \/ scl = 1 /\ Lines.scl = 1 /\ host_sda = 0 /\ Lines.sda = 1 /\ stage = "stop" /\ step = 2
<1>1. TypeOK /\ stage \in Stages /\ stage # "made" /\ request # NoRequest
  BY DEF IInv, TypeOK, MakeAccess
<1>2. CASE stage \in ByteStages
  <2>1. PICK q \in Nat, p \in {0, 1, 2} : step = 3 * q + p
    BY <1>1, StepParts DEF TypeOK
  <2>2. q \in 0..Bits /\ Lines.sda = BitOut(q + 1)
    BY <1>2, <2>1, ByteLines
  <2>3. Lines.sda \in {0, 1} /\ stage # "start"
    <3>1. StepsOK /\ RouteOK
      BY DEF IInv
    <3>2. BitOut(q + 1) \in {0, 1}
      BY ONLY <1>1, <1>2, <2>2, <3>1, BitOutFacts
    <3> QED BY <1>2, <2>2, <3>2 DEF ByteStages
  <2>4. /\ p # 2 => scl = 0
        /\ p = 2 => scl = 1 /\ Lines.scl = 0
        /\ p = 0 => Lines.scl = 0
        /\ p = 1 => Lines.scl = 1 /\ Lines.sda = host_sda
    BY <1>2, <2>1, ByteLines
  <2> QED BY ONLY <2>1, <2>3, <2>4
<1>3. CASE stage \in {"start", "restart"}
  <2>1. /\ step \in 0..3 /\ scl \in {0, 1}
        /\ Lines.scl = (IF step \in {0, 3} THEN 0 ELSE 1) /\ Lines.sda = (IF step \in {0, 1} THEN 1 ELSE 0)
        /\ step = 1 => scl = 0 /\ host_sda = 1
        /\ step = 2 => scl = 1 /\ host_sda = 1
        /\ step = 3 => scl = 1 /\ host_sda = 0
    BY <1>3, StartLines
  <2> QED BY ONLY <1>3, <2>1
<1>4. CASE stage = "stop"
  <2>1. /\ step \in 0..2
        /\ Lines.scl = (IF step = 0 THEN 0 ELSE 1) /\ Lines.sda = (IF step = 2 THEN 1 ELSE 0)
        /\ step < 2 => scl = 0
        /\ step > 0 => host_sda = 0
        /\ step = 2 => scl = 1
    BY <1>4, StopLines
  <2> QED BY ONLY <1>4, <2>1
<1> QED BY <1>1, <1>2, <1>3, <1>4 DEF Stages, ByteStages

LEMMA RisenFacts ==
  ASSUME step \in Nat
  PROVE  Risen \in Nat /\ (Risen < Bits <=> step < 3 * Bits - 1)
<1>1. PICK q \in Nat, p \in {0, 1, 2} : step = 3 * q + p /\ (step + 1) \div 3 = (IF p = 2 THEN q + 1 ELSE q)
  BY StepParts
<1>2. Risen = (IF p = 2 THEN q + 1 ELSE q)
  BY <1>1 DEF Risen
<1> QED BY <1>1, <1>2, Constants

\* However far a request that is through has come, the clock may rise.
LEMMA ThroughCanRise ==
  ASSUME IInv, Through
  PROVE  /\ CanRise
         /\ state = "write" /\ counter = 1 =>
              request.op = "write" /\ request.done < Len(request.data) /\ address = Here
<1>1. TypeOK /\ StepsOK /\ RouteOK /\ request # NoRequest /\ stage \in Stages /\ step \in Nat
      /\ ~(stage = "start" /\ step < 3) /\ Bits \in Nat /\ Bits >= 3
  BY Constants DEF IInv, TypeOK, Through
<1>2. /\ request.op \in {"read", "write"} /\ request.done \in Nat /\ size \in Nat
      /\ Here < size /\ (request.done > 0 => Last < size)
  BY <1>1, RequestFacts
<1>3. Risen \in Nat /\ (Risen < Bits <=> step < 3 * Bits - 1)
  BY <1>1, RisenFacts
<1>4. DeviceOK /\ HighOK /\ LowOK /\ RestartOK /\ WriteOK /\ ReadOK /\ EndOK
  BY DEF IInv, ThroughOK
<1>5. stage = "data" => IF Risen < Bits THEN request.done < Len(request.data) ELSE request.done > 0
  BY <1>1, <1>3 DEF RouteOK
<1>6. Risen < Bits \/ Risen = Bits \/ Risen > Bits
  BY <1>1, <1>3
<1>7. Bits > 0 /\ Bits # 1 /\ Bits - 1 > 0 /\ Bits - 1 # 1 /\ (Risen < Bits => Bits - Risen > 0)
  BY <1>1, <1>3
<1>8. CASE stage = "device"
  <2>1. CASE Risen < Bits
    BY ONLY <1>4, <1>7, <1>8, <2>1 DEF DeviceOK, ComesIn, CanRise
  <2>2. CASE Risen = Bits
    <3>1. Short => (Sent % 2 = 1 <=> request.op = "read")
      BY <1>1, <1>8, SentFacts DEF ByteStages, Receiving
    <3>2. ~Short => Sent % 2 # 1
      BY <1>1, <1>8, SentFacts DEF ByteStages, Receiving
    <3> QED BY ONLY <1>4, <1>8, <2>2, <3>1, <3>2 DEF DeviceOK, ComesIn, CanRise
  <2>3. CASE Risen > Bits
    BY ONLY <1>2, <1>4, <1>7, <1>8, <2>3 DEF DeviceOK, CanRise, Writable, Readable, Expects
  <2> QED BY <1>6, <2>1, <2>2, <2>3
<1>9. CASE stage = "high"
  BY ONLY <1>4, <1>6, <1>7, <1>9 DEF HighOK, ComesIn, CanRise, Expects
<1>10. CASE stage = "low"
  BY ONLY <1>2, <1>4, <1>6, <1>7, <1>10 DEF LowOK, ComesIn, CanRise, Writable
<1>11. CASE stage = "restart"
  BY ONLY <1>2, <1>4, <1>7, <1>11 DEF RestartOK, CanRise
<1>12. CASE stage = "device_again"
  <2>1. CASE Risen < Bits
    BY ONLY <1>4, <1>7, <1>12, <2>1 DEF RestartOK, ComesIn, CanRise
  <2>2. CASE Risen = Bits
    BY ONLY <1>2, <1>4, <1>12, <2>2 DEF RestartOK, ComesIn, CanRise
  <2>3. CASE Risen > Bits
    BY ONLY <1>2, <1>4, <1>7, <1>12, <2>3 DEF RestartOK, CanRise, Readable
  <2> QED BY <1>6, <2>1, <2>2, <2>3
<1>13. CASE stage = "data" /\ request.op = "write"
  <2>1. CASE Risen < Bits
    BY ONLY <1>2, <1>4, <1>5, <1>7, <1>13, <2>1 DEF WriteOK, ComesIn, CanRise
  <2>2. CASE Risen = Bits
    BY ONLY <1>1, <1>2, <1>4, <1>5, <1>13, <2>2 DEF WriteOK, ComesIn, CanRise
  <2>3. CASE Risen > Bits
    BY ONLY <1>2, <1>4, <1>7, <1>13, <2>3 DEF WriteOK, CanRise, Writable
  <2> QED BY <1>6, <2>1, <2>2, <2>3
<1>14. CASE stage = "data" /\ request.op = "read"
  <2>1. CASE Risen < Bits
    BY ONLY <1>2, <1>4, <1>7, <1>14, <2>1 DEF ReadOK, CanRise
  <2>2. CASE Risen = Bits
    BY ONLY <1>1, <1>2, <1>4, <1>5, <1>14, <2>2 DEF ReadOK, CanRise
  <2>3. CASE Risen > Bits
    BY ONLY <1>2, <1>4, <1>7, <1>14, <2>3 DEF ReadOK, CanRise, Readable
  <2> QED BY <1>6, <2>1, <2>2, <2>3
<1>15. CASE stage = "stop"
  BY ONLY <1>4, <1>7, <1>15 DEF EndOK, CanRise
<1>16. CASE stage = "made"
  BY ONLY <1>4, <1>16 DEF EndOK, CanRise
<1>17. CASE stage = "start"
  BY ONLY <1>4, <1>7, <1>17 DEF EndOK, CanRise, Expects
<1> QED BY <1>1, <1>2, <1>8, <1>9, <1>10, <1>11, <1>12, <1>13, <1>14, <1>15, <1>16, <1>17 DEF Stages

LEMMA RiseReady ==
  ASSUME IInv, MakeAccess, scl = 0, Lines.scl = 1
  PROVE  CanRise
<1>1. CASE Through
  BY <1>1, ThroughCanRise
<1>2. CASE ~Through
  <2>1. stage = "start" /\ step = 1
    BY <1>2, StartLines DEF Through, MakeAccess
  <2>2. UnsettledOK /\ resets \in Nat
    BY DEF IInv, TypeOK
  <2>3. CASE resets = 0
    BY <1>2, <2>2, <2>3 DEF UnsettledOK, CanRise
  <2>4. CASE resets > 0
    BY <1>2, <2>1, <2>2, <2>4 DEF UnsettledOK, BeforeRise
  <2> QED BY <2>2, <2>3, <2>4
<1> QED BY <1>1, <1>2

LEMMA NextEepromType ==
  ASSUME IInv, MakeAccess
  PROVE  /\ size' \in Sizes /\ buffer' \in [0..(size' - 1) -> ByteValues]
         /\ state' \in States /\ counter' \in 0..Bits /\ latch' \in ByteValues /\ address' \in Nat
         /\ host_sda' \in {0, 1} /\ slave_sda' \in {0, 1} /\ scl' \in {0, 1}
         /\ at_risk' = Nowhere \/ at_risk' \in 0..(size' - 1)
         /\ resets' \in 0..MaxResets
<1>1. TypeOK /\ size' = size /\ size \in Sizes /\ buffer \in [0..(size - 1) -> ByteValues]
  BY DEF IInv, TypeOK, MakeAccess
<1>2. /\ state \in States /\ counter \in 0..Bits /\ latch \in ByteValues /\ address \in Nat
      /\ host_sda \in {0, 1} /\ slave_sda \in {0, 1} /\ scl \in {0, 1}
      /\ at_risk = Nowhere \/ at_risk \in 0..(size - 1)
      /\ resets \in 0..MaxResets
  BY <1>1 DEF TypeOK
<1>3. (at_risk' = at_risk \/ at_risk' = Nowhere) /\ (resets' = resets \/ resets' = 0)
  BY Risks
<1>4. 0 \in 0..MaxResets /\ Bits \in 0..Bits
  BY Constants
<1>5. /\ at_risk' = Nowhere \/ at_risk' \in 0..(size - 1)
      /\ resets' \in 0..MaxResets
  BY ONLY <1>2, <1>3, <1>4
<1>6. CASE scl = 0 /\ Lines.scl = 0 /\ Lines.sda \in {0, 1}
  BY <1>1, <1>2, <1>5, <1>6, SetUp DEF Still
<1>7. CASE scl = 0 /\ Lines.scl = 1 /\ Lines.sda = host_sda
  <2>1. CanRise
    BY <1>7, RiseReady
  <2>2. scl' = 1 /\ UNCHANGED <<host_sda, slave_sda>>
    BY <1>1, <1>7, RiseLines
  <2>3. /\ state' \in States /\ counter' \in 0..Bits /\ latch' \in ByteValues /\ address' \in Nat
        /\ IF state = "write" /\ counter = 1
           THEN /\ address \in 0..(size - 1)
                /\ buffer' = [buffer EXCEPT ![address] = (2 * latch + host_sda) % ByteSize]
           ELSE buffer' = buffer
    BY <1>1, <1>7, <2>1, RiseKeeps
  <2>4. PICK l \in ByteValues : l = (2 * latch + host_sda) % ByteSize
    BY <1>1, LatchType
  <2>5. buffer' = buffer \/ buffer' = [buffer EXCEPT ![address] = l]
    BY ONLY <2>3, <2>4
  <2>6. buffer' \in [0..(size - 1) -> ByteValues]
    BY ONLY <1>1, <2>4, <2>5
  <2> QED BY ONLY <1>1, <1>2, <1>5, <2>2, <2>3, <2>6
<1>8. CASE scl = 1 /\ Lines.scl = 0 /\ Lines.sda \in {0, 1}
  BY <1>1, <1>2, <1>5, <1>8, FallLines
<1>9. CASE scl = 1 /\ Lines.scl = 1 /\ host_sda = 1 /\ Lines.sda = 0
  BY <1>1, <1>2, <1>4, <1>5, <1>9, StartEdge DEF States
<1>10. CASE scl = 1 /\ Lines.scl = 1 /\ host_sda = 0 /\ Lines.sda = 1
  BY <1>1, <1>2, <1>4, <1>5, <1>10, StopEdge DEF States
<1> QED BY <1>6, <1>7, <1>8, <1>9, <1>10, AccessKinds

LEMMA NextGameType ==
  ASSUME IInv, MakeAccess
  PROVE  stage' \in Stages /\ step' \in Nat /\ sampled' \in Nat /\ result' \in Seq(ByteValues)
<1>1. TypeOK /\ StepsOK /\ step \in Nat /\ sampled \in Nat /\ result \in Seq(ByteValues)
  BY DEF IInv, TypeOK
<1>2. stage' \in Stages /\ step' \in Nat
  BY <1>1, NextStageIn DEF MakeAccess
<1>3. CASE ~Reads
  BY <1>1, <1>2, <1>3, NoSample
<1>4. CASE Reads
  <2>1. PICK q \in Nat : step = 3 * q + 1 /\ q < Bits
    <3>1. PICK q \in Nat, p \in {0, 1, 2} : step = 3 * q + p /\ step % 3 = p
      BY <1>1, StepParts
    <3> QED BY <1>4, <3>1, Constants DEF Reads
  <2>2. /\ q < Bits - 1 => sampled' = Top(buffer[Here], q + 1) /\ result' = result
        /\ q = Bits - 1 => sampled' = 0 /\ result' = Append(result, buffer[Here])
        /\ buffer[Here] \in ByteValues
    BY <1>4, <2>1, SampleStep DEF Reads
  <2>3. PICK b \in ByteValues : b = buffer[Here]
    BY <2>2
  <2>4. q + 1 \in 0..Bits /\ b \in Nat /\ (q < Bits - 1 \/ q = Bits - 1)
    BY <2>1, <2>3, Constants DEF ByteValues
  <2>5. Top(b, q + 1) \in Nat
    BY <2>4, TopType
  <2>6. CASE q < Bits - 1
    BY ONLY <1>1, <1>2, <2>2, <2>3, <2>5, <2>6
  <2>7. CASE q = Bits - 1
    BY ONLY <1>1, <1>2, <2>2, <2>3, <2>7
  <2> QED BY <2>4, <2>6, <2>7
<1> QED BY <1>3, <1>4

LEMMA NextRequestType ==
  ASSUME IInv, MakeAccess
  PROVE  IsRequest(request)'
<1>1. TypeOK /\ request # NoRequest /\ size' = size
  BY DEF IInv, MakeAccess
<1>2. /\ request'.op = request.op /\ request'.addr = request.addr /\ request'.data = request.data
      /\ request'.done = (IF Completes THEN request.done + 1 ELSE request.done)
      /\ DOMAIN request' = {"op", "addr", "data", "done"}
  BY <1>1, RequestStep
<1>3. /\ request.op \in {"read", "write"} /\ request.addr \in 0..(size - 1)
      /\ request.data \in Seq(ByteValues) /\ Len(request.data) > 0 /\ Len(request.data) \in Nat
      /\ request.done \in 0..Len(request.data)
  BY <1>1, RequestFacts
<1>4. Completes => request.done < Len(request.data)
  BY <1>1, Constants DEF IInv, RouteOK, Completes
<1>5. request'.done \in 0..Len(request.data)
  BY ONLY <1>2, <1>3, <1>4
<1> QED BY ONLY <1>1, <1>2, <1>3, <1>5 DEF IsRequest

LEMMA NextType ==
  ASSUME IInv, MakeAccess
  PROVE  TypeOK'
BY NextEepromType, NextGameType, NextRequestType DEF TypeOK

\* After an access, in a form to be used with the lemmas about a state.
LEMMA NextBasics ==
  ASSUME IInv, MakeAccess
  PROVE  (TypeOK /\ StepsOK /\ RouteOK /\ LinesOK /\ SampledOK)' /\ request' # NoRequest
BY NextType, NextSteps, NextRoute, NextLines, NextSampled, RequestStep DEF IInv

-----------------------------------------------------------------------------
(* A request, stage by stage.                                                  *)

\* What is true of a request that is through, by its stage.
ThroughIs ==
  \/ stage = "start" /\ Expects("start")
  \/ stage = "device" /\ DeviceOK
  \/ stage = "high" /\ HighOK
  \/ stage = "low" /\ LowOK
  \/ stage \in {"restart", "device_again"} /\ RestartOK
  \/ stage = "data" /\ request.op = "write" /\ WriteOK
  \/ stage = "data" /\ request.op = "read" /\ ReadOK
  \/ stage \in {"stop", "made"} /\ EndOK

Settled == at_risk = Nowhere /\ resets = 0

LEMMA ThroughByStage == Settled /\ ThroughIs => ThroughOK
BY DEF Settled, ThroughIs, ThroughOK, DeviceOK, HighOK, LowOK, RestartOK, WriteOK, ReadOK, EndOK

LEMMA ThroughByStageNext == Settled' /\ ThroughIs' => ThroughOK'
BY ThroughByStage, PTL

LEMMA StaysSettled ==
  ASSUME IInv, MakeAccess, Through
  PROVE  Settled'
BY Risks DEF IInv, ThroughOK, Settled, Nowhere

LEMMA NextPlaces ==
  ASSUME IInv, MakeAccess
  PROVE  /\ Hi' = Hi
         /\ ~Completes => Here' = Here /\ Last' = Last
         /\ Completes => Last' = Here
<1>1. size' = size /\ request'.addr = request.addr
      /\ request'.done = (IF Completes THEN request.done + 1 ELSE request.done)
  BY RequestStep DEF IInv
<1>2. request.done \in Nat
  BY RequestFacts DEF IInv, MakeAccess
<1>3. Hi' = Hi
  BY ONLY <1>1 DEF Hi
<1>4. ~Completes => Here' = Here /\ Last' = Last
  BY ONLY <1>1 DEF Here, Last
<1>5. Completes => Last' = Here
  <2>1. Completes => request'.done - 1 = request.done
    BY <1>1, <1>2
  <2> QED BY ONLY <1>1, <2>1 DEF Here, Last
<1> QED BY <1>3, <1>4, <1>5

LEMMA SentType ==
  TypeOK /\ StepsOK /\ RouteOK /\ request # NoRequest /\ stage \in ByteStages /\ ~Receiving => Sent \in ByteValues
BY SentFacts

\* A byte that is to come in.
LEMMA ByteStarts ==
  ASSUME IInv, MakeAccess, stage' \in ByteStages, step' = 0, ~Receiving',
         NEW in, NEW ack, state' = in, counter' = Bits
  PROVE  ComesIn(in, ack, Sent)' /\ Risen' = 0
<1>1. (TypeOK /\ StepsOK /\ RouteOK /\ request # NoRequest /\ stage \in ByteStages /\ ~Receiving)'
  BY NextBasics
<1>2. (Sent \in ByteValues)'
  BY <1>1, SentType, PTL
<1>3. PICK v \in ByteValues : v = Sent'
  BY <1>2 DEF ByteValues
<1>4. PICK l \in Nat : l = latch'
  BY NextEepromType, Constants DEF ByteValues
<1>5. l % 2^0 = Top(v, 0)
  BY ComesInStarts
<1>6. Risen' = 0 /\ 0 < Bits /\ 0 # Bits /\ Bits - 0 = Bits
  BY Constants DEF Risen
<1> QED BY ONLY <1>3, <1>4, <1>5, <1>6, state' = in, counter' = Bits DEF ComesIn, Top

\* The last access of a byte.
LEMMA ByteEnds ==
  ASSUME IInv, MakeAccess, stage \in ByteStages, step = 3 * Bits + 2
  PROVE  /\ stage' = NextStage /\ step' = 0 /\ Risen = Bits + 1 /\ Risen' = 0 /\ ~Completes
         /\ UNCHANGED <<buffer, state, counter, address>>
         /\ Hi' = Hi /\ Here' = Here
<1>1. Bits \in Nat
  BY Constants
<1>2. stage' = NextStage /\ step' = 0 /\ Risen' = 0 /\ Risen = Bits + 1
  BY <1>1, ByteStep DEF IInv
<1>3. scl = 1 /\ Lines.scl = 0
  BY <1>1, ByteLines
<1>4. UNCHANGED <<buffer, state, counter, address>>
  BY <1>3, FallLines DEF IInv
<1>5. ~Completes
  BY <1>1 DEF Completes
<1> QED BY <1>2, <1>4, <1>5, NextPlaces

LEMMA WriteStarts ==
  ASSUME IInv, MakeAccess, stage \in ByteStages, step = 3 * Bits + 2, NextStage = "data",
         request.op = "write", Writable
  PROVE  ThroughIs'
<1>1. /\ stage' = NextStage /\ step' = 0 /\ Risen' = 0
      /\ UNCHANGED <<buffer, state, counter, address>> /\ Here' = Here
  BY ByteEnds
<1>2. stage' = "data" /\ stage' \in ByteStages /\ request'.op = "write"
  BY <1>1, RequestStep DEF ByteStages, IInv
<1>3. state' = "write" /\ counter' = Bits /\ address' = Here'
  BY <1>1 DEF Writable
<1>4. ~Receiving'
  BY <1>2 DEF Receiving
<1>5. ComesIn("write", "write_ack", Sent)'
  BY <1>1, <1>2, <1>3, <1>4, ByteStarts
<1>6. 0 < Bits /\ 0 # Bits /\ ~(0 > Bits)
  BY Constants
<1>7. WriteOK'
  BY ONLY <1>1, <1>3, <1>5, <1>6 DEF WriteOK
<1> QED BY ONLY <1>2, <1>7 DEF ThroughIs

LEMMA ReadStarts ==
  ASSUME IInv, MakeAccess, stage \in ByteStages, step = 3 * Bits + 2, NextStage = "data",
         request.op = "read", Readable
  PROVE  ThroughIs'
<1>1. /\ stage' = NextStage /\ step' = 0 /\ Risen' = 0 /\ Risen = Bits + 1
      /\ UNCHANGED <<buffer, state, counter, address>> /\ Here' = Here
  BY ByteEnds
<1>2. stage' = "data" /\ request'.op = "read" /\ request # NoRequest
  BY <1>1, RequestStep DEF IInv
<1>3. state = "read" /\ counter = Bits /\ address = Here /\ latch = buffer[Here]
  BY DEF Readable
<1>4. PICK b \in ByteValues : b = buffer[Here]
  BY <1>2, RequestFacts DEF IInv, TypeOK
<1>5. Bits \in Nat /\ b \in Nat /\ 0 < Bits /\ 0 \in 0..(Bits - 1) /\ 0 + 1 = 1
  BY Constants DEF ByteValues
<1>6. scl = 1 /\ Lines.scl = 0
  BY <1>5, ByteLines
<1>7. slave_sda' = b \div 2^(Bits - 1) /\ latch' = (2 * b) % 2^Bits
  BY <1>3, <1>4, <1>6, FallRead
<1>8. slave_sda' = BitOf(b, 1) /\ latch' = Left(b, 1)
  <2>1. Left(b, 0) = b
    BY GoesOutStarts
  <2>2. Left(b, 0) \div 2^(Bits - 1) = BitOf(b, 0 + 1) /\ (2 * Left(b, 0)) % ByteSize = Left(b, 0 + 1)
    BY ONLY <1>5, GoesOutNext
  <2> QED BY ONLY <1>5, <1>7, <2>1, <2>2 DEF ByteSize
<1>9. sampled' = Top(b, 0)
  <2>1. sampled = 0
    BY <1>1, <1>2, <1>5 DEF IInv, SampledOK
  <2>2. step % 3 # 1
    BY <1>5
  <2>3. sampled' = sampled
    BY <2>2, NoSample DEF Reads
  <2> QED BY <2>1, <2>3, TopEnds
<1>10. step' \div 3 + 1 = 1 /\ 0 # Bits /\ ~(0 > Bits) /\ Bits - 0 = Bits
  BY <1>1, <1>5
<1>11. buffer'[Here'] = b /\ address' = Here' /\ state' = "read" /\ counter' = Bits
  BY ONLY <1>1, <1>3, <1>4
<1>12. ReadOK'
  BY ONLY <1>1, <1>5, <1>8, <1>9, <1>10, <1>11 DEF ReadOK, Top, BitOf, Left
<1> QED BY ONLY <1>2, <1>12 DEF ThroughIs

\* An access of a byte that comes in, up to its last bit and to the set-up of
\* its acknowledgement.
LEMMA ComesInStep ==
  ASSUME IInv, MakeAccess, stage \in ByteStages, ~Receiving, NEW q \in Nat, NEW p \in {0, 1, 2}, step = 3 * q + p,
         q < Bits \/ p = 0, NEW in, NEW ack, InStates(in, ack), ComesIn(in, ack, Sent)
  PROVE  /\ ComesIn(in, ack, Sent)' /\ stage' = stage /\ Risen' \in 0..Bits
         /\ \/ Risen' = Risen /\ Still
            \/ Risen' < Bits /\ Risen < Bits /\ buffer' = buffer /\ address' = address
            \/ /\ Risen' = Bits /\ Risen < Bits /\ q = Bits - 1 /\ p = 1
               /\ buffer' = IF in = "write" THEN [buffer EXCEPT ![address] = Sent] ELSE buffer
               /\ address' = CASE in = "address_hi" -> Sent * ByteSize
                               [] in = "address" -> address + Sent
                               [] OTHER -> address
<1>1. Bits \in Nat /\ q \in 0..Bits /\ stage' = stage
  <2>1. ~(q = Bits /\ p = 2)
    BY Constants
  <2> QED BY <2>1, Constants, ByteStep DEF IInv
<1>2. CASE p = 0
  <2>1. ComesIn(in, ack, Sent)' /\ Still /\ Risen = q /\ Risen' = q
    BY <1>2, ComesInSetUp
  <2> QED BY <1>1, <2>1
<1>3. CASE p = 1
  <2>1. step = 3 * q + 1 /\ q < Bits
    BY <1>3
  <2>2. /\ ComesIn(in, ack, Sent)' /\ Risen = q /\ Risen' = q + 1
        /\ q < Bits - 1 => buffer' = buffer /\ address' = address
        /\ q = Bits - 1 =>
             /\ buffer' = IF in = "write" THEN [buffer EXCEPT ![address] = Sent] ELSE buffer
             /\ address' = CASE in = "address_hi" -> Sent * ByteSize
                             [] in = "address" -> address + Sent
                             [] OTHER -> address
    BY ONLY IInv, MakeAccess, stage \in ByteStages, ~Receiving, q \in Nat, <2>1, InStates(in, ack),
            ComesIn(in, ack, Sent), ComesInRises, Zenon
  <2>6. Risen = q /\ Risen' = q + 1
    BY ONLY <2>2, Zenon
  <2>3. CASE q < Bits - 1
    <3>1. Risen' < Bits /\ Risen < Bits /\ Risen' \in 0..Bits
      BY ONLY <1>1, <2>6, <2>3
    <3> QED BY ONLY <1>1, <2>2, <2>3, <3>1, Zenon
  <2>4. CASE q = Bits - 1
    <3>1. Risen' = Bits /\ Risen < Bits /\ Risen' \in 0..Bits
      BY ONLY <1>1, <2>6, <2>4
    <3> QED BY ONLY <1>1, <1>3, <2>2, <2>4, <3>1, Zenon
  <2>5. q < Bits - 1 \/ q = Bits - 1
    BY <1>1, <2>1
  <2> QED BY ONLY <2>3, <2>4, <2>5, Zenon
<1>4. CASE p = 2
  <2>1. ComesIn(in, ack, Sent)' /\ Still /\ Risen = q + 1 /\ Risen' = q + 1
    BY <1>4, ComesInFalls
  <2> QED BY <1>1, <1>4, <2>1
<1>5. p = 0 \/ p = 1 \/ p = 2
  OBVIOUS
<1> QED BY ONLY <1>2, <1>3, <1>4, <1>5, Zenon

LEMMA ComesInGoes ==
  ASSUME IInv, MakeAccess, stage \in ByteStages, ~Receiving, NEW q \in Nat, NEW p \in {0, 1, 2}, step = 3 * q + p,
         q < Bits \/ p = 0, NEW in, NEW ack, InStates(in, ack), ComesIn(in, ack, Sent)
  PROVE  ComesIn(in, ack, Sent)' /\ stage' = stage /\ Risen' \in 0..Bits
BY ComesInStep, Zenon

\* The clock rises for an acknowledgement.
LEMMA AckRises ==
  ASSUME IInv, MakeAccess, stage \in ByteStages, step = 3 * Bits + 1
  PROVE  /\ scl = 0 /\ Lines.scl = 1 /\ Lines.sda = host_sda /\ host_sda \in {0, 1}
         /\ Risen = Bits /\ Risen' = Bits + 1 /\ stage' = stage /\ step' = step + 1
         /\ ~Completes /\ Here' = Here /\ Last' = Last /\ Hi' = Hi /\ buffer' = buffer
<1>1. Bits \in Nat /\ ~(Bits = Bits /\ 1 = 2)
  BY Constants
<1>2. Risen = Bits /\ Risen' = Bits + 1 /\ stage' = stage /\ step' = step + 1
  BY <1>1, ByteStep DEF IInv
<1>3. ~Completes
  BY <1>1 DEF Completes
<1>4. scl = 0 /\ Lines.scl = 1 /\ Lines.sda = host_sda /\ host_sda \in {0, 1}
  BY <1>1, ByteLines
<1>5. TypeOK
  BY DEF IInv
<1>6. Through
  BY DEF Through, ByteStages, MakeAccess
<1>7. ~(state = "write" /\ counter = 1)
  <2>1. state = "write" /\ counter = 1 => FALSE
    <3>1. DeviceOK /\ HighOK /\ LowOK /\ RestartOK /\ WriteOK /\ ReadOK
      BY <1>6 DEF IInv, ThroughOK
    <3>2. request.op \in {"read", "write"}
      BY RequestFacts DEF IInv, MakeAccess
    <3> QED BY ONLY <1>2, <3>1, <3>2, stage \in ByteStages
            DEF ByteStages, DeviceOK, HighOK, LowOK, RestartOK, WriteOK, ReadOK, ComesIn
  <2> QED BY <2>1
<1>8. buffer' = buffer
  BY <1>4, <1>5, <1>7, RiseReady, RiseKeeps
<1> QED BY <1>2, <1>3, <1>4, <1>8, NextPlaces

LEMMA ByteBasics ==
  ASSUME IInv, MakeAccess, stage \in ByteStages
  PROVE  /\ \E q \in Nat, p \in {0, 1, 2} :
              /\ step = 3 * q + p
              /\ q < Bits \/ p = 0 \/ (p = 1 /\ step = 3 * Bits + 1) \/ (p = 2 /\ step = 3 * Bits + 2)
         /\ TypeOK /\ StepsOK /\ RouteOK /\ request # NoRequest /\ Through /\ Settled'
         /\ DeviceOK /\ HighOK /\ LowOK /\ RestartOK /\ WriteOK /\ ReadOK
         /\ (Short' <=> Short) /\ size' = size /\ request'.op = request.op /\ request.op \in {"read", "write"}
         /\ Bits \in Nat /\ Bits >= 3 /\ ~(Bits < Bits) /\ Bits + 1 > Bits /\ ~(Bits + 1 < Bits) /\ Bits + 1 # Bits
         /\ \A r \in 0..Bits : ~(r > Bits)
<1>1. TypeOK /\ StepsOK /\ RouteOK /\ request # NoRequest /\ step \in Nat
  BY DEF IInv, TypeOK, MakeAccess
<1>2. PICK q \in Nat, p \in {0, 1, 2} : step = 3 * q + p
  BY <1>1, StepParts
<1>3. q \in 0..Bits
  BY <1>1, <1>2, ByteStep
<1>4. /\ Bits \in Nat /\ Bits >= 3 /\ ~(Bits < Bits) /\ Bits + 1 > Bits /\ ~(Bits + 1 < Bits) /\ Bits + 1 # Bits
      /\ \A r \in 0..Bits : ~(r > Bits)
  BY Constants
<1>5. q < Bits \/ p = 0 \/ (p = 1 /\ step = 3 * Bits + 1) \/ (p = 2 /\ step = 3 * Bits + 2)
  BY <1>2, <1>3, <1>4
<1>6. Through
  BY <1>1 DEF Through, ByteStages
<1>7. DeviceOK /\ HighOK /\ LowOK /\ RestartOK /\ WriteOK /\ ReadOK
  BY <1>6 DEF IInv, ThroughOK
<1>8. Settled'
  BY <1>6, StaysSettled
<1>9. size' = size /\ request'.op = request.op /\ request.op \in {"read", "write"}
  BY <1>1, RequestStep, RequestFacts
<1>10. Short' <=> Short
  BY <1>9 DEF Short
<1> QED BY <1>1, <1>2, <1>3, <1>4, <1>5, <1>6, <1>7, <1>8, <1>9, <1>10

LEMMA DeviceStep ==
  ASSUME IInv, MakeAccess, stage = "device"
  PROVE  ThroughIs' /\ Settled'
<1>1. stage \in ByteStages /\ ~Receiving
  BY DEF ByteStages, Receiving
<1>2. PICK q \in Nat, p \in {0, 1, 2} :
        /\ step = 3 * q + p
        /\ q < Bits \/ p = 0 \/ (p = 1 /\ step = 3 * Bits + 1) \/ (p = 2 /\ step = 3 * Bits + 2)
  BY <1>1, ByteBasics
<1>3. /\ TypeOK /\ StepsOK /\ RouteOK /\ request # NoRequest /\ Settled' /\ DeviceOK
      /\ (Short' <=> Short) /\ size' = size /\ request'.op = request.op /\ request.op \in {"read", "write"}
      /\ Bits \in Nat /\ ~(Bits < Bits) /\ Bits + 1 > Bits /\ ~(Bits + 1 < Bits) /\ Bits + 1 # Bits
      /\ \A r \in 0..Bits : ~(r > Bits)
  BY <1>1, ByteBasics
<1>4. CASE q < Bits \/ p = 0
  <2>1. InStates("start", "device_ack") /\ ComesIn("start", "device_ack", Sent)
    BY <1>3 DEF InStates, DeviceOK
  <2>2. ComesIn("start", "device_ack", Sent)' /\ stage' = stage /\ Risen' \in 0..Bits
    <3>1. q \in Nat
      OBVIOUS
    <3> QED BY ONLY IInv, MakeAccess, <1>1, <1>2, <1>4, <2>1, <3>1, ComesInGoes
  <2>3. ~(Risen' > Bits)
    BY <1>3, <2>2
  <2>4. DeviceOK'
    BY ONLY <2>2, <2>3 DEF DeviceOK
  <2> QED BY ONLY <1>3, <2>2, <2>4, stage = "device" DEF ThroughIs
<1>5. CASE step = 3 * Bits + 1
  <2>1. /\ scl = 0 /\ Lines.scl = 1 /\ Lines.sda = host_sda /\ host_sda \in {0, 1}
        /\ Risen = Bits /\ Risen' = Bits + 1 /\ stage' = stage
        /\ Here' = Here /\ Hi' = Hi /\ buffer' = buffer
    BY <1>1, <1>5, AckRises
  <2>2. state = "device_ack" /\ latch = Sent
    BY <1>3, <2>1 DEF DeviceOK, ComesIn
  <2>3. request.done = 0 /\ Here = request.addr
    BY <1>3, RequestFacts DEF RouteOK
  <2>4. CASE Short
    <3>1. Sent \div 2 = Here /\ (Sent % 2 = 1 <=> request.op = "read")
      BY <1>1, <1>3, <2>3, <2>4, SentFacts
    <3>2. CASE request.op = "write"
      <4>1. state' = "write" /\ counter' = Bits /\ address' = Here'
        BY <2>1, <2>2, <2>4, <3>1, <3>2, RiseToWrite
      <4> QED BY ONLY <1>3, <2>1, <2>4, <3>2, <4>1, stage = "device" DEF ThroughIs, DeviceOK, ComesIn, Writable
    <3>3. CASE request.op = "read"
      <4>1. latch % 2 = 1
        BY <2>2, <3>1, <3>3
      <4>2. state' = "read" /\ counter' = Bits /\ latch' = buffer[latch \div 2] /\ address' = latch \div 2
        BY <2>1, <2>2, <2>4, <4>1, RiseToRead
      <4>3. latch \div 2 = Here
        BY <2>2, <3>1
      <4>4. state' = "read" /\ counter' = Bits /\ address' = Here' /\ latch' = buffer'[Here']
        BY ONLY <2>1, <4>2, <4>3
      <4> QED BY ONLY <1>3, <2>1, <2>4, <3>3, <4>4, stage = "device" DEF ThroughIs, DeviceOK, ComesIn, Readable
    <3> QED BY <1>3, <3>2, <3>3
  <2>5. CASE ~Short
    <3>1. Sent % 2 # 1
      BY <1>1, <1>3, <2>5, SentFacts
    <3>2. CASE size < WordFrom
      <4>1. ((Sent \div 2) % 8) * ByteSize = Hi
        BY <1>1, <1>3, <2>5, <3>2, SentFacts
      <4>2. state' = "address" /\ counter' = Bits /\ address' = Hi'
        BY <2>1, <2>2, <2>5, <3>1, <3>2, <4>1, RiseToLow
      <4> QED BY ONLY <1>3, <2>1, <2>5, <3>2, <4>2, stage = "device" DEF ThroughIs, DeviceOK, ComesIn, Expects
    <3>3. CASE ~(size < WordFrom)
      <4>2. state' = "address_hi" /\ counter' = Bits
        BY <2>1, <2>2, <2>5, <3>1, <3>3, RiseToHigh
      <4> QED BY ONLY <1>3, <2>1, <2>5, <3>3, <4>2, stage = "device" DEF ThroughIs, DeviceOK, ComesIn, Expects
    <3> QED BY <3>2, <3>3
  <2> QED BY <2>4, <2>5
<1>6. CASE step = 3 * Bits + 2
  <2>1. /\ stage' = NextStage /\ step' = 0 /\ Risen = Bits + 1 /\ Risen' = 0
        /\ UNCHANGED <<buffer, state, counter, address>> /\ Hi' = Hi
    BY <1>1, <1>6, ByteEnds
  <2>2. NextStage = IF Short THEN "data" ELSE IF size < WordFrom THEN "low" ELSE "high"
    BY DEF NextStage
  <2>3. Risen > Bits
    BY <1>3, <2>1
  <2>4. CASE Short
    <3>1. IF request.op = "write" THEN Writable ELSE Readable
      BY ONLY <1>3, <2>3, <2>4, stage = "device" DEF DeviceOK
    <3>2. NextStage = "data"
      BY <2>2, <2>4
    <3>3. CASE request.op = "write"
      BY <1>1, <1>3, <1>6, <3>1, <3>2, <3>3, WriteStarts
    <3>4. CASE request.op = "read"
      BY <1>1, <1>3, <1>6, <3>1, <3>2, <3>4, ReadStarts
    <3> QED BY <1>3, <3>3, <3>4
  <2>5. CASE ~Short /\ size < WordFrom
    <3>1. Expects("address") /\ address = Hi
      BY ONLY <1>3, <2>3, <2>5, stage = "device" DEF DeviceOK
    <3>2. stage' = "low" /\ stage' \in ByteStages
      BY <2>1, <2>2, <2>5 DEF ByteStages
    <3>3. ~Receiving' /\ state' = "address" /\ counter' = Bits /\ address' = Hi'
      BY <2>1, <3>1, <3>2 DEF Receiving, Expects
    <3>4. ComesIn("address", "address_ack", Sent)'
      BY <2>1, <3>2, <3>3, ByteStarts
    <3>5. 0 # Bits /\ ~(0 > Bits)
      BY Constants
    <3> QED BY ONLY <1>3, <2>1, <3>2, <3>3, <3>4, <3>5 DEF ThroughIs, LowOK
  <2>6. CASE ~Short /\ ~(size < WordFrom)
    <3>1. Expects("address_hi")
      BY ONLY <1>3, <2>3, <2>6, stage = "device" DEF DeviceOK
    <3>2. stage' = "high" /\ stage' \in ByteStages
      BY <2>1, <2>2, <2>6 DEF ByteStages
    <3>3. ~Receiving' /\ state' = "address_hi" /\ counter' = Bits
      BY <2>1, <3>1, <3>2 DEF Receiving, Expects
    <3>4. ComesIn("address_hi", "address_hi_ack", Sent)'
      BY <2>1, <3>2, <3>3, ByteStarts
    <3>5. 0 # Bits /\ ~(0 > Bits) /\ ~(0 >= Bits)
      BY Constants
    <3> QED BY ONLY <1>3, <2>1, <3>2, <3>3, <3>4, <3>5 DEF ThroughIs, HighOK
  <2> QED BY <2>4, <2>5, <2>6
<1> QED BY <1>2, <1>4, <1>5, <1>6

LEMMA HighStep ==
  ASSUME IInv, MakeAccess, stage = "high"
  PROVE  ThroughIs' /\ Settled'
<1>1. stage \in ByteStages /\ ~Receiving
  BY DEF ByteStages, Receiving
<1>2. PICK q \in Nat, p \in {0, 1, 2} :
        /\ step = 3 * q + p
        /\ q < Bits \/ p = 0 \/ (p = 1 /\ step = 3 * Bits + 1) \/ (p = 2 /\ step = 3 * Bits + 2)
  BY <1>1, ByteBasics
<1>3. /\ TypeOK /\ StepsOK /\ RouteOK /\ request # NoRequest /\ Settled' /\ HighOK
      /\ Bits \in Nat /\ ~(Bits < Bits) /\ Bits + 1 > Bits /\ ~(Bits + 1 < Bits) /\ Bits + 1 # Bits
      /\ \A r \in 0..Bits : ~(r > Bits)
  BY <1>1, ByteBasics
<1>4. CASE q < Bits \/ p = 0
  <2>1. InStates("address_hi", "address_hi_ack") /\ ComesIn("address_hi", "address_hi_ack", Sent)
    BY <1>3 DEF InStates, HighOK
  <2>2. q \in Nat
    OBVIOUS
  <2>3. /\ ComesIn("address_hi", "address_hi_ack", Sent)' /\ stage' = stage /\ Risen' \in 0..Bits
        /\ \/ Risen' = Risen /\ Still
           \/ Risen' < Bits /\ Risen < Bits /\ buffer' = buffer /\ address' = address
           \/ /\ Risen' = Bits /\ Risen < Bits /\ q = Bits - 1 /\ p = 1
              /\ address' = Sent * ByteSize
    <3>1. /\ ComesIn("address_hi", "address_hi_ack", Sent)' /\ stage' = stage /\ Risen' \in 0..Bits
          /\ \/ Risen' = Risen /\ Still
             \/ Risen' < Bits /\ Risen < Bits /\ buffer' = buffer /\ address' = address
             \/ /\ Risen' = Bits /\ Risen < Bits /\ q = Bits - 1 /\ p = 1
                /\ address' = CASE "address_hi" = "address_hi" -> Sent * ByteSize
                                [] "address_hi" = "address" -> address + Sent
                                [] OTHER -> address
      BY ONLY IInv, MakeAccess, <1>1, <1>2, <1>4, <2>1, <2>2, ComesInStep, Zenon
    <3> QED BY ONLY <3>1
  <2>4. ~(Risen' > Bits) /\ (Risen' < Bits => ~(Risen' >= Bits))
    <3>1. Risen' \in 0..Bits /\ Bits \in Nat
      BY ONLY <1>3, <2>3, Zenon
    <3> QED BY ONLY <3>1
  <2>5. Sent * ByteSize = Hi
    BY <1>1, <1>3, SentFacts
  <2>6. Hi' = Hi
    BY NextPlaces
  <2>7. Risen' >= Bits => address' = Hi'
    BY ONLY <1>3, <2>3, <2>4, <2>5, <2>6, stage = "high" DEF HighOK, Still
  <2>8. HighOK'
    BY ONLY <2>3, <2>4, <2>7 DEF HighOK
  <2> QED BY ONLY <1>3, <2>3, <2>8, stage = "high" DEF ThroughIs
<1>5. CASE step = 3 * Bits + 1
  <2>1. /\ scl = 0 /\ Lines.scl = 1 /\ Lines.sda = host_sda /\ host_sda \in {0, 1}
        /\ Risen = Bits /\ Risen' = Bits + 1 /\ stage' = stage /\ Hi' = Hi
    BY <1>1, <1>5, AckRises
  <2>2. state = "address_hi_ack" /\ address = Hi
    <3>1. Bits >= Bits
      BY <1>3
    <3> QED BY ONLY <1>3, <2>1, <3>1, stage = "high" DEF HighOK, ComesIn
  <2>3. state' = "address" /\ counter' = Bits /\ address' = Hi'
    BY <2>1, <2>2, RiseHighAck
  <2> QED BY ONLY <1>3, <2>1, <2>3, stage = "high" DEF ThroughIs, HighOK, ComesIn, Expects
<1>6. CASE step = 3 * Bits + 2
  <2>1. /\ stage' = NextStage /\ step' = 0 /\ Risen = Bits + 1 /\ Risen' = 0
        /\ UNCHANGED <<buffer, state, counter, address>> /\ Hi' = Hi
    BY <1>1, <1>6, ByteEnds
  <2>2. NextStage = "low"
    BY DEF NextStage
  <2>3. Risen > Bits /\ Risen >= Bits
    BY <1>3, <2>1
  <2>4. Expects("address") /\ address = Hi
    BY ONLY <1>3, <2>3, stage = "high" DEF HighOK
  <2>5. stage' = "low" /\ stage' \in ByteStages
    BY <2>1, <2>2 DEF ByteStages
  <2>6. ~Receiving' /\ state' = "address" /\ counter' = Bits /\ address' = Hi'
    BY <2>1, <2>4, <2>5 DEF Receiving, Expects
  <2>7. ComesIn("address", "address_ack", Sent)'
    BY <2>1, <2>5, <2>6, ByteStarts
  <2>8. 0 # Bits /\ ~(0 > Bits)
    BY Constants
  <2> QED BY ONLY <1>3, <2>1, <2>5, <2>6, <2>7, <2>8 DEF ThroughIs, LowOK
<1> QED BY <1>2, <1>4, <1>5, <1>6

LEMMA LowStep ==
  ASSUME IInv, MakeAccess, stage = "low"
  PROVE  ThroughIs' /\ Settled'
<1>1. stage \in ByteStages /\ ~Receiving
  BY DEF ByteStages, Receiving
<1>2. PICK q \in Nat, p \in {0, 1, 2} :
        /\ step = 3 * q + p
        /\ q < Bits \/ p = 0 \/ (p = 1 /\ step = 3 * Bits + 1) \/ (p = 2 /\ step = 3 * Bits + 2)
  BY <1>1, ByteBasics
<1>3. /\ TypeOK /\ StepsOK /\ RouteOK /\ request # NoRequest /\ Settled' /\ LowOK
      /\ request.op \in {"read", "write"} /\ request'.op = request.op
      /\ Bits \in Nat /\ ~(Bits < Bits) /\ Bits + 1 > Bits /\ ~(Bits + 1 < Bits) /\ Bits + 1 # Bits
      /\ \A r \in 0..Bits : ~(r > Bits)
  BY <1>1, ByteBasics
<1>4. CASE q < Bits \/ p = 0
  <2>1. InStates("address", "address_ack") /\ ComesIn("address", "address_ack", Sent)
    BY <1>3 DEF InStates, LowOK
  <2>2. q \in Nat
    OBVIOUS
  <2>3. /\ ComesIn("address", "address_ack", Sent)' /\ stage' = stage /\ Risen' \in 0..Bits
        /\ \/ Risen' = Risen /\ Still
           \/ Risen' < Bits /\ Risen < Bits /\ buffer' = buffer /\ address' = address
           \/ /\ Risen' = Bits /\ Risen < Bits /\ q = Bits - 1 /\ p = 1
              /\ address' = address + Sent
    <3>1. /\ ComesIn("address", "address_ack", Sent)' /\ stage' = stage /\ Risen' \in 0..Bits
          /\ \/ Risen' = Risen /\ Still
             \/ Risen' < Bits /\ Risen < Bits /\ buffer' = buffer /\ address' = address
             \/ /\ Risen' = Bits /\ Risen < Bits /\ q = Bits - 1 /\ p = 1
                /\ address' = CASE "address" = "address_hi" -> Sent * ByteSize
                                [] "address" = "address" -> address + Sent
                                [] OTHER -> address
      BY ONLY IInv, MakeAccess, <1>1, <1>2, <1>4, <2>1, <2>2, ComesInStep, Zenon
    <3> QED BY ONLY <3>1
  <2>4. ~(Risen' > Bits) /\ (Risen' < Bits => Risen' # Bits)
    BY <1>3, <2>3
  <2>5. Hi + Sent = request.addr
    BY <1>1, <1>3, SentFacts
  <2>6. Hi' = Hi /\ request'.addr = request.addr
    BY <1>3, NextPlaces, RequestStep
  <2>7. /\ Risen' < Bits => address' = Hi'
        /\ Risen' = Bits => address' = request'.addr
    <3>1. /\ Risen < Bits => address = Hi
          /\ Risen = Bits => address = request.addr
      BY ONLY <1>3, stage = "low" DEF LowOK
    <3>2. Risen < Bits => address + Sent = request.addr
      BY ONLY <2>5, <3>1
    <3> QED BY ONLY <2>3, <2>4, <2>6, <3>1, <3>2 DEF Still
  <2>8. LowOK'
    BY ONLY <2>3, <2>4, <2>7 DEF LowOK
  <2> QED BY ONLY <1>3, <2>3, <2>8, stage = "low" DEF ThroughIs
<1>5. CASE step = 3 * Bits + 1
  <2>1. /\ scl = 0 /\ Lines.scl = 1 /\ Lines.sda = host_sda /\ host_sda \in {0, 1}
        /\ Risen = Bits /\ Risen' = Bits + 1 /\ stage' = stage /\ Here' = Here
    BY <1>1, <1>5, AckRises
  <2>2. state = "address_ack" /\ address = request.addr
    BY <1>3, <2>1 DEF LowOK, ComesIn
  <2>3. request.done = 0 /\ Here = request.addr /\ request.addr \in 0..(size - 1) /\ size \in Nat \ {0}
    BY <1>3, RequestFacts DEF RouteOK
  <2>4. address % size = Here
    BY <2>2, <2>3, StaysWithin
  <2>5. state' = "write" /\ counter' = Bits /\ address' = Here'
    BY <2>1, <2>2, <2>4, RiseAddressAck
  <2> QED BY ONLY <1>3, <2>1, <2>5, stage = "low" DEF ThroughIs, LowOK, ComesIn, Writable
<1>6. CASE step = 3 * Bits + 2
  <2>1. /\ stage' = NextStage /\ step' = 0 /\ Risen = Bits + 1 /\ Risen' = 0
        /\ UNCHANGED <<buffer, state, counter, address>> /\ Here' = Here
    BY <1>1, <1>6, ByteEnds
  <2>2. NextStage = IF request.op = "write" THEN "data" ELSE "restart"
    BY DEF NextStage
  <2>3. Risen > Bits
    BY <1>3, <2>1
  <2>4. Writable
    BY ONLY <1>3, <2>3, stage = "low" DEF LowOK
  <2>5. CASE request.op = "write"
    BY <1>1, <1>3, <1>6, <2>2, <2>4, <2>5, WriteStarts
  <2>6. CASE request.op = "read"
    <3>1. stage' = "restart"
      BY <2>1, <2>2, <2>6
    <3>2. state' = "write" /\ counter' = Bits /\ address' = Here' /\ step' < 3 /\ step' # 2
      BY <2>1, <2>4 DEF Writable
    <3> QED BY ONLY <1>3, <3>1, <3>2 DEF ThroughIs, RestartOK
  <2> QED BY <1>3, <2>5, <2>6
<1> QED BY <1>2, <1>4, <1>5, <1>6

LEMMA AgainStep ==
  ASSUME IInv, MakeAccess, stage = "device_again"
  PROVE  ThroughIs' /\ Settled'
<1>0. 1 % 2 = 1
  <2>1. 2 \in Nat \ {0} /\ 1 \in 0..(2 - 1)
    OBVIOUS
  <2> QED BY ONLY <2>1, StaysWithin
<1>1. stage \in ByteStages /\ ~Receiving
  BY DEF ByteStages, Receiving
<1>2. PICK q \in Nat, p \in {0, 1, 2} :
        /\ step = 3 * q + p
        /\ q < Bits \/ p = 0 \/ (p = 1 /\ step = 3 * Bits + 1) \/ (p = 2 /\ step = 3 * Bits + 2)
  BY <1>1, ByteBasics
<1>3. /\ TypeOK /\ StepsOK /\ RouteOK /\ request # NoRequest /\ Settled' /\ RestartOK
      /\ request.op = "read" /\ ~Short
      /\ Bits \in Nat /\ ~(Bits < Bits) /\ Bits + 1 > Bits /\ ~(Bits + 1 < Bits) /\ Bits + 1 # Bits
      /\ \A r \in 0..Bits : ~(r > Bits)
  BY <1>1, ByteBasics DEF RouteOK
<1>4. CASE q < Bits \/ p = 0
  <2>1. InStates("start", "device_ack") /\ ComesIn("start", "device_ack", Sent) /\ address = Here
    BY <1>3 DEF InStates, RestartOK
  <2>2. q \in Nat
    OBVIOUS
  <2>3. /\ ComesIn("start", "device_ack", Sent)' /\ stage' = stage /\ Risen' \in 0..Bits
        /\ \/ Risen' = Risen /\ Still
           \/ Risen' < Bits /\ Risen < Bits /\ buffer' = buffer /\ address' = address
           \/ /\ Risen' = Bits /\ Risen < Bits /\ q = Bits - 1 /\ p = 1
              /\ address' = address
    <3>1. /\ ComesIn("start", "device_ack", Sent)' /\ stage' = stage /\ Risen' \in 0..Bits
          /\ \/ Risen' = Risen /\ Still
             \/ Risen' < Bits /\ Risen < Bits /\ buffer' = buffer /\ address' = address
             \/ /\ Risen' = Bits /\ Risen < Bits /\ q = Bits - 1 /\ p = 1
                /\ address' = CASE "start" = "address_hi" -> Sent * ByteSize
                                [] "start" = "address" -> address + Sent
                                [] OTHER -> address
      BY ONLY IInv, MakeAccess, <1>1, <1>2, <1>4, <2>1, <2>2, ComesInStep, Zenon
    <3> QED BY ONLY <3>1
  <2>4. ~(Risen' > Bits)
    BY <1>3, <2>3
  <2>5. Here' = Here
    BY NextPlaces DEF Completes
  <2>6. RestartOK'
    BY ONLY <2>1, <2>3, <2>4, <2>5, stage = "device_again" DEF RestartOK, Still
  <2> QED BY ONLY <1>3, <2>3, <2>6, stage = "device_again" DEF ThroughIs
<1>5. CASE step = 3 * Bits + 1
  <2>1. /\ scl = 0 /\ Lines.scl = 1 /\ Lines.sda = host_sda /\ host_sda \in {0, 1}
        /\ Risen = Bits /\ Risen' = Bits + 1 /\ stage' = stage /\ Here' = Here /\ buffer' = buffer
    BY <1>1, <1>5, AckRises
  <2>2. state = "device_ack" /\ address = Here /\ latch = Sent
    BY <1>3, <2>1 DEF RestartOK, ComesIn
  <2>3. Sent = 1
    BY <1>1, <1>3, SentFacts
  <2>4. latch % 2 = 1
    BY ONLY <1>0, <2>2, <2>3, Zenon
  <2>5. state' = "read" /\ counter' = Bits /\ address' = address /\ latch' = buffer[address]
    BY <1>3, <2>1, <2>2, <2>4, RiseToRead
  <2> QED BY ONLY <1>3, <2>1, <2>2, <2>5, stage = "device_again" DEF ThroughIs, RestartOK, ComesIn, Readable
<1>6. CASE step = 3 * Bits + 2
  <2>1. NextStage = "data" /\ Risen = Bits + 1
    BY <1>1, <1>6, ByteEnds DEF NextStage
  <2>2. Risen > Bits
    BY <1>3, <2>1
  <2>3. Readable
    BY ONLY <1>3, <2>2, stage = "device_again" DEF RestartOK
  <2> QED BY <1>1, <1>3, <1>6, <2>1, <2>3, ReadStarts
<1> QED BY <1>2, <1>4, <1>5, <1>6

LEMMA StopStarts ==
  ASSUME IInv, MakeAccess, stage \in ByteStages, step = 3 * Bits + 2, NextStage = "stop",
         Writable \/ Readable
  PROVE  ThroughIs'
<1>1. stage' = "stop" /\ step' = 0 /\ UNCHANGED <<buffer, state, counter, address>>
  BY ByteEnds
<1>2. size' = size /\ Here < size
  BY RequestFacts DEF IInv, MakeAccess
<1>3. state' \in {"read", "write"} /\ counter' = Bits /\ address' < size'
  BY <1>1, <1>2 DEF Writable, Readable
<1>4. step' # 2
  BY <1>1
<1> QED BY ONLY <1>1, <1>3, <1>4 DEF ThroughIs, EndOK

LEMMA WriteStep ==
  ASSUME IInv, MakeAccess, stage = "data", request.op = "write"
  PROVE  ThroughIs' /\ Settled'
<1>1. stage \in ByteStages /\ ~Receiving
  BY DEF ByteStages, Receiving
<1>2. PICK q \in Nat, p \in {0, 1, 2} :
        /\ step = 3 * q + p
        /\ q < Bits \/ p = 0 \/ (p = 1 /\ step = 3 * Bits + 1) \/ (p = 2 /\ step = 3 * Bits + 2)
  BY <1>1, ByteBasics
<1>3. /\ TypeOK /\ StepsOK /\ RouteOK /\ request # NoRequest /\ Settled' /\ WriteOK
      /\ request'.op = "write"
      /\ Bits \in Nat /\ ~(Bits < Bits) /\ Bits + 1 > Bits /\ ~(Bits + 1 < Bits) /\ Bits + 1 # Bits
      /\ \A r \in 0..Bits : ~(r > Bits)
  BY <1>1, ByteBasics
<1>4. CASE q < Bits \/ p = 0
  <2>1. InStates("write", "write_ack") /\ ComesIn("write", "write_ack", Sent)
    BY <1>3 DEF InStates, WriteOK
  <2>2. q \in Nat
    OBVIOUS
  <2>3. /\ ComesIn("write", "write_ack", Sent)' /\ stage' = stage /\ Risen' \in 0..Bits
        /\ \/ Risen' = Risen /\ address' = address
           \/ Risen' < Bits /\ Risen < Bits /\ address' = address
           \/ /\ Risen' = Bits /\ Risen < Bits /\ q = Bits - 1 /\ p = 1
              /\ address' = address
    <3>1. /\ ComesIn("write", "write_ack", Sent)' /\ stage' = stage /\ Risen' \in 0..Bits
          /\ \/ Risen' = Risen /\ Still
             \/ Risen' < Bits /\ Risen < Bits /\ buffer' = buffer /\ address' = address
             \/ /\ Risen' = Bits /\ Risen < Bits /\ q = Bits - 1 /\ p = 1
                /\ address' = CASE "write" = "address_hi" -> Sent * ByteSize
                                [] "write" = "address" -> address + Sent
                                [] OTHER -> address
      BY ONLY IInv, MakeAccess, <1>1, <1>2, <1>4, <2>1, <2>2, ComesInStep, Zenon
    <3> QED BY ONLY <3>1 DEF Still
  <2>4. ~(Risen' > Bits) /\ (Risen' < Bits => Risen' # Bits)
    BY ONLY <1>3, <2>3
  <2>5. /\ Completes <=> q = Bits - 1 /\ p = 1
        /\ Completes => Risen' # Risen
        /\ q \in 0..Bits
        /\ Risen = (IF p = 2 THEN q + 1 ELSE q)
    <3>1. /\ Completes <=> q = Bits - 1 /\ p = 1
          /\ Risen = (IF p = 2 THEN q + 1 ELSE q)
          /\ ~(q = Bits /\ p = 2) => Risen' = (IF p = 0 THEN q ELSE q + 1)
          /\ q \in 0..Bits
      BY <1>1, <1>2, ByteStep DEF IInv
    <3>2. Completes => Risen' # Risen
      BY <1>3, <3>1
    <3> QED BY ONLY <3>1, <3>2
  <2>6. /\ ~Completes => Here' = Here /\ Last' = Last
        /\ Completes => Last' = Here
    BY NextPlaces
  <2>7. /\ Risen < Bits => address = Here
        /\ Risen = Bits => address = Last
    BY <1>3 DEF WriteOK
  <2>8. /\ Risen' < Bits => address' = Here'
        /\ Risen' = Bits => address' = Last'
    <3>1. CASE Completes
      <4>1. Risen' = Bits /\ Risen < Bits /\ address' = address
        <5>1. ~(Risen' < Bits)
          <6>1. Risen = q /\ q = Bits - 1 /\ Risen' = q + 1
            BY <1>1, <1>2, <1>3, <2>5, <3>1, ByteStep DEF IInv
          <6> QED BY <1>3, <6>1
        <5> QED BY ONLY <2>3, <2>5, <3>1, <5>1
      <4> QED BY ONLY <2>4, <2>6, <2>7, <3>1, <4>1
    <3>2. CASE ~Completes
      <4>1. (Risen' = Risen \/ (Risen' < Bits /\ Risen < Bits)) /\ address' = address
        BY ONLY <2>3, <2>5, <3>2
      <4>2. Risen' < Bits => Risen < Bits
        BY ONLY <4>1
      <4>3. Risen' = Bits => Risen = Bits
        BY ONLY <2>4, <4>1
      <4> QED BY ONLY <2>6, <2>7, <3>2, <4>1, <4>2, <4>3
    <3> QED BY <3>1, <3>2
  <2>9. WriteOK'
    BY ONLY <2>3, <2>4, <2>8 DEF WriteOK
  <2> QED BY ONLY <1>3, <2>3, <2>9, stage = "data" DEF ThroughIs
<1>5. CASE step = 3 * Bits + 1
  <2>1. /\ scl = 0 /\ Lines.scl = 1 /\ Lines.sda = host_sda /\ host_sda \in {0, 1}
        /\ Risen = Bits /\ Risen' = Bits + 1 /\ stage' = stage /\ Here' = Here
    BY <1>1, <1>5, AckRises
  <2>2. state = "write_ack" /\ address = Last
    BY <1>3, <2>1 DEF WriteOK, ComesIn
  <2>3. request.done > 0
    <3>1. ~(step < 3 * Bits - 1)
      BY <1>3, <1>5
    <3> QED BY <1>3, <3>1 DEF RouteOK
  <2>4. (address + 1) % size = Here
    BY <1>3, <2>2, <2>3, RequestFacts
  <2>5. state' = "write" /\ counter' = Bits /\ address' = Here'
    BY <2>1, <2>2, <2>4, RiseWriteAck
  <2> QED BY ONLY <1>3, <2>1, <2>5, stage = "data" DEF ThroughIs, WriteOK, ComesIn, Writable
<1>6. CASE step = 3 * Bits + 2
  <2>1. Risen = Bits + 1
    BY <1>1, <1>6, ByteEnds
  <2>2. NextStage = IF request.done < Len(request.data) THEN "data" ELSE "stop"
    BY DEF NextStage
  <2>3. Risen > Bits
    BY <1>3, <2>1
  <2>4. Writable
    BY ONLY <1>3, <2>3, stage = "data", request.op = "write" DEF WriteOK
  <2> QED BY <1>1, <1>3, <1>6, <2>2, <2>4, WriteStarts, StopStarts
<1> QED BY <1>2, <1>4, <1>5, <1>6

\* A byte is read: what ReadOK says of it while bits of it are left.
ReadBit ==
  /\ state = "read" /\ counter = Bits - Risen /\ address = Here
  /\ sampled = Top(buffer[Here], Risen)
  /\ slave_sda = BitOf(buffer[Here], step \div 3 + 1)
  /\ latch = Left(buffer[Here], step \div 3 + 1)

ReadAt ==
  \/ Risen \in 0..(Bits - 1) /\ ReadBit
  \/ Risen = Bits /\ state = "read_ack" /\ address = Last
  \/ Risen = Bits + 1 /\ Readable

LEMMA ReadParts == ReadAt => ReadOK
<1>1. Bits \in Nat /\ ~(Bits < Bits) /\ ~(Bits > Bits) /\ ~(Bits + 1 < Bits) /\ Bits + 1 # Bits
      /\ \A r \in 0..(Bits - 1) : r # Bits /\ ~(r > Bits)
  BY Constants
<1> QED BY ONLY <1>1 DEF ReadOK, ReadBit, ReadAt

LEMMA ReadPartsNext == ReadAt' => ReadOK'
BY ReadParts, PTL

LEMMA ReadStep ==
  ASSUME IInv, MakeAccess, stage = "data", request.op = "read"
  PROVE  ThroughIs' /\ Settled'
<1>1. stage \in ByteStages /\ Receiving
  BY DEF ByteStages, Receiving
<1>2. PICK q \in Nat, p \in {0, 1, 2} :
        /\ step = 3 * q + p
        /\ q < Bits \/ p = 0 \/ (p = 1 /\ step = 3 * Bits + 1) \/ (p = 2 /\ step = 3 * Bits + 2)
  BY <1>1, ByteBasics
<1>3. /\ TypeOK /\ StepsOK /\ RouteOK /\ request # NoRequest /\ Settled' /\ ReadOK
      /\ request'.op = "read"
      /\ Bits \in Nat /\ ~(Bits < Bits) /\ Bits + 1 > Bits /\ ~(Bits + 1 < Bits) /\ Bits + 1 # Bits
  BY <1>1, ByteBasics
<1>4. CASE q < Bits \/ p = 0
  <2>1. /\ q \in 0..Bits /\ Risen = (IF p = 2 THEN q + 1 ELSE q)
        /\ Risen' = (IF p = 0 THEN q ELSE q + 1) /\ stage' = stage /\ step' = step + 1
        /\ step \div 3 = q /\ step % 3 = p
        /\ Completes <=> q = Bits - 1 /\ p = 1
    <3>1. ~(q = Bits /\ p = 2)
      BY <1>3, <1>4
    <3> QED BY <1>1, <1>2, <3>1, ByteStep DEF IInv
  <2>2. /\ ~Completes => Here' = Here /\ Last' = Last
        /\ Completes => Last' = Here
    BY NextPlaces
  <2>3. PICK b \in ByteValues : b = buffer[Here]
    BY <1>3, RequestFacts DEF TypeOK
  <2>4. b \in Nat
    BY Constants DEF ByteValues
  <2>5. Risen < Bits => /\ state = "read" /\ counter = Bits - Risen /\ address = Here
                        /\ sampled = Top(b, Risen) /\ slave_sda = BitOf(b, q + 1) /\ latch = Left(b, q + 1)
    BY ONLY <1>3, <2>1, <2>3, stage = "data", request.op = "read" DEF ReadOK
  <2>6. Risen = Bits => state = "read_ack" /\ address = Last
    BY ONLY <1>3, stage = "data", request.op = "read" DEF ReadOK
  <2>7. CASE p = 0
    <3>1. Still /\ UNCHANGED slave_sda
      BY <1>1, <1>2, <2>7, ByteLines, SetUp
    <3>2. ~Completes /\ ~Reads
      BY <2>1, <2>7 DEF Reads
    <3>3. sampled' = sampled
      BY <3>2, NoSample
    <3>4. Risen' = q /\ Risen = q /\ step' \div 3 = q
      BY <1>2, <2>1, <2>7
    <3>5. CASE q < Bits
      <4>1. Risen' \in 0..(Bits - 1)
        BY <1>3, <2>1, <3>4, <3>5
      <4>2. /\ state' = "read" /\ counter' = Bits - Risen' /\ address' = Here' /\ buffer'[Here'] = b
            /\ sampled' = Top(b, Risen') /\ slave_sda' = BitOf(b, q + 1) /\ latch' = Left(b, q + 1)
        BY ONLY <2>2, <2>3, <2>5, <3>1, <3>2, <3>3, <3>4, <3>5 DEF Still
      <4>3. ReadAt'
        BY ONLY <3>4, <4>1, <4>2 DEF ReadAt, ReadBit, Top, BitOf, Left
      <4> QED BY ONLY <1>3, <2>1, <4>3, stage = "data", ReadPartsNext DEF ThroughIs
    <3>6. CASE q = Bits
      <4>1. Risen' = Bits /\ state' = "read_ack" /\ address' = Last'
        BY ONLY <2>2, <2>6, <3>1, <3>2, <3>4, <3>6 DEF Still
      <4>2. ReadAt'
        BY ONLY <4>1 DEF ReadAt
      <4> QED BY ONLY <1>3, <2>1, <4>2, stage = "data", ReadPartsNext DEF ThroughIs
    <3> QED BY <1>3, <2>1, <3>5, <3>6
  <2>8. CASE p = 1
    <3>1. q < Bits /\ Risen = q /\ Risen' = q + 1 /\ Risen < Bits /\ step = 3 * q + 1
      BY <1>2, <1>4, <2>1, <2>8
    <3>2. step' \div 3 = q
      <4>1. step' = 3 * q + 2
        BY <2>1, <3>1
      <4> QED BY <4>1
    <3>3. scl = 0 /\ Lines.scl = 1 /\ Lines.sda = host_sda /\ host_sda \in {0, 1}
      BY <1>1, <1>2, <2>8, ByteLines
    <3>4. /\ state' = (IF counter = 1 THEN "read_ack" ELSE "read") /\ counter' = counter - 1 /\ latch' = latch
          /\ address' = address /\ buffer' = buffer /\ slave_sda' = slave_sda
      BY <2>5, <3>1, <3>3, RiseRead
    <3>5. counter = Bits - q
      BY <2>5, <3>1
    <3>6. /\ q < Bits - 1 => sampled' = Top(b, q + 1)
      BY <1>1, <2>3, <3>1, SampleStep
    <3>7. CASE q < Bits - 1
      <4>1. ~Completes /\ counter # 1 /\ counter - 1 = Bits - (q + 1) /\ Risen' \in 0..(Bits - 1)
        BY <1>3, <2>1, <3>1, <3>5, <3>7
      <4>2. /\ state' = "read" /\ counter' = Bits - Risen' /\ address' = Here' /\ buffer'[Here'] = b
            /\ sampled' = Top(b, Risen') /\ slave_sda' = BitOf(b, q + 1) /\ latch' = Left(b, q + 1)
        BY ONLY <2>2, <2>3, <2>5, <3>1, <3>4, <3>6, <3>7, <4>1
      <4>3. ReadAt'
        BY ONLY <3>2, <4>1, <4>2 DEF ReadAt, ReadBit, Top, BitOf, Left
      <4> QED BY ONLY <1>3, <2>1, <4>3, stage = "data", ReadPartsNext DEF ThroughIs
    <3>8. CASE q = Bits - 1
      <4>1. Completes /\ counter = 1 /\ Risen' = Bits
        BY <1>3, <2>1, <2>8, <3>1, <3>5, <3>8
      <4>2. state' = "read_ack" /\ address' = Last'
        BY ONLY <2>2, <2>5, <3>1, <3>4, <4>1
      <4>3. ReadAt'
        BY ONLY <4>1, <4>2 DEF ReadAt
      <4> QED BY ONLY <1>3, <2>1, <4>3, stage = "data", ReadPartsNext DEF ThroughIs
    <3> QED BY <1>3, <3>1, <3>7, <3>8
  <2>9. CASE p = 2
    <3>1. q < Bits /\ Risen = q + 1 /\ Risen' = q + 1 /\ ~Completes /\ ~Reads
      BY <1>4, <2>1, <2>9 DEF Reads
    <3>2. step' \div 3 = q + 1
      <4>1. step' = 3 * (q + 1) + 0
        BY <1>2, <2>1, <2>9
      <4> QED BY <4>1
    <3>3. scl = 1 /\ Lines.scl = 0
      BY <1>1, <1>2, <2>9, ByteLines
    <3>4. sampled' = sampled
      BY <3>1, NoSample
    <3>5. CASE q + 1 < Bits
      <4>1. state = "read" /\ q + 1 \in 0..(Bits - 1) /\ Risen' \in 0..(Bits - 1) /\ Risen < Bits
        BY <1>3, <2>5, <3>1, <3>5
      <4>2. /\ UNCHANGED <<buffer, state, counter, address>>
            /\ slave_sda' = latch \div 2^(Bits - 1) /\ latch' = (2 * latch) % 2^Bits
        BY <3>3, <4>1, FallRead
      <4>3. PICK f \in 0..(Bits - 1) : f = q + 1
        BY <4>1
      <4>4. Left(b, f) \div 2^(Bits - 1) = BitOf(b, f + 1) /\ (2 * Left(b, f)) % ByteSize = Left(b, f + 1)
        BY ONLY <2>4, f \in 0..(Bits - 1), GoesOutNext
      <4>5. latch = Left(b, f) /\ sampled = Top(b, f) /\ counter = Bits - f /\ address = Here
        BY ONLY <2>5, <3>1, <4>1, <4>3
      <4>6. slave_sda' = BitOf(b, f + 1) /\ latch' = Left(b, f + 1)
        BY ONLY <4>2, <4>4, <4>5 DEF ByteSize
      <4>7. /\ state' = "read" /\ counter' = Bits - f /\ address' = Here' /\ buffer'[Here'] = b
            /\ sampled' = Top(b, f) /\ Risen' = f
        BY ONLY <2>2, <2>3, <3>1, <3>4, <4>1, <4>2, <4>3, <4>5
      <4>8. ReadAt'
        BY ONLY <3>2, <4>1, <4>3, <4>6, <4>7 DEF ReadAt, ReadBit, Top, BitOf, Left
      <4> QED BY ONLY <1>3, <2>1, <4>8, stage = "data", ReadPartsNext DEF ThroughIs
    <3>6. CASE q + 1 = Bits
      <4>1. state = "read_ack" /\ address = Last /\ Risen' = Bits
        BY <2>6, <3>1, <3>6
      <4>2. Still
        BY <3>3, <4>1, FallAcks DEF Acks
      <4>3. ReadAt'
        BY ONLY <2>2, <3>1, <4>1, <4>2 DEF ReadAt, Still
      <4> QED BY ONLY <1>3, <2>1, <4>3, stage = "data", ReadPartsNext DEF ThroughIs
    <3> QED BY <1>3, <3>1, <3>5, <3>6
  <2> QED BY <2>7, <2>8, <2>9
<1>5. CASE step = 3 * Bits + 1
  <2>1. /\ scl = 0 /\ Lines.scl = 1 /\ Lines.sda = host_sda /\ host_sda \in {0, 1}
        /\ Risen = Bits /\ Risen' = Bits + 1 /\ stage' = stage /\ Here' = Here /\ buffer' = buffer
    BY <1>1, <1>5, AckRises
  <2>2. state = "read_ack" /\ address = Last
    BY <1>3, <2>1 DEF ReadOK
  <2>3. request.done > 0
    <3>1. ~(step < 3 * Bits - 1)
      BY <1>3, <1>5
    <3> QED BY <1>3, <3>1 DEF RouteOK
  <2>4. (address + 1) % size = Here
    BY <1>3, <2>2, <2>3, RequestFacts
  <2>5. state' = "read" /\ counter' = Bits /\ address' = Here' /\ latch' = buffer'[Here']
    BY <2>1, <2>2, <2>4, RiseReadAck
  <2>6. ReadAt'
    BY ONLY <2>1, <2>5 DEF ReadAt, Readable
  <2> QED BY ONLY <1>3, <2>1, <2>6, stage = "data", ReadPartsNext DEF ThroughIs
<1>6. CASE step = 3 * Bits + 2
  <2>1. Risen = Bits + 1
    BY <1>1, <1>6, ByteEnds
  <2>2. NextStage = IF request.done < Len(request.data) THEN "data" ELSE "stop"
    BY DEF NextStage
  <2>3. Risen > Bits
    BY <1>3, <2>1
  <2>4. Readable
    BY ONLY <1>3, <2>3, stage = "data", request.op = "read" DEF ReadOK
  <2> QED BY <1>1, <1>3, <1>6, <2>2, <2>4, ReadStarts, StopStarts
<1> QED BY <1>2, <1>4, <1>5, <1>6

\* What a request still says when no byte of it goes through.
LEMMA SameRequest ==
  ASSUME IInv, MakeAccess, stage \notin ByteStages
  PROVE  /\ ~Completes /\ request' = request /\ size' = size
         /\ Here' = Here /\ Last' = Last /\ Hi' = Hi
         /\ Bits \in Nat /\ Bits >= 3 /\ TypeOK /\ request # NoRequest /\ request'.op = request.op
<1>1. ~Completes
  BY DEF Completes, ByteStages
<1>2. request' = request /\ size' = size /\ request # NoRequest
  BY <1>1 DEF MakeAccess
<1>3. Bits \in Nat /\ Bits >= 3 /\ TypeOK
  BY Constants DEF IInv
<1> QED BY <1>1, <1>2, <1>3, NextPlaces

\* The start condition, and the clock's fall after it.
LEMMA StartStep ==
  ASSUME IInv, MakeAccess, stage = "start", step \in {2, 3}
  PROVE  ThroughIs' /\ Settled'
<1>1. stage \notin ByteStages
  BY DEF ByteStages
<1>2. /\ Bits \in Nat /\ Bits >= 3 /\ TypeOK /\ request' = request
  BY <1>1, SameRequest
<1>3. /\ Lines.scl = (IF step \in {0, 3} THEN 0 ELSE 1) /\ Lines.sda = (IF step \in {0, 1} THEN 1 ELSE 0)
      /\ step = 2 => scl = 1 /\ host_sda = 1
      /\ step = 3 => scl = 1 /\ host_sda = 0
      /\ IF step < 3 THEN step' = step + 1 /\ stage' = stage ELSE step' = 0 /\ stage' = NextStage
  BY StartLines
<1>4. CASE step = 2
  <2>1. scl = 1 /\ Lines.scl = 1 /\ host_sda = 1 /\ Lines.sda = 0 /\ stage' = stage
    BY <1>3, <1>4
  <2>2. state' = "start" /\ counter' = Bits /\ at_risk' = Nowhere /\ resets' = 0
    BY <2>1, StartEdge
  <2> QED BY ONLY <2>1, <2>2, stage = "start" DEF ThroughIs, Settled, Expects
<1>5. CASE step = 3
  <2>1. scl = 1 /\ Lines.scl = 0 /\ step' = 0 /\ stage' = "device"
    BY <1>3, <1>5 DEF NextStage
  <2>2. Through
    BY <1>5 DEF Through, MakeAccess
  <2>3. state = "start" /\ counter = Bits
    BY <2>2 DEF IInv, ThroughOK, EndOK, Expects
  <2>4. state' = "start" /\ counter' = Bits
    BY <1>2, <2>1, <2>3, FallLines
  <2>5. ~Receiving' /\ stage' \in ByteStages
    BY <2>1 DEF Receiving, ByteStages
  <2>6. ComesIn("start", "device_ack", Sent)' /\ Risen' = 0
    BY <2>1, <2>4, <2>5, ByteStarts
  <2>7. ~(0 > Bits)
    BY <1>2
  <2>8. DeviceOK'
    BY ONLY <2>6, <2>7 DEF DeviceOK
  <2>9. Settled'
    BY <2>2, StaysSettled
  <2> QED BY ONLY <2>1, <2>8, <2>9 DEF ThroughIs
<1> QED BY <1>4, <1>5

\* A start condition again.
LEMMA RestartStep ==
  ASSUME IInv, MakeAccess, stage = "restart"
  PROVE  ThroughIs' /\ Settled'
<1>1. stage \notin ByteStages /\ Through
  BY DEF ByteStages, Through, MakeAccess
<1>2. /\ Bits \in Nat /\ Bits >= 3 /\ TypeOK /\ request' = request /\ Here' = Here
  BY <1>1, SameRequest
<1>3. /\ step \in 0..3 /\ scl \in {0, 1}
      /\ Lines.scl = (IF step \in {0, 3} THEN 0 ELSE 1) /\ Lines.sda = (IF step \in {0, 1} THEN 1 ELSE 0)
      /\ step = 0 => scl = 0
      /\ step = 1 => scl = 0 /\ host_sda = 1
      /\ step = 2 => scl = 1 /\ host_sda = 1
      /\ step = 3 => scl = 1 /\ host_sda = 0
      /\ IF step < 3 THEN step' = step + 1 /\ stage' = stage ELSE step' = 0 /\ stage' = NextStage
  BY StartLines
<1>4. Settled'
  BY <1>1, StaysSettled
<1>5. /\ address = Here
      /\ state = IF step < 3 THEN "write" ELSE "start"
      /\ counter = IF step = 2 THEN Bits - 1 ELSE Bits
  BY <1>1 DEF IInv, ThroughOK, RestartOK
<1>6. CASE step = 0
  <2>1. scl = 0 /\ Lines.scl = 0 /\ step' = 1 /\ stage' = "restart"
    BY <1>3, <1>6
  <2>2. Still
    BY <2>1, SetUp
  <2>3. address' = Here' /\ state' = "write" /\ counter' = Bits
    BY <1>2, <1>5, <1>6, <2>2 DEF Still
  <2>4. RestartOK'
    BY ONLY <2>1, <2>3 DEF RestartOK
  <2> QED BY ONLY <1>4, <2>1, <2>4 DEF ThroughIs
<1>7. CASE step = 1
  <2>1. scl = 0 /\ Lines.scl = 1 /\ Lines.sda = host_sda /\ host_sda \in {0, 1} /\ step' = 2 /\ stage' = "restart"
    BY <1>3, <1>7
  <2>2. state = "write" /\ counter = Bits /\ counter \in Nat /\ counter # 1
    BY <1>2, <1>5, <1>7
  <2>3. state' = "write" /\ counter' = Bits - 1 /\ address' = address
    BY <2>1, <2>2, RiseBit
  <2>4. address' = Here'
    BY <1>2, <1>5, <2>3
  <2>5. RestartOK'
    BY ONLY <2>1, <2>3, <2>4 DEF RestartOK
  <2> QED BY ONLY <1>4, <2>1, <2>5 DEF ThroughIs
<1>8. CASE step = 2
  <2>1. scl = 1 /\ Lines.scl = 1 /\ host_sda = 1 /\ Lines.sda = 0 /\ step' = 3 /\ stage' = "restart"
    BY <1>3, <1>8
  <2>2. state' = "start" /\ counter' = Bits /\ address' = Here'
    BY <1>2, <1>5, <2>1, StartEdge
  <2>5. RestartOK'
    BY ONLY <2>1, <2>2 DEF RestartOK
  <2> QED BY ONLY <1>4, <2>1, <2>5 DEF ThroughIs
<1>9. CASE step = 3
  <2>1. scl = 1 /\ Lines.scl = 0 /\ step' = 0 /\ stage' = "device_again"
    BY <1>3, <1>9 DEF NextStage
  <2>2. state = "start" /\ counter = Bits
    BY <1>5, <1>9
  <2>4. state' = "start" /\ counter' = Bits /\ address' = Here'
    BY <1>2, <1>5, <2>1, <2>2, FallLines
  <2>5. ~Receiving' /\ stage' \in ByteStages
    BY <2>1 DEF Receiving, ByteStages
  <2>6. ComesIn("start", "device_ack", Sent)' /\ Risen' = 0
    BY <2>1, <2>4, <2>5, ByteStarts
  <2>7. ~(0 > Bits)
    BY <1>2
  <2>8. RestartOK'
    BY ONLY <2>1, <2>4, <2>6, <2>7 DEF RestartOK
  <2> QED BY ONLY <1>4, <2>1, <2>8 DEF ThroughIs
<1> QED BY <1>3, <1>6, <1>7, <1>8, <1>9

LEMMA StopStep ==
  ASSUME IInv, MakeAccess, stage = "stop"
  PROVE  ThroughIs' /\ Settled'
<1>1. stage \notin ByteStages /\ Through
  BY DEF ByteStages, Through, MakeAccess
<1>2. Bits \in Nat /\ Bits >= 3 /\ TypeOK /\ request' = request /\ size' = size
  BY <1>1, SameRequest
<1>3. /\ step \in 0..2
      /\ Lines.scl = (IF step = 0 THEN 0 ELSE 1) /\ Lines.sda = (IF step = 2 THEN 1 ELSE 0)
      /\ step < 2 => scl = 0
      /\ step > 0 => host_sda = 0
      /\ step = 2 => scl = 1
      /\ IF step < 2 THEN step' = step + 1 /\ stage' = "stop" ELSE step' = 0 /\ stage' = "made"
  BY StopLines
<1>4. Settled'
  BY <1>1, StaysSettled
<1>5. /\ state \in {"read", "write"} /\ address < size
      /\ counter = IF step = 2 THEN Bits - 1 ELSE Bits
  BY <1>1 DEF IInv, ThroughOK, EndOK
<1>6. CASE step = 0
  <2>1. scl = 0 /\ Lines.scl = 0 /\ step' = 1 /\ stage' = "stop"
    BY <1>3, <1>6
  <2>2. Still
    BY <2>1, SetUp
  <2>3. state' \in {"read", "write"} /\ address' < size' /\ counter' = Bits
    BY <1>2, <1>5, <1>6, <2>2 DEF Still
  <2>4. EndOK'
    BY ONLY <2>1, <2>3 DEF EndOK
  <2> QED BY ONLY <1>4, <2>1, <2>4 DEF ThroughIs
<1>7. CASE step = 1
  <2>1. scl = 0 /\ Lines.scl = 1 /\ Lines.sda = host_sda /\ host_sda \in {0, 1} /\ step' = 2 /\ stage' = "stop"
    BY <1>3, <1>7
  <2>2. counter = Bits /\ counter \in Nat /\ counter # 1
    BY <1>2, <1>5, <1>7
  <2>3. state' \in {"read", "write"} /\ counter' = Bits - 1 /\ address' = address
    <3>1. CASE state = "write"
      BY <2>1, <2>2, <3>1, RiseBit
    <3>2. CASE state = "read"
      BY <2>1, <2>2, <3>2, RiseRead
    <3> QED BY <1>5, <3>1, <3>2
  <2>4. address' < size'
    BY <1>2, <1>5, <2>3
  <2>5. EndOK'
    BY ONLY <2>1, <2>3, <2>4 DEF EndOK
  <2> QED BY ONLY <1>4, <2>1, <2>5 DEF ThroughIs
<1>8. CASE step = 2
  <2>1. scl = 1 /\ Lines.scl = 1 /\ host_sda = 0 /\ Lines.sda = 1 /\ stage' = "made"
    BY <1>3, <1>8
  <2>2. state' = "idle"
    BY <2>1, StopEdge
  <2>3. EndOK'
    BY ONLY <2>1, <2>2 DEF EndOK
  <2> QED BY ONLY <1>4, <2>1, <2>3 DEF ThroughIs
<1> QED BY <1>3, <1>6, <1>7, <1>8

-----------------------------------------------------------------------------
(* The invariant.                                                              *)

LEMMA NextSettles ==
  ASSUME IInv, MakeAccess, ~(stage = "start" /\ step < 2)
  PROVE  ThroughIs' /\ Settled'
<1>1. stage \in Stages /\ stage # "made" /\ request.op \in {"read", "write"}
  BY RequestFacts DEF IInv, TypeOK, MakeAccess
<1>2. CASE stage = "start"
  <2>1. step \in {2, 3}
    BY <1>2, StartLines
  <2> QED BY <1>2, <2>1, StartStep
<1>3. CASE stage \in {"device", "high", "low"}
  BY <1>3, DeviceStep, HighStep, LowStep
<1>4. CASE stage \in {"restart", "device_again", "stop"}
  BY <1>4, RestartStep, AgainStep, StopStep
<1>5. CASE stage = "data"
  BY <1>1, <1>5, WriteStep, ReadStep
<1> QED BY ONLY <1>1, <1>2, <1>3, <1>4, <1>5 DEF Stages

\* The first three accesses of a request.
LEMMA FirstAccesses ==
  ASSUME IInv, MakeAccess, stage = "start", step < 2
  PROVE  /\ TypeOK /\ size' = size /\ step' = step + 1 /\ stage' = "start" /\ step \in {0, 1} /\ ~Through
         /\ step = 0 => /\ UNCHANGED <<buffer, state, counter, address, at_risk, resets>>
                        /\ state # "read" => latch' = latch
         /\ step = 1 => scl = 0 /\ Lines.scl = 1 /\ Lines.sda = host_sda /\ host_sda \in {0, 1}
                        /\ UNCHANGED <<at_risk, resets>>
         /\ UnsettledOK
<1>1. TypeOK /\ size' = size /\ UnsettledOK /\ ~Through
  <2>1. step < 3
    BY StartLines
  <2> QED BY <2>1, RequestStep DEF IInv, Through
<1>2. /\ step \in {0, 1} /\ scl \in {0, 1}
      /\ Lines.scl = (IF step \in {0, 3} THEN 0 ELSE 1) /\ Lines.sda = (IF step \in {0, 1} THEN 1 ELSE 0)
      /\ step = 1 => scl = 0 /\ host_sda = 1
      /\ step' = step + 1 /\ stage' = "start"
  BY StartLines
<1>3. ASSUME step = 0
      PROVE  /\ UNCHANGED <<buffer, state, counter, address, at_risk, resets>>
             /\ state # "read" => latch' = latch
  <2>1. Lines.scl = 0
    BY <1>2, <1>3
  <2>2. CASE scl = 0
    <3>1. Still
      BY <2>1, <2>2, SetUp
    <3>2. UNCHANGED <<at_risk, resets>>
      BY <2>2, Risks, 0 # 1
    <3> QED BY <3>1, <3>2 DEF Still
  <2>3. CASE scl = 1
    BY <1>1, <2>1, <2>3, FallLines
  <2> QED BY <1>2, <2>2, <2>3
<1>4. ASSUME step = 1
      PROVE  /\ scl = 0 /\ Lines.scl = 1 /\ Lines.sda = host_sda /\ host_sda \in {0, 1}
             /\ UNCHANGED <<at_risk, resets>>
  <2>1. scl = 0 /\ Lines.scl = 1 /\ Lines.sda = host_sda /\ host_sda \in {0, 1}
    BY <1>2, <1>4
  <2> QED BY <1>1, <2>1, RiseLines
<1> QED BY <1>1, <1>2, <1>3, <1>4

LEMMA NextUnsettled ==
  ASSUME IInv, MakeAccess, stage = "start", step < 2
  PROVE  UnsettledOK'
<1>1. /\ TypeOK /\ size' = size /\ step' = step + 1 /\ stage' = "start" /\ step \in {0, 1} /\ ~Through
      /\ step = 0 => /\ UNCHANGED <<buffer, state, counter, address, at_risk, resets>>
                     /\ state # "read" => latch' = latch
      /\ step = 1 => scl = 0 /\ Lines.scl = 1 /\ Lines.sda = host_sda /\ host_sda \in {0, 1}
                     /\ UNCHANGED <<at_risk, resets>>
      /\ UnsettledOK
  BY FirstAccesses
<1>2. CASE step = 0
  <2>1. /\ UNCHANGED <<buffer, state, counter, address, at_risk, resets>>
        /\ state # "read" => latch' = latch
        /\ step' < 2
    BY <1>1, <1>2
  <2>2. resets > 0 => BeforeRise
    BY <1>1, <1>2 DEF UnsettledOK
  <2>3. BeforeRise => BeforeRise'
    BY ONLY <1>1, <2>1 DEF BeforeRise, CanRise, Short
  <2>4. resets = 0 => state = "idle"
    BY <1>1 DEF UnsettledOK
  <2> QED BY ONLY <2>1, <2>2, <2>3, <2>4 DEF UnsettledOK
<1>3. CASE step = 1
  <2>1. /\ scl = 0 /\ Lines.scl = 1 /\ Lines.sda = host_sda /\ host_sda \in {0, 1}
        /\ UNCHANGED <<at_risk, resets>> /\ ~(step' < 2)
    BY <1>1, <1>3
  <2>2. CanRise
    BY <2>1, RiseReady
  <2>3. AfterRise'
    BY <1>1, <2>1, <2>2, RiseKeeps DEF AfterRise
  <2>4. resets = 0 => state' = "idle"
    BY <1>1, <2>1, RiseIdle DEF UnsettledOK
  <2> QED BY ONLY <2>1, <2>3, <2>4 DEF UnsettledOK
<1> QED BY <1>1, <1>2, <1>3

LEMMA BecomesThrough ==
  ASSUME IInv, MakeAccess, ~(stage = "start" /\ step < 2)
  PROVE  Through'
<1>1. request' # NoRequest /\ step \in Nat
  BY RequestStep DEF IInv, TypeOK
<1>2. stage' = "start" => step' = 3
  <2>1. CASE stage = "start"
    <3>1. /\ step \in {2, 3}
          /\ IF step < 3 THEN step' = step + 1 /\ stage' = stage ELSE step' = 0 /\ stage' = NextStage
      BY <2>1, StartLines
    <3> QED BY <2>1, <3>1 DEF NextStage
  <2>2. CASE stage # "start"
    <3>1. stage' = stage \/ stage' = NextStage
      BY NextStageIn DEF MakeAccess
    <3>2. stage \in Stages /\ stage # "made"
      BY DEF IInv, TypeOK, MakeAccess
    <3> QED BY ONLY <2>2, <3>1, <3>2 DEF NextStage, Stages
  <2> QED BY <2>1, <2>2
<1>3. ~(3 < 3)
  OBVIOUS
<1> QED BY ONLY <1>1, <1>2, <1>3 DEF Through

LEMMA AccessKeeps ==
  ASSUME IInv, MakeAccess
  PROVE  IInv'
<1>1. (TypeOK /\ StepsOK /\ RouteOK /\ LinesOK /\ SampledOK)'
  BY NextBasics
<1>2. CASE stage = "start" /\ step < 2
  <2>1. stage' = "start" /\ step' < 3
    BY <1>2, FirstAccesses
  <2>2. ~Through'
    BY ONLY <2>1 DEF Through
  <2>3. ThroughOK'
    BY ONLY <2>2 DEF ThroughOK
  <2>4. UnsettledOK'
    BY <1>2, NextUnsettled
  <2> QED BY ONLY <1>1, <2>3, <2>4 DEF IInv
<1>3. CASE ~(stage = "start" /\ step < 2)
  <2>1. ThroughOK'
    BY <1>3, NextSettles, ThroughByStageNext
  <2>2. Through'
    BY <1>3, BecomesThrough
  <2>3. UnsettledOK'
    BY ONLY <2>2 DEF UnsettledOK
  <2> QED BY ONLY <1>1, <2>1, <2>3 DEF IInv
<1> QED BY <1>2, <1>3

LEMMA InitHolds == Init => IInv
<1> SUFFICES ASSUME Init PROVE IInv
  OBVIOUS
<1>1. /\ size \in Sizes /\ size \in Nat /\ size > 0 /\ Bits \in Nat /\ ByteSize \in Nat /\ ByteSize > 1
      /\ MaxResets \in Nat
  BY Constants DEF Init
<1>2. TypeOK
  <2>1. ByteSize - 1 \in ByteValues /\ 0 \in ByteValues
    BY <1>1 DEF ByteValues
  <2>2. buffer \in [0..(size - 1) -> ByteValues]
    BY <2>1 DEF Init
  <2>3. result \in Seq(ByteValues)
    BY DEF Init
  <2> QED BY <1>1, <2>1, <2>2, <2>3 DEF Init, TypeOK, States, Stages
<1>3. /\ ~Through /\ request = NoRequest /\ stage = "start" /\ step = 0
      /\ resets = 0 /\ state = "idle" /\ at_risk = Nowhere
  BY DEF Init, Through
<1>4. StepsOK /\ RouteOK /\ LinesOK /\ SampledOK
  BY ONLY <1>1, <1>3 DEF StepsOK, RouteOK, LinesOK, SampledOK, ByteStages
<1>5. ThroughOK /\ UnsettledOK
  BY ONLY <1>3 DEF ThroughOK, UnsettledOK
<1> QED BY <1>2, <1>4, <1>5 DEF IInv

LEMMA RequestsAre ==
  ASSUME TypeOK, NEW r \in Requests(size)
  PROVE  /\ DOMAIN r = {"op", "addr", "data", "done"} /\ r.op \in {"read", "write"} /\ r.addr \in 0..(size - 1)
         /\ r.data \in Seq(ByteValues) /\ Len(r.data) > 0 /\ r.done = 0 /\ r.done \in 0..Len(r.data)
         /\ r # NoRequest
<1>1. /\ size \in Sizes /\ Addresses(size) \subseteq 0..(size - 1) /\ Data \subseteq ByteValues /\ MaxBytes \in Nat
      /\ 0 \in ByteValues
  BY Constants, EepromAssumption DEF TypeOK, ByteValues
<1>2. \A d : d \in UNION {[1..k -> Data] : k \in 1..MaxBytes} => d \in Seq(ByteValues) /\ Len(d) > 0
  <2>1. ASSUME NEW k \in 1..MaxBytes, NEW d \in [1..k -> Data]
        PROVE  d \in Seq(ByteValues) /\ Len(d) > 0
    <3>1. k \in Nat /\ k > 0
      BY <1>1
    <3>2. d \in [1..k -> ByteValues]
      BY <1>1
    <3> QED BY <3>1, <3>2
  <2> QED BY <2>1
<1>3. \A d : d \in {[i \in 1..k |-> 0] : k \in 1..MaxBytes} => d \in Seq(ByteValues) /\ Len(d) > 0
  <2>1. ASSUME NEW k \in 1..MaxBytes, NEW d, d = [i \in 1..k |-> 0]
        PROVE  d \in Seq(ByteValues) /\ Len(d) > 0
    <3>1. k \in Nat /\ k > 0
      BY <1>1
    <3>2. d \in [1..k -> ByteValues]
      BY <1>1, <2>1
    <3> QED BY <3>1, <3>2
  <2> QED BY <2>1
<1>4. /\ DOMAIN r = {"op", "addr", "data", "done"} /\ r.op \in {"read", "write"} /\ r.addr \in Addresses(size) /\ r.done = 0
      /\ \/ r.data \in UNION {[1..k -> Data] : k \in 1..MaxBytes}
         \/ r.data \in {[i \in 1..k |-> 0] : k \in 1..MaxBytes}
  BY DEF Requests
<1>5. r.data \in Seq(ByteValues) /\ Len(r.data) > 0
  BY <1>2, <1>3, <1>4
<1>6. r.done \in 0..Len(r.data)
  BY <1>4, <1>5
<1>7. r # NoRequest
  BY <1>4 DEF NoRequest
<1> QED BY <1>1, <1>4, <1>5, <1>6, <1>7

\* The four actions that leave the EEPROM alone: what they do to the game.
LEMMA GameKeeps ==
  ASSUME TypeOK, UNCHANGED <<size, eepromVars>>, stage' = "start", step' = 0,
         request' = NoRequest \/ (IsRequest(request)' /\ request'.done = 0 /\ sampled' = 0),
         sampled' \in Nat, result' \in Seq(ByteValues),
         at_risk' = Nowhere \/ at_risk' \in 0..(size - 1), resets' \in 0..MaxResets,
         UnsettledOK'
  PROVE  IInv'
<1>1. TypeOK'
  <2>1. UNCHANGED <<size, buffer, state, counter, latch, address, host_sda, slave_sda, scl>>
    BY DEF eepromVars
  <2>2. /\ size' \in Sizes /\ buffer' \in [0..(size' - 1) -> ByteValues]
        /\ state' \in States /\ counter' \in 0..Bits /\ latch' \in ByteValues /\ address' \in Nat
        /\ {host_sda', slave_sda', scl'} \subseteq {0, 1}
        /\ at_risk' = Nowhere \/ at_risk' \in 0..(size' - 1)
    BY <2>1 DEF TypeOK
  <2>3. request' = NoRequest \/ IsRequest(request)'
    OBVIOUS
  <2>4. stage' \in Stages /\ step' \in Nat
    BY DEF Stages
  <2> QED BY ONLY <2>2, <2>3, <2>4, sampled' \in Nat, result' \in Seq(ByteValues), resets' \in 0..MaxResets
             DEF TypeOK
<1>2. request' # NoRequest => request'.done = 0 /\ sampled' = 0
  OBVIOUS
<1>3. (StepsOK /\ RouteOK /\ LinesOK /\ SampledOK)'
  BY ONLY <1>2, stage' = "start", step' = 0 DEF StepsOK, RouteOK, LinesOK, SampledOK, ByteStages
<1>4. ThroughOK'
  <2>1. ~Through'
    BY ONLY stage' = "start", step' = 0 DEF Through
  <2> QED BY ONLY <2>1 DEF ThroughOK
<1> QED BY ONLY <1>1, <1>3, <1>4, UnsettledOK' DEF IInv

LEMMA AskKeeps ==
  ASSUME IInv, Ask
  PROVE  IInv'
<1>1. TypeOK /\ request = NoRequest /\ UNCHANGED <<size, eepromVars, at_risk, resets>>
      /\ stage' = "start" /\ step' = 0 /\ sampled' = 0 /\ result' = <<>> /\ request' \in Requests(size)
  BY DEF Ask, IInv
<1>2. IsRequest(request)' /\ request'.done = 0
  BY <1>1, RequestsAre DEF IsRequest
<1>3. at_risk' = Nowhere \/ at_risk' \in 0..(size - 1)
  BY <1>1 DEF TypeOK
<1>4. resets' \in 0..MaxResets /\ result' \in Seq(ByteValues) /\ sampled' \in Nat
  BY <1>1 DEF TypeOK
<1>5. stage = "start" /\ step = 0
  BY <1>1 DEF IInv, StepsOK
<1>6. ~Through /\ UnsettledOK
  BY <1>1 DEF IInv, Through
<1>7. UnsettledOK'
  <2>1. UNCHANGED <<size, buffer, state, counter, latch, address, at_risk, resets, step>>
    BY <1>1, <1>5 DEF eepromVars
  <2> QED BY ONLY <1>6, <2>1 DEF UnsettledOK, BeforeRise, AfterRise, CanRise, Short, Nowhere
<1>8. UNCHANGED <<size, eepromVars>>
  BY <1>1
<1> QED BY ONLY <1>1, <1>2, <1>3, <1>4, <1>7, <1>8, GameKeeps

LEMMA FinishKeeps ==
  ASSUME IInv, Finish
  PROVE  IInv'
<1>1. TypeOK /\ request # NoRequest /\ stage = "made" /\ UNCHANGED <<size, eepromVars, sampled, result, at_risk, resets>>
      /\ stage' = "start" /\ step' = 0 /\ request' = NoRequest
  BY DEF Finish, IInv
<1>3. at_risk' = Nowhere \/ at_risk' \in 0..(size - 1)
  BY <1>1 DEF TypeOK
<1>4. resets' \in 0..MaxResets /\ result' \in Seq(ByteValues) /\ sampled' \in Nat
  BY <1>1 DEF TypeOK
<1>6. state = "idle" /\ at_risk = Nowhere /\ resets = 0
  BY <1>1 DEF IInv, Through, ThroughOK, EndOK
<1>7. UnsettledOK'
  <2>1. state' = "idle" /\ resets' = 0
    BY <1>1, <1>6 DEF eepromVars
  <2> QED BY ONLY <2>1 DEF UnsettledOK
<1>8. UNCHANGED <<size, eepromVars>>
  BY <1>1
<1> QED BY ONLY <1>1, <1>3, <1>4, <1>7, <1>8, GameKeeps

\* An interruption: the byte on its way is at risk, and the clock may rise.
LEMMA Interrupted ==
  ASSUME IInv, OneInterruption, Interrupt
  PROVE  /\ UnsettledOK' /\ resets' \in 0..MaxResets
         /\ at_risk' = Nowhere \/ at_risk' \in 0..(size - 1)
<1>1. /\ TypeOK /\ size \in Nat /\ size > 0 /\ resets \in Nat /\ MaxResets \in Nat
      /\ request # NoRequest /\ at_risk' = AtRisk /\ step' = 0
  BY Constants DEF IInv, TypeOK, Interrupt
<1>2. AtRisk = IF request.op = "write" /\ request.done < Len(request.data) /\ at_risk = Nowhere THEN Here ELSE at_risk
  BY DEF AtRisk, Here
<1>3. Here \in 0..(size - 1)
  BY <1>1, RequestFacts
<1>4. at_risk' = Nowhere \/ at_risk' \in 0..(size - 1)
  BY <1>1, <1>2, <1>3 DEF TypeOK
<1>5. UNCHANGED <<size, buffer, state, counter, latch, address>>
  BY DEF Interrupt, eepromVars
<1>6. CASE Clocked
  <2>1. resets < MaxResets /\ resets' = resets + 1
    BY <1>6 DEF Interrupt
  <2>2. resets = 0 /\ resets' = 1 /\ resets' \in 0..MaxResets
    BY <1>1, <2>1 DEF OneInterruption
  <2>3. BeforeRise'
    <3>1. CASE Through
      <4>1. /\ CanRise /\ at_risk = Nowhere
            /\ state = "write" /\ counter = 1 =>
                 request.op = "write" /\ request.done < Len(request.data) /\ address = Here
        BY <3>1, ThroughCanRise DEF IInv, ThroughOK
      <4>2. CanRise'
        BY <4>1, <1>5 DEF CanRise, Short
      <4>3. state' = "write" /\ counter' = 1 => at_risk' = address'
        BY ONLY <1>1, <1>2, <1>5, <4>1
      <4> QED BY ONLY <4>2, <4>3 DEF BeforeRise
    <3>2. CASE ~Through
      <4>1. state' = "idle"
        BY <1>5, <2>2, <3>2 DEF IInv, UnsettledOK
      <4> QED BY ONLY <4>1 DEF BeforeRise, CanRise
    <3> QED BY <3>1, <3>2
  <2>4. UnsettledOK'
    BY ONLY <1>1, <2>2, <2>3 DEF UnsettledOK
  <2> QED BY <1>4, <2>2, <2>4
<1>7. CASE ~Clocked
  <2>1. resets' = resets /\ resets' \in 0..MaxResets /\ stage = "start" /\ step < 2 /\ step < 3
    BY <1>1, <1>7 DEF Interrupt, Clocked, TypeOK
  <2>2. /\ resets = 0 => state = "idle"
        /\ resets > 0 => BeforeRise
    BY <2>1 DEF IInv, UnsettledOK, Through
  <2>3. BeforeRise => BeforeRise'
    <3>1. CanRise => CanRise'
      BY <1>5 DEF CanRise, Short
    <3>2. BeforeRise => (state' = "write" /\ counter' = 1 => at_risk' = address')
      <4>1. address # Nowhere
        BY <1>1 DEF TypeOK, Nowhere
      <4> QED BY ONLY <1>1, <1>2, <1>5, <4>1 DEF BeforeRise
    <3> QED BY ONLY <3>1, <3>2 DEF BeforeRise
  <2>4. UnsettledOK'
    BY ONLY <1>1, <1>5, <2>1, <2>2, <2>3 DEF UnsettledOK
  <2> QED BY <1>4, <2>1, <2>4
<1> QED BY <1>6, <1>7

LEMMA ResetKeeps ==
  ASSUME IInv, OneInterruption, Reset
  PROVE  IInv'
<1>1. /\ TypeOK /\ Interrupt /\ UNCHANGED <<size, eepromVars>> /\ UNCHANGED <<sampled, result>>
      /\ stage' = "start" /\ step' = 0 /\ request' = NoRequest
  BY DEF Reset, Interrupt, IInv
<1>2. /\ UnsettledOK' /\ resets' \in 0..MaxResets
      /\ at_risk' = Nowhere \/ at_risk' \in 0..(size - 1)
  BY <1>1, Interrupted
<1>4. result' \in Seq(ByteValues) /\ sampled' \in Nat
  BY <1>1 DEF TypeOK
<1> QED BY ONLY <1>1, <1>2, <1>4, GameKeeps

LEMMA LoadStateKeeps ==
  ASSUME IInv, OneInterruption, Unexposed, LoadState
  PROVE  IInv'
<1>1. /\ TypeOK /\ Interrupt /\ request # NoRequest /\ UNCHANGED <<size, eepromVars>> /\ sampled' = 0 /\ result' = <<>>
      /\ stage' = "start" /\ step' = 0 /\ request' = [request EXCEPT !.done = 0]
  BY DEF LoadState, Interrupt, Unexposed, IInv
<1>2. /\ UnsettledOK' /\ resets' \in 0..MaxResets
      /\ at_risk' = Nowhere \/ at_risk' \in 0..(size - 1)
  BY <1>1, Interrupted
<1>3. IsRequest(request)
  BY <1>1 DEF TypeOK
<1>4. /\ DOMAIN request' = {"op", "addr", "data", "done"} /\ request'.done = 0
      /\ request'.op = request.op /\ request'.addr = request.addr /\ request'.data = request.data
  BY <1>1, <1>3 DEF IsRequest
<1>5. Len(request.data) \in Nat /\ 0 \in 0..Len(request.data) /\ size' = size
  BY <1>1, <1>3 DEF IsRequest
<1>6. IsRequest(request)'
  BY ONLY <1>3, <1>4, <1>5 DEF IsRequest
<1>7. result' \in Seq(ByteValues) /\ sampled' \in Nat
  BY <1>1
<1> QED BY ONLY <1>1, <1>2, <1>4, <1>6, <1>7, GameKeeps

LEMMA StutterKeeps ==
  ASSUME IInv, UNCHANGED vars
  PROVE  IInv'
<1>1. UNCHANGED <<size, buffer, state, counter, latch, address, host_sda, slave_sda, scl,
                  request, stage, step, sampled, result, at_risk, resets>>
  BY DEF vars, eepromVars, hostVars
<1>2. /\ TypeOK' <=> TypeOK
      /\ StepsOK' <=> StepsOK
      /\ RouteOK' <=> RouteOK
  BY ONLY <1>1 DEF TypeOK, IsRequest, StepsOK, RouteOK, ByteStages, Short
<1>3. /\ Sent' = Sent /\ (Receiving' <=> Receiving) /\ (Short' <=> Short)
      /\ BitOut(step \div 3 + 1)' = BitOut(step \div 3 + 1)
  BY ONLY <1>1 DEF Sent, Byte, Receiving, Short, BitOut
<1>4. LinesOK' <=> LinesOK
  BY ONLY <1>1, <1>3 DEF LinesOK, ByteStages
<1>5. Risen' = Risen /\ Here' = Here /\ Last' = Last /\ Hi' = Hi
  BY ONLY <1>1 DEF Risen, Here, Last, Hi
<1>6. SampledOK' <=> SampledOK
  BY ONLY <1>1, <1>3, <1>5 DEF SampledOK
<1>7. UnsettledOK' <=> UnsettledOK
  BY ONLY <1>1, <1>3 DEF UnsettledOK, Through, BeforeRise, AfterRise, CanRise
<1>8. ThroughOK' <=> ThroughOK
  <2>1. PICK s, r : s = Sent /\ r = Risen
    OBVIOUS
  <2>2. s = Sent' /\ r = Risen'
    BY <1>3, <1>5, <2>1
  <2>3. (DeviceOK' <=> DeviceOK) /\ (HighOK' <=> HighOK)
    BY ONLY <1>1, <1>3, <1>5, <2>1, <2>2 DEF DeviceOK, HighOK, ComesIn, Writable, Readable, Expects, Top
  <2>4. (LowOK' <=> LowOK) /\ (RestartOK' <=> RestartOK)
    BY ONLY <1>1, <1>3, <1>5, <2>1, <2>2 DEF LowOK, RestartOK, ComesIn, Writable, Readable, Expects, Top
  <2>5. (WriteOK' <=> WriteOK) /\ (ReadOK' <=> ReadOK) /\ (EndOK' <=> EndOK)
    BY ONLY <1>1, <1>3, <1>5, <2>1, <2>2
       DEF WriteOK, ReadOK, EndOK, ComesIn, Writable, Readable, Expects, Top, BitOf, Left
  <2> QED BY ONLY <1>1, <2>3, <2>4, <2>5 DEF ThroughOK, Through
<1> QED BY ONLY IInv, <1>2, <1>4, <1>6, <1>7, <1>8 DEF IInv

LEMMA StepKeeps ==
  ASSUME Unexposed, OneInterruption
  PROVE  IInv /\ [Next]_vars => IInv'
<1> SUFFICES ASSUME IInv, [Next]_vars PROVE IInv'
  OBVIOUS
<1>1. CASE Ask
  BY <1>1, AskKeeps
<1>2. CASE MakeAccess
  BY <1>2, AccessKeeps
<1>3. CASE Finish
  BY <1>3, FinishKeeps
<1>4. CASE Reset
  BY <1>4, ResetKeeps
<1>5. CASE LoadState
  BY <1>5, LoadStateKeeps
<1>6. CASE UNCHANGED vars
  BY <1>6, StutterKeeps
<1> QED BY <1>1, <1>2, <1>3, <1>4, <1>5, <1>6 DEF Next

LEMMA InvImpliesInBounds == IInv => IndexInBounds
<1>1. ASSUME IInv, Through PROVE IndexInBounds
  BY <1>1, ThroughCanRise DEF CanRise, IndexInBounds
<1>2. ASSUME IInv, ~Through PROVE IndexInBounds
  <2>1. resets = 0 \/ resets > 0
    BY <1>2, Constants DEF IInv, TypeOK
  <2>2. CASE resets = 0
    BY <1>2, <2>2 DEF IInv, UnsettledOK, IndexInBounds
  <2>3. CASE resets > 0
    BY <1>2, <2>3 DEF IInv, UnsettledOK, BeforeRise, AfterRise, CanRise, IndexInBounds
  <2> QED BY <2>1, <2>2, <2>3
<1> QED BY <1>1, <1>2

\* For any sizes and requests, every variable of the EEPROM and of the game that
\* drives it keeps its type: address, latch and counter of set_scl among them.
THEOREM EepromTypeCorrect ==
  ASSUME Unexposed, OneInterruption
  PROVE  Spec => []TypeOK
<1>1. IInv /\ [Next]_vars => IInv'
  BY StepKeeps
<1>2. IInv => TypeOK
  BY DEF IInv
<1> QED BY <1>1, <1>2, InitHolds, PTL DEF Spec

\* For any number of bits, any size and address format, and any interruptions
\* but the two left out: set_scl never indexes the buffer past its end.
THEOREM EepromInBounds ==
  ASSUME Unexposed, OneInterruption
  PROVE  Spec => []IndexInBounds
<1>1. IInv /\ [Next]_vars => IInv'
  BY StepKeeps
<1> QED BY <1>1, InitHolds, InvImpliesInBounds, PTL DEF Spec

-----------------------------------------------------------------------------
(* The refinement of ByteMemory.                                               *)

\* Where a byte of data goes through, in the bit machine's terms.
LEMMA CompletesAt ==
  ASSUME IInv, MakeAccess, Completes
  PROVE  /\ stage = "data" /\ stage \in ByteStages /\ Bits \in Nat /\ Bits - 1 \in Nat /\ Bits - 1 < Bits
         /\ step = 3 * (Bits - 1) + 1 /\ step < 3 * Bits - 1 /\ step % 3 = 1 /\ step < 3 * Bits
         /\ Risen = Bits - 1 /\ Risen < Bits
         /\ scl = 0 /\ Lines.scl = 1 /\ Lines.sda = host_sda
         /\ request.done < Len(request.data) /\ Through
<1>1. stage = "data" /\ stage \in ByteStages /\ step = 3 * Bits - 2
  BY DEF Completes, ByteStages
<1>2. /\ Bits \in Nat /\ Bits - 1 \in Nat /\ Bits - 1 < Bits
      /\ step = 3 * (Bits - 1) + 1 /\ step < 3 * Bits - 1 /\ step % 3 = 1 /\ step < 3 * Bits
  BY <1>1, Constants
<1>3. Risen = Bits - 1 /\ Risen < Bits
  BY <1>1, <1>2, ByteStep DEF IInv
<1>4. scl = 0 /\ Lines.scl = 1 /\ Lines.sda = host_sda
  BY <1>1, <1>2, ByteLines
<1>5. request.done < Len(request.data) /\ Through
  BY <1>1, <1>2 DEF IInv, RouteOK, MakeAccess, Through
<1> QED BY <1>1, <1>2, <1>3, <1>4, <1>5

\* The last bit of a byte that is written: it is stored where it belongs.
LEMMA ByteStored ==
  ASSUME IInv, MakeAccess, Completes, request.op = "write"
  PROVE  buffer' = [buffer EXCEPT ![Here] = request.data[request.done + 1]]
<1>1. /\ stage = "data" /\ stage \in ByteStages /\ Bits \in Nat /\ Bits - 1 \in Nat /\ Bits - 1 < Bits
      /\ step = 3 * (Bits - 1) + 1 /\ step < 3 * Bits - 1 /\ Risen < Bits /\ Through
  BY CompletesAt
<1>2. ~Receiving /\ InStates("write", "write_ack")
  BY DEF Receiving, InStates
<1>3. ComesIn("write", "write_ack", Sent) /\ address = Here
  BY <1>1 DEF IInv, ThroughOK, WriteOK
<1>4. /\ Bits - 1 = Bits - 1 =>
           buffer' = IF "write" = "write" THEN [buffer EXCEPT ![address] = Sent] ELSE buffer
  BY ONLY IInv, MakeAccess, <1>1, <1>2, <1>3, ComesInRises, Zenon
<1>5. Sent = request.data[request.done + 1]
  BY <1>1 DEF Sent, Byte
<1> QED BY ONLY <1>3, <1>4, <1>5

\* No other access of a request that is through stores anything.
LEMMA NothingStored ==
  ASSUME IInv, MakeAccess, Through, ~(Completes /\ request.op = "write")
  PROVE  buffer' = buffer
<1>1. TypeOK /\ request.op \in {"read", "write"} /\ Bits \in Nat /\ Bits >= 3 /\ step \in Nat
      /\ DeviceOK /\ HighOK /\ LowOK /\ RestartOK /\ WriteOK /\ ReadOK /\ EndOK
      /\ stage \in Stages /\ stage # "made"
  BY RequestFacts, Constants DEF IInv, ThroughOK, TypeOK, MakeAccess
<1>2. CASE scl = 0 /\ Lines.scl = 1 /\ Lines.sda = host_sda
  <2>1. ~(state = "write" /\ counter = 1)
    <3> SUFFICES ASSUME state = "write", counter = 1 PROVE FALSE
      OBVIOUS
    <3>1. CASE stage \in ByteStages
      <4>1. PICK q \in Nat, p \in {0, 1, 2} : step = 3 * q + p
        BY <3>1, ByteBasics
      <4>2. p = 1
        BY <1>2, <3>1, <4>1, ByteLines
      <4>3. Risen = q /\ q \in 0..Bits /\ (Completes <=> stage = "data" /\ q = Bits - 1)
        BY <3>1, <4>1, <4>2, ByteStep DEF IInv
      <4>4. q < Bits \/ q = Bits
        BY <1>1, <4>3
      <4>5. ~(Bits < Bits) /\ (q < Bits => ~(q > Bits) /\ q # Bits) /\ ~(Bits > Bits) /\ Bits # 1
            /\ (Bits - q = 1 => q = Bits - 1)
        BY <1>1
      <4>6. stage = "data" /\ request.op = "write"
        BY ONLY <1>1, <3>1, <4>3, <4>4, <4>5, state = "write"
           DEF ByteStages, DeviceOK, HighOK, LowOK, RestartOK, WriteOK, ReadOK, ComesIn
      <4>7. q < Bits /\ Bits - q = 1
        BY ONLY <1>1, <4>3, <4>4, <4>5, <4>6, state = "write", counter = 1 DEF WriteOK, ComesIn
      <4> QED BY ONLY <4>3, <4>5, <4>6, <4>7, ~(Completes /\ request.op = "write")
    <3>2. CASE stage \notin ByteStages
      <4>1. stage \in {"start", "restart", "stop"}
        BY ONLY <1>1, <3>2 DEF Stages, ByteStages
      <4>2. Bits # 1 /\ Bits - 1 # 1
        BY <1>1
      <4> QED BY ONLY <1>1, <4>1, <4>2, state = "write", counter = 1 DEF RestartOK, EndOK, Expects
    <3> QED BY <3>1, <3>2
  <2> QED BY <1>1, <1>2, <2>1, RiseReady, RiseKeeps
<1>3. CASE scl = 0 /\ Lines.scl = 0
  BY <1>3, SetUp DEF Still
<1>4. CASE scl = 1 /\ Lines.scl = 0
  BY <1>1, <1>4, FallLines
<1>5. CASE scl = 1 /\ Lines.scl = 1 /\ host_sda = 1 /\ Lines.sda = 0
  BY <1>5, StartEdge
<1>6. CASE scl = 1 /\ Lines.scl = 1 /\ host_sda = 0 /\ Lines.sda = 1
  BY <1>6, StopEdge
<1> QED BY <1>2, <1>3, <1>4, <1>5, <1>6, AccessKinds

\* What an access does to the request and to what has been read.
LEMMA ResultStep ==
  ASSUME IInv, MakeAccess
  PROVE  /\ request' = IF Completes THEN [request EXCEPT !.done = @ + 1] ELSE request
         /\ result' = IF Completes /\ request.op = "read" THEN Append(result, buffer[Here]) ELSE result
<1>1. request' = IF Completes THEN [request EXCEPT !.done = @ + 1] ELSE request
  BY DEF MakeAccess
<1>2. CASE Completes /\ request.op = "read"
  <2>1. /\ stage = "data" /\ Bits \in Nat /\ Bits - 1 \in Nat /\ Bits - 1 < Bits /\ step = 3 * (Bits - 1) + 1
    BY <1>2, CompletesAt
  <2>2. Receiving
    BY <1>2, <2>1 DEF Receiving
  <2>3. result' = Append(result, buffer[Here])
    BY <2>1, <2>2, SampleStep
  <2> QED BY <1>1, <1>2, <2>3
<1>3. CASE ~(Completes /\ request.op = "read")
  <2>1. ~(Reads /\ Completes)
    BY <1>3 DEF Reads, Receiving
  <2>2. result' = result
    BY <2>1 DEF MakeAccess
  <2> QED BY <1>1, <1>3, <2>2
<1> QED BY <1>2, <1>3

\* What an access is to the memory.
LEMMA AccessIs ==
  ASSUME IInv, MakeAccess
  PROVE  \/ UNCHANGED <<buffer, request, result, at_risk>>
         \/ /\ request.op = "write" /\ at_risk = Nowhere /\ request.done < Len(request.data)
            /\ buffer' = [buffer EXCEPT ![Here] = request.data[request.done + 1]]
            /\ request' = [request EXCEPT !.done = @ + 1] /\ UNCHANGED <<result, at_risk>>
         \/ /\ request.op = "read" /\ at_risk = Nowhere /\ request.done < Len(request.data)
            /\ result' = Append(result, buffer[Here])
            /\ request' = [request EXCEPT !.done = @ + 1] /\ UNCHANGED <<buffer, at_risk>>
         \/ /\ at_risk # Nowhere /\ \E v \in ByteValues : buffer' = [buffer EXCEPT ![at_risk] = v]
            /\ UNCHANGED <<request, result, at_risk>>
         \/ at_risk' = Nowhere /\ UNCHANGED <<buffer, request, result>>
<1>1. /\ request' = IF Completes THEN [request EXCEPT !.done = @ + 1] ELSE request
      /\ result' = IF Completes /\ request.op = "read" THEN Append(result, buffer[Here]) ELSE result
  BY ResultStep
<1>2. request.op \in {"read", "write"} /\ TypeOK
  BY RequestFacts DEF IInv, MakeAccess
<1>3. CASE Through
  <2>1. at_risk = Nowhere /\ at_risk' = Nowhere
    BY <1>3, StaysSettled DEF IInv, ThroughOK, Settled
  <2>2. CASE Completes
    <3>1. request.done < Len(request.data)
      BY <2>2, CompletesAt
    <3>2. CASE request.op = "write"
      <4>1. buffer' = [buffer EXCEPT ![Here] = request.data[request.done + 1]]
        BY <2>2, <3>2, ByteStored
      <4> QED BY <1>1, <2>1, <2>2, <3>1, <3>2, <4>1
    <3>3. CASE request.op = "read"
      <4>1. buffer' = buffer
        BY <1>3, <3>3, NothingStored
      <4> QED BY <1>1, <2>1, <2>2, <3>1, <3>3, <4>1
    <3> QED BY <1>2, <3>2, <3>3
  <2>3. CASE ~Completes
    <3>1. buffer' = buffer
      BY <1>3, <2>3, NothingStored
    <3> QED BY <1>1, <2>1, <2>3, <3>1
  <2> QED BY <2>2, <2>3
<1>4. CASE ~Through
  <2>1. stage = "start" /\ step < 3
    BY <1>4 DEF Through, MakeAccess
  <2>2. ~Completes
    BY <2>1 DEF Completes
  <2>3. UNCHANGED <<request, result>>
    BY <1>1, <2>2
  <2>4. CASE step = 0 \/ step = 1
    <3>1. step < 2
      BY <2>4
    <3>2. /\ step = 0 => UNCHANGED <<buffer, at_risk>>
          /\ step = 1 => scl = 0 /\ Lines.scl = 1 /\ Lines.sda = host_sda /\ host_sda \in {0, 1} /\ at_risk' = at_risk
          /\ UnsettledOK
      BY <2>1, <3>1, FirstAccesses
    <3>3. CASE step = 0
      BY <2>3, <3>2, <3>3
    <3>4. CASE step = 1
      <4>1. scl = 0 /\ Lines.scl = 1 /\ Lines.sda = host_sda /\ at_risk' = at_risk
        BY <3>2, <3>4
      <4>2. CASE state = "write" /\ counter = 1
        <5>1. PICK v \in ByteValues : v = (2 * latch + host_sda) % ByteSize
          BY <1>2, LatchType
        <5>2. address \in 0..(size - 1) /\ buffer' = [buffer EXCEPT ![address] = v]
          BY <1>2, <4>1, <4>2, <5>1, RiseReady, RiseKeeps
        <5>3. at_risk = address
          <6>1. resets = 0 \/ resets > 0
            BY <1>2, Constants DEF TypeOK
          <6> QED BY <1>4, <3>1, <3>2, <4>2, <6>1 DEF UnsettledOK, BeforeRise
        <5>4. at_risk # Nowhere
          BY <5>2, <5>3, <1>2, Constants DEF Nowhere, TypeOK
        <5>5. \E u \in ByteValues : buffer' = [buffer EXCEPT ![at_risk] = u]
          BY ONLY <5>1, <5>2, <5>3
        <5> QED BY <2>3, <4>1, <5>4, <5>5
      <4>3. CASE ~(state = "write" /\ counter = 1)
        <5>1. buffer' = buffer
          BY <1>2, <4>1, <4>3, RiseReady, RiseKeeps
        <5> QED BY <2>3, <4>1, <5>1
      <4> QED BY <4>2, <4>3
    <3> QED BY <2>4, <3>3, <3>4
  <2>5. CASE step = 2
    <3>1. scl = 1 /\ Lines.scl = 1 /\ host_sda = 1 /\ Lines.sda = 0
      BY <2>1, <2>5, StartLines
    <3>2. buffer' = buffer /\ at_risk' = Nowhere
      BY <3>1, StartEdge
    <3> QED BY <2>3, <3>2
  <2>6. step = 0 \/ step = 1 \/ step = 2
    BY <2>1, StartLines
  <2> QED BY <2>4, <2>5, <2>6
<1> QED BY <1>3, <1>4
\* What Here is in ByteMemory, where it is a cardinality.
LEMMA HereIs ==
  ASSUME TypeOK
  PROVE  Memory!Here = Here
<1>1. size \in Nat /\ size > 0
  BY Constants DEF TypeOK
<1>2. DOMAIN buffer = 0..(size - 1)
  BY DEF TypeOK
<1>3. Cardinality(0..(size - 1)) = size
  <2>1. 0 \in Int /\ size - 1 \in Int /\ ~(0 > size - 1)
    BY <1>1
  <2>2. Cardinality(0..(size - 1)) = (size - 1) - 0 + 1
    BY ONLY <2>1, FS_Interval
  <2> QED BY <1>1, <2>2
<1>4. Memory!Here = (request.addr + request.done) % Cardinality(DOMAIN buffer)
  BY DEF Memory!Here, Memory!Cardinality, Cardinality
<1>5. Cardinality(DOMAIN buffer) = size
  BY ONLY <1>2, <1>3
<1>6. Here = (request.addr + request.done) % size
  BY Zenon DEF Here
<1> QED BY ONLY <1>4, <1>5, <1>6

LEMMA AccessMaps ==
  ASSUME IInv, MakeAccess
  PROVE  [Memory!MemoryNext]_Memory!memoryVars
<1>1. Memory!Here = Here /\ Memory!NoRequest = NoRequest /\ Memory!Nowhere = Nowhere /\ request # NoRequest
  BY HereIs DEF IInv, MakeAccess, Memory!NoRequest, Memory!Nowhere, NoRequest, Nowhere
<1>2. CASE UNCHANGED <<buffer, request, result, at_risk>>
  BY <1>2 DEF Memory!memoryVars
<1>3. CASE /\ request.op = "write" /\ at_risk = Nowhere /\ request.done < Len(request.data)
           /\ buffer' = [buffer EXCEPT ![Here] = request.data[request.done + 1]]
           /\ request' = [request EXCEPT !.done = @ + 1] /\ UNCHANGED <<result, at_risk>>
  <2>1. Memory!StoreByte
    BY <1>1, <1>3 DEF Memory!StoreByte, Memory!MoreToDo
  <2> QED BY <2>1 DEF Memory!MemoryNext
<1>4. CASE /\ request.op = "read" /\ at_risk = Nowhere /\ request.done < Len(request.data)
           /\ result' = Append(result, buffer[Here])
           /\ request' = [request EXCEPT !.done = @ + 1] /\ UNCHANGED <<buffer, at_risk>>
  <2>1. Memory!FetchByte
    BY <1>1, <1>4 DEF Memory!FetchByte, Memory!MoreToDo
  <2> QED BY <2>1 DEF Memory!MemoryNext
<1>5. CASE /\ at_risk # Nowhere /\ \E v \in ByteValues : buffer' = [buffer EXCEPT ![at_risk] = v]
           /\ UNCHANGED <<request, result, at_risk>>
  <2>1. Memory!Spoil
    BY <1>1, <1>5 DEF Memory!Spoil
  <2> QED BY <2>1 DEF Memory!MemoryNext
<1>6. CASE at_risk' = Nowhere /\ UNCHANGED <<buffer, request, result>>
  <2>1. CASE at_risk = Nowhere
    BY <1>6, <2>1 DEF Memory!memoryVars
  <2>2. CASE at_risk # Nowhere
    <3>1. Memory!Settle
      BY <1>1, <1>6, <2>2 DEF Memory!Settle
    <3> QED BY <3>1 DEF Memory!MemoryNext
  <2> QED BY <2>1, <2>2
<1> QED BY ONLY <1>2, <1>3, <1>4, <1>5, <1>6, AccessIs, IInv, MakeAccess

LEMMA EepromMaps ==
  ASSUME Unexposed
  PROVE  IInv /\ [Next]_vars => [Memory!MemoryNext]_Memory!memoryVars
<1> SUFFICES ASSUME IInv, [Next]_vars PROVE [Memory!MemoryNext]_Memory!memoryVars
  OBVIOUS
<1>1. Memory!Here = Here /\ Memory!NoRequest = NoRequest /\ Memory!Nowhere = Nowhere /\ TypeOK
  BY HereIs DEF IInv, Memory!NoRequest, Memory!Nowhere, NoRequest, Nowhere
<1>2. request # NoRequest => AtRisk = Memory!AtRisk
  BY <1>1 DEF AtRisk, Memory!AtRisk, Memory!MoreToDo, Here
<1>3. CASE Ask
  <2>1. request = NoRequest /\ request' \in Requests(size) /\ result' = <<>> /\ UNCHANGED <<buffer, at_risk>>
    BY <1>3 DEF Ask, eepromVars
  <2>2. request' # NoRequest /\ request'.done = 0 /\ request'.op \in {"write", "read"}
    BY <1>1, <2>1, RequestsAre
  <2>3. Memory!Ask
    BY <1>1, <2>1, <2>2 DEF Memory!Ask
  <2> QED BY <2>3 DEF Memory!MemoryNext
<1>4. CASE MakeAccess
  BY <1>4, AccessMaps
<1>5. CASE Finish
  <2>1. request # NoRequest /\ stage = "made" /\ request' = NoRequest /\ UNCHANGED <<buffer, result, at_risk>>
    BY <1>5 DEF Finish, eepromVars
  <2>2. ~(request.done < Len(request.data))
    BY <1>1, <2>1, RequestFacts DEF IInv, RouteOK
  <2>3. Memory!Finish
    BY <1>1, <2>1, <2>2 DEF Memory!Finish, Memory!MoreToDo
  <2> QED BY <2>3 DEF Memory!MemoryNext
<1>6. CASE Reset
  <2>1. request # NoRequest /\ request' = NoRequest /\ at_risk' = AtRisk /\ UNCHANGED <<buffer, result>>
    BY <1>6 DEF Reset, Interrupt, eepromVars
  <2>2. Memory!Reset
    BY <1>1, <1>2, <2>1 DEF Memory!Reset
  <2> QED BY <2>2 DEF Memory!MemoryNext
<1>7. CASE LoadState
  <2>1. /\ request # NoRequest /\ request' = [request EXCEPT !.done = 0] /\ at_risk' = AtRisk
        /\ result' = <<>> /\ UNCHANGED buffer
    BY <1>7 DEF LoadState, Interrupt, eepromVars
  <2>2. Memory!Again
    BY <1>1, <1>2, <2>1 DEF Memory!Again
  <2> QED BY <2>2 DEF Memory!MemoryNext
<1>8. CASE UNCHANGED vars
  BY <1>8 DEF vars, eepromVars, hostVars, Memory!memoryVars
<1> QED BY <1>3, <1>4, <1>5, <1>6, <1>7, <1>8 DEF Next

LEMMA EepromStartsAsMemory == Init => Memory!MemoryInit
BY DEF Init, Memory!MemoryInit, Memory!NoRequest, Memory!Nowhere, NoRequest, Nowhere

\* Under the same condition every access of the game, bit by bit through
\* set_scl and set_host_sda, stores or fetches one byte of a memory, spoils the
\* one that was on its way when the game was interrupted, or is a stutter.
THEOREM EepromImplementsMemory ==
  ASSUME Unexposed, OneInterruption
  PROVE  Spec => EepromIsAMemory
<1>1. IInv /\ [Next]_vars => IInv'
  BY StepKeeps
<1>2. IInv /\ [Next]_vars => [Memory!MemoryNext]_Memory!memoryVars
  BY EepromMaps
<1> QED BY <1>1, <1>2, InitHolds, EepromStartsAsMemory, PTL DEF Spec, EepromIsAMemory, Memory!MemorySpec
=============================================================================
