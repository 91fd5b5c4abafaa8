------------------------------ MODULE I2cEeprom ------------------------------
(***************************************************************************)
(* The I2C EEPROM of a cartridge (i2c.c), bit by bit, and a game that      *)
(* drives its two lines.  One write of the game sets SCL and then SDA;     *)
(* what an edge means depends on the state the last one left.              *)
(*                                                                         *)
(* A byte has Bits bits (8 in the code), and how an address is sent        *)
(* depends on the size: in the device byte (below 256), in the device byte *)
(* and one more (below 4096), in two.                                      *)
(***************************************************************************)
EXTENDS Integers, FiniteSets, Sequences

CONSTANTS
  Bits, BlockFrom, WordFrom,  \* 8, 256 and 4096 in the code
  Sizes,                      \* of EEPROMs
  Addresses(_),               \* bound: those requests go to, of an EEPROM of a size
  Data,                       \* bound: bytes they write
  MaxBytes,                   \* bound: bytes of a request
  MaxResets,                  \* bound: interruptions until a request gets through
  Exposed                     \* situations that may arise

ByteSize == 2^Bits

Situations == { "load_in_request" }  \* a state is loaded that was saved in the same request

ASSUME EepromAssumption ==
  /\ {Bits, BlockFrom, WordFrom, MaxBytes} \subseteq Nat \ {0} /\ MaxResets \in Nat
  /\ Data \subseteq 0..(ByteSize - 1)
  /\ \A n \in Sizes : Addresses(n) \subseteq 0..(n - 1)
  /\ Exposed \subseteq Situations

\* The sizes of rom.db: 128; 256 to 2048, with three bits of the address in the
\* device byte; 8192.  Addresses have twice the bits of a byte.
ASSUME SizesAssumption ==
  /\ Bits >= 3
  /\ Sizes \subseteq {2^k : k \in 0..(2 * Bits)}
  /\ \A n \in Sizes :
       /\ n < BlockFrom => 2 * n = ByteSize
       /\ n >= BlockFrom /\ n < WordFrom => n <= 8 * ByteSize /\ 2 * n <= ByteSize * ByteSize

VARIABLES
  size, buffer,
  state, counter, latch, address, host_sda, slave_sda, scl,
  request,    \* what the game is doing, as in ByteMemory
  stage,      \* which part of the request it is at
  step,       \* how many of the accesses of that part it has made
  sampled,    \* bits of the byte it reads
  result, at_risk, \* as in ByteMemory
  resets      \* bound: interruptions since the last start condition

eepromVars == <<buffer, state, counter, latch, address, host_sda, slave_sda, scl>>
hostVars == <<request, stage, step, sampled, result, at_risk, resets>>
vars == <<size, eepromVars, hostVars>>

NoRequest == [op |-> "none", addr |-> 0, data |-> <<>>, done |-> 0]
Nowhere == -1
ByteValues == 0..(ByteSize - 1)
States == {"idle", "start", "device_ack", "address_hi", "address_hi_ack", "address", "address_ack",
           "read", "read_ack", "write", "write_ack"}
Stages == {"start", "device", "high", "low", "restart", "device_again", "data", "stop", "made"}

IsRequest(r) ==
  /\ DOMAIN r = {"op", "addr", "data", "done"} /\ r.op \in {"read", "write"} /\ r.addr \in 0..(size - 1)
  /\ r.data \in Seq(ByteValues) /\ Len(r.data) > 0 /\ r.done \in 0..Len(r.data)

TypeOK ==
  /\ size \in Sizes /\ buffer \in [0..(size - 1) -> ByteValues]
  /\ state \in States /\ counter \in 0..Bits /\ latch \in ByteValues /\ address \in Nat
  /\ {host_sda, slave_sda, scl} \subseteq {0, 1}
  /\ request = NoRequest \/ IsRequest(request)
  /\ stage \in Stages /\ step \in Nat /\ sampled \in Nat /\ result \in Seq(ByteValues)
  /\ at_risk = Nowhere \/ at_risk \in 0..(size - 1)
  /\ resets \in 0..MaxResets

\* eeprom_init; nothing was saved yet, and the other fields are zero.
Init ==
  /\ size \in Sizes /\ buffer = [a \in 0..(size - 1) |-> ByteSize - 1]
  /\ state = "idle" /\ counter = 0 /\ latch = 0 /\ address = 0
  /\ host_sda = 0 /\ slave_sda = 1 /\ scl = 0
  /\ request = NoRequest /\ stage = "start" /\ step = 0 /\ sampled = 0 /\ result = <<>>
  /\ at_risk = Nowhere /\ resets = 0
-----------------------------------------------------------------------------
(* The EEPROM.  A wire is what set_scl and set_host_sda work on.               *)

Wire == [state |-> state, counter |-> counter, latch |-> latch, address |-> address,
         buffer |-> buffer, host_sda |-> host_sda, slave_sda |-> slave_sda, scl |-> scl]

\* Mutant: addresses do not wrap.
NotWrapped(a) == IF a >= size THEN a % (2 * size) ELSE a
Wrapped(a) == a % size

Shifted(w) == (2 * w.latch + w.host_sda) % ByteSize

\* The byte that has come in is the device byte, part of an address, or data.
ByteIn(w) ==
  CASE w.state = "start" -> [w EXCEPT !.state = "device_ack"]
    [] w.state = "address_hi" -> [w EXCEPT !.address = w.latch * ByteSize, !.state = "address_hi_ack"]
    [] w.state = "address" -> [w EXCEPT !.address = @ + w.latch, !.state = "address_ack"]
    [] w.state = "write" -> [w EXCEPT !.buffer[w.address] = w.latch, !.state = "write_ack"]

BitIn(w) ==
  LET next == [w EXCEPT !.latch = Shifted(w), !.counter = @ - 1]
  IN  IF next.counter = 0 THEN ByteIn(next) ELSE next

\* The device byte: a read goes on at the address of the last request, except
\* that it names the address where one byte is enough for it.
DeviceByte(w) ==
  LET short == w.latch \div 2
      at == IF size < BlockFrom THEN [w EXCEPT !.address = short, !.counter = Bits]
            ELSE [w EXCEPT !.counter = Bits]
  IN
  IF w.latch % 2 = 1 THEN [at EXCEPT !.state = "read", !.latch = w.buffer[at.address]]
  ELSE IF size < BlockFrom THEN [at EXCEPT !.state = "write"]
  ELSE IF size < WordFrom THEN [at EXCEPT !.state = "address", !.address = (short % 8) * ByteSize]
  ELSE [at EXCEPT !.state = "address_hi"]

SclRises(w) ==
  CASE w.state \in {"start", "address_hi", "address", "write"} -> BitIn(w)
    [] w.state = "device_ack" -> DeviceByte(w)
    [] w.state = "address_hi_ack" -> [w EXCEPT !.state = "address", !.counter = Bits]
    [] w.state = "address_ack" -> [w EXCEPT !.state = "write", !.address = Wrapped(@), !.counter = Bits]
    [] w.state = "read" -> [w EXCEPT !.counter = @ - 1, !.state = IF w.counter = 1 THEN "read_ack" ELSE @]
    [] w.state = "read_ack" -> LET next == Wrapped(w.address + 1) IN
                               [w EXCEPT !.state = "read", !.counter = Bits, !.address = next,
                                         !.latch = w.buffer[next]]
    [] w.state = "write_ack" -> [w EXCEPT !.state = "write", !.counter = Bits,
                                          !.address = Wrapped(@ + 1)]
    [] OTHER -> w

Acks == {"device_ack", "address_hi_ack", "address_ack", "read_ack", "write_ack"}

SclFalls(w) ==
  CASE w.state \in Acks -> [w EXCEPT !.slave_sda = 0]
    [] w.state = "read" -> [w EXCEPT !.slave_sda = w.latch \div 2^(Bits - 1),
                                     !.latch = (2 * w.latch) % ByteSize]
    [] OTHER -> [w EXCEPT !.slave_sda = 1]

set_scl(w, val) ==
  [CASE val > w.scl -> SclRises(w) [] val < w.scl -> SclFalls(w) [] OTHER -> w EXCEPT !.scl = val]

\* Mutant: a start condition in the middle of a byte is not noticed.
StartWhenIdle(w) == IF w.state = "idle" THEN [w EXCEPT !.state = "start", !.slave_sda = 1, !.counter = Bits] ELSE w
StartCondition(w) == [w EXCEPT !.state = "start", !.slave_sda = 1, !.counter = Bits]

StopCondition(w) == [w EXCEPT !.state = "idle", !.slave_sda = 1]

set_host_sda(w, val) ==
  [CASE w.scl = 1 /\ val > w.host_sda -> StopCondition(w)
     [] w.scl = 1 /\ val < w.host_sda -> StartCondition(w)
     [] OTHER -> w EXCEPT !.host_sda = val]

get_sda(w) == w.host_sda * w.slave_sda
-----------------------------------------------------------------------------
(* The game: a request in stages, each of some accesses.  An access sets both  *)
(* lines and, while the game receives, reads SDA when the clock is high.       *)

Short == size < BlockFrom
Receiving == stage = "data" /\ request.op = "read"

\* The byte of data that is on its way: it is through with its last bit.
Byte == IF step < 3 * Bits - 1 THEN request.done + 1 ELSE request.done

\* The byte that the game sends in this stage.
Sent ==
  CASE stage = "device" -> IF Short THEN 2 * request.addr + (IF request.op = "read" THEN 1 ELSE 0)
                           ELSE IF size < WordFrom THEN 2 * (request.addr \div ByteSize) ELSE 0
    [] stage = "high" -> request.addr \div ByteSize
    [] stage = "low" -> request.addr % ByteSize
    [] stage = "device_again" -> 1
    [] stage = "data" -> request.data[Byte]

\* The i-th bit of a byte on the line, highest first; then the acknowledgement.
BitOut(i) ==
  IF i > Bits THEN (IF Receiving /\ request.done < Len(request.data) THEN 0 ELSE 1)
  ELSE IF Receiving THEN 1 ELSE (Sent \div 2^(Bits - i)) % 2

Access(c, d) == [scl |-> c, sda |-> d]
Start == <<Access(0, 1), Access(1, 1), Access(1, 0), Access(0, 0)>>
Stop == <<Access(0, 0), Access(1, 0), Access(1, 1)>>
InByte == Access(IF step % 3 = 1 THEN 1 ELSE 0, BitOut(step \div 3 + 1))

Lines ==
  CASE stage \in {"start", "restart"} -> Start[step + 1]
    [] stage = "stop" -> Stop[step + 1]
    [] OTHER -> InByte

Accesses == CASE stage \in {"start", "restart"} -> 4 [] stage = "stop" -> 3 [] OTHER -> 3 * Bits + 3

\* To read from a larger EEPROM is to write its address, and then to start again.
NextStage ==
  CASE stage = "start" -> "device"
    [] stage = "device" -> IF Short THEN "data" ELSE IF size < WordFrom THEN "low" ELSE "high"
    [] stage = "high" -> "low"
    [] stage = "low" -> IF request.op = "write" THEN "data" ELSE "restart"
    [] stage = "restart" -> "device_again"
    [] stage = "device_again" -> "data"
    [] stage = "data" -> IF request.done < Len(request.data) THEN "data" ELSE "stop"
    [] stage = "stop" -> "made"

Requests(n) ==
  [op : {"write"}, addr : Addresses(n), data : UNION {[1..k -> Data] : k \in 1..MaxBytes}, done : {0}]
  \cup [op : {"read"}, addr : Addresses(n), data : {[i \in 1..k |-> 0] : k \in 1..MaxBytes}, done : {0}]

Ask ==
  /\ request = NoRequest
  /\ request' \in Requests(size)
  /\ stage' = "start" /\ step' = 0 /\ sampled' = 0 /\ result' = <<>>
  /\ UNCHANGED <<size, eepromVars, at_risk, resets>>

\* Mutant: a word write sets SDA first.
SdaFirst(w, access) == set_scl(set_host_sda(w, access.sda), access.scl)

\* write_eeprom_i2c_w.
Written(w, access) == set_host_sda(set_scl(w, access.scl), access.sda)

Reads == Receiving /\ step % 3 = 1 /\ step < 3 * Bits

\* The last bit of a byte of data goes over the line.
Completes == stage = "data" /\ step = 3 * Bits - 2

MakeAccess ==
  /\ request # NoRequest /\ stage # "made"
  /\ LET w == Written(Wire, Lines)
         started == scl = 1 /\ Lines.scl = 1 /\ Lines.sda < host_sda
         value == 2 * sampled + get_sda(w)
     IN
     /\ buffer' = w.buffer /\ state' = w.state /\ counter' = w.counter
     /\ latch' = w.latch /\ address' = w.address
     /\ host_sda' = w.host_sda /\ slave_sda' = w.slave_sda /\ scl' = w.scl
     /\ sampled' = CASE ~Reads -> sampled [] Reads /\ Completes -> 0 [] OTHER -> value
     /\ result' = IF Reads /\ Completes THEN Append(result, value) ELSE result
     /\ request' = IF Completes THEN [request EXCEPT !.done = @ + 1] ELSE request
     /\ at_risk' = IF started THEN Nowhere ELSE at_risk
     /\ resets' = IF started THEN 0 ELSE resets
  /\ IF step + 1 < Accesses THEN step' = step + 1 /\ stage' = stage
     ELSE step' = 0 /\ stage' = NextStage
  /\ UNCHANGED size

Finish ==
  /\ request # NoRequest /\ stage = "made"
  /\ request' = NoRequest /\ stage' = "start" /\ step' = 0
  /\ UNCHANGED <<size, eepromVars, sampled, result, at_risk, resets>>

\* A byte that has not come in when the game is interrupted may come in spoilt.
AtRisk ==
  IF request.op = "write" /\ request.done < Len(request.data) /\ at_risk = Nowhere
  THEN (request.addr + request.done) % size ELSE at_risk

\* The clock has risen in this request: before that an interruption changes
\* nothing that the EEPROM sees, and is not counted.
Clocked == stage # "start" \/ step >= 2

Interrupt ==
  /\ request # NoRequest
  /\ IF Clocked THEN resets < MaxResets /\ resets' = resets + 1 ELSE resets' = resets
  /\ at_risk' = AtRisk /\ step' = 0
  /\ UNCHANGED <<size, eepromVars>>

\* The user resets the machine: the game starts over, the EEPROM does not.
Reset ==
  /\ Interrupt
  /\ request' = NoRequest /\ stage' = "start" /\ UNCHANGED <<sampled, result>>

\* A state is loaded that was saved before this request, or within it, when the
\* byte on its way began: no section of it holds the EEPROM.
LoadState ==
  /\ Interrupt
  /\ \/ stage' = "start"
     \/ "load_in_request" \in Exposed /\ request.done = 0 /\ stage' = stage
  /\ request' = [request EXCEPT !.done = 0] /\ sampled' = 0 /\ result' = <<>>

Next == Ask \/ MakeAccess \/ Finish \/ Reset \/ LoadState

\* Nothing is assumed of the user; the game goes on.
Spec == Init /\ [][Next]_vars
-----------------------------------------------------------------------------
Memory == INSTANCE ByteMemory WITH mem <- buffer, Values <- ByteValues

\* Whatever the size and the way addresses are sent, the bit machine is a memory:
\* bytes written are read back from the addresses they were written to, across
\* the end of the memory, repeated starts and games that are reset in the middle
\* of a byte (set_scl, set_host_sda).
EepromIsAMemory == Memory!MemorySpec

\* The buffer is never indexed past its end: by the byte that is written, read,
\* or read next (the index is masked at some steps and not at others).
IndexInBounds ==
  state \in {"read", "read_ack", "write", "write_ack"} => address < size
=============================================================================
