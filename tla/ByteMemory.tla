----------------------------- MODULE ByteMemory -----------------------------
(***************************************************************************)
(* What a serial EEPROM promises the program that uses it: a memory.  A    *)
(* request writes or reads bytes at consecutive addresses, from the first  *)
(* address again after the last.  A program that is interrupted in the     *)
(* middle of a write may spoil the byte on its way, and no other.          *)
(***************************************************************************)
EXTENDS Integers, Sequences, FiniteSets

CONSTANT Values

VARIABLES
  mem,      \* a function from addresses to bytes
  request,  \* [op, addr, data, done], done is how many bytes went through, or NoRequest
  result,   \* what the current or last read brought
  at_risk   \* the address of a byte that was on its way, or Nowhere

NoRequest == [op |-> "none", addr |-> 0, data |-> <<>>, done |-> 0]
Nowhere == -1

memoryVars == <<mem, request, result, at_risk>>

\* Where the next byte of the request goes.
Here == (request.addr + request.done) % Cardinality(DOMAIN mem)

Ask ==
  /\ request = NoRequest
  /\ request' # NoRequest /\ request'.done = 0 /\ request'.op \in {"write", "read"}
  /\ result' = <<>>
  /\ UNCHANGED <<mem, at_risk>>

MoreToDo == request # NoRequest /\ request.done < Len(request.data)

StoreByte ==
  /\ MoreToDo /\ request.op = "write" /\ at_risk = Nowhere
  /\ mem' = [mem EXCEPT ![Here] = request.data[request.done + 1]]
  /\ request' = [request EXCEPT !.done = @ + 1]
  /\ UNCHANGED <<result, at_risk>>

FetchByte ==
  /\ MoreToDo /\ request.op = "read" /\ at_risk = Nowhere
  /\ result' = Append(result, mem[Here])
  /\ request' = [request EXCEPT !.done = @ + 1]
  /\ UNCHANGED <<mem, at_risk>>

Finish ==
  /\ request # NoRequest /\ ~MoreToDo
  /\ request' = NoRequest
  /\ UNCHANGED <<mem, result, at_risk>>

AtRisk == IF MoreToDo /\ request.op = "write" /\ at_risk = Nowhere THEN Here ELSE at_risk

Reset ==
  /\ request # NoRequest /\ request' = NoRequest
  /\ at_risk' = AtRisk
  /\ UNCHANGED <<mem, result>>

\* The request is made again from its start.
Again ==
  /\ request # NoRequest /\ request' = [request EXCEPT !.done = 0]
  /\ result' = <<>> /\ at_risk' = AtRisk
  /\ UNCHANGED mem

Spoil ==
  /\ at_risk # Nowhere
  /\ \E v \in Values : mem' = [mem EXCEPT ![at_risk] = v]
  /\ UNCHANGED <<request, result, at_risk>>

\* The next request has got through: the byte is what it is.
Settle ==
  /\ at_risk # Nowhere /\ at_risk' = Nowhere
  /\ UNCHANGED <<mem, request, result>>

MemoryInit ==
  /\ request = NoRequest /\ result = <<>> /\ at_risk = Nowhere

MemoryNext == Ask \/ StoreByte \/ FetchByte \/ Finish \/ Reset \/ Again \/ Spoil \/ Settle

MemorySpec == MemoryInit /\ [][MemoryNext]_memoryVars
=============================================================================
