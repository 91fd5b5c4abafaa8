------------------------------- MODULE SegaCD -------------------------------
(***************************************************************************)
(* The CD data decoder (lc8951.c) and the gate array it feeds              *)
(* (handle_cdc_byte), on top of WordRam: a transfer of DBC + 1 bytes goes  *)
(* to the host register, which a CPU reads word by word, or to memory that *)
(* may be the other CPU's.  A byte that cannot be taken pauses the         *)
(* transfer, and several handlers resume it.                               *)
(*                                                                         *)
(* Bytes are numbered from 1 in the order of the decoder's buffer.  Cycles *)
(* are left out but for the two the decoder waits for: next_byte_cycle and *)
(* transfer_end, which is "due" when it is that of the last byte.          *)
(***************************************************************************)
EXTENDS WordRam, Integers, Sequences

CONSTANT MaxBytes   \* bound: bytes of a transfer

Situations == {
  "late_destination",        \* a transfer is started before its destination is selected
  "select_in_transfer",      \* GA_CDC_CTRL is written during a transfer
  "address_in_word",         \* GA_CDC_DMA_ADDR is written between the two bytes of a word
  "register_in_transfer",    \* a register of the decoder is written during a transfer
  "mode_switch_in_transfer", \* word RAM goes to 1M mode while a transfer waits for it
  "refused_at_end",          \* memory goes to the main CPU before the last word came
  "load_prog",               \* a state is loaded while program RAM is mapped otherwise
  "load_in_transfer",        \* a state with a transfer is loaded at another transfer rate
  "reset_paused" }           \* the main CPU resets a sub CPU that waits for word RAM

ASSUME SegaCDAssumption == MaxBytes \in Nat \ {0} /\ Banks # {} /\ NoBank \notin Banks
                           /\ Exposed \subseteq Situations

Hosts == {"main", "sub"}                   \* DST_MAIN_CPU, DST_SUB_CPU
Destinations == Hosts \cup {"pcm", "prog", "word", "invalid"}
Never == "never"

VARIABLES
  dest, edt, dsr,     \* of GA_CDC_CTRL
  host_data,          \* upper and lower byte of GA_CDC_HOST_DATA, as numbers
  low,                \* cdc_dst_low is odd: the upper byte is there
  dbc,                \* bytes still to come, less one; -1 once they have come
  douten,             \* BIT_DOUTEN of ifctrl
  dtbsy, dtei,        \* of IFSTAT, true when active
  triggered,
  next_byte,          \* next_byte_cycle is not CYCLE_NEVER
  transfer_end,       \* Never, "due", or "off" when it is no byte's cycle
  slow,               \* cycles_per_byte is that of the PCM chip
  given, moved        \* history: bytes the decoder got rid of; bytes that arrived

gateVars == <<dest, edt, dsr, host_data, low>>
cdcVars == <<dbc, douten, dtbsy, dtei, triggered, next_byte, transfer_end, slow>>
vars == <<memoryVars, gateVars, cdcVars, given, moved>>

TypeOK ==
  /\ MemoryTypeOK
  /\ dest \in Destinations /\ {edt, dsr, low} \subseteq BOOLEAN
  /\ host_data \in (0..MaxBytes) \X (0..MaxBytes)
  /\ dbc \in -1..(MaxBytes - 1)
  /\ {douten, dtbsy, dtei, triggered, next_byte, slow} \subseteq BOOLEAN
  /\ transfer_end \in {Never, "due", "off"}
  /\ given \in 0..MaxBytes /\ moved \in Seq(1..MaxBytes)

Init ==
  /\ MemoryInit
  /\ dest = "invalid" /\ edt = FALSE /\ dsr = FALSE /\ low = FALSE /\ host_data = <<0, 0>>
  /\ dbc = 0 /\ douten = FALSE /\ dtbsy = FALSE /\ dtei = FALSE /\ triggered = FALSE
  /\ next_byte = FALSE /\ transfer_end = Never /\ slow = FALSE
  /\ given = 0 /\ moved = <<>>
-----------------------------------------------------------------------------
(* The decoder hands over a byte. *)

Refused == \* the destination does not take a whole word now
  \/ dest = "prog" /\ can_main_access_prog
  \/ dest = "word" /\ ~mode_1M /\ main_has_word2m
  \/ dest = "invalid"

Accept ==
  /\ given' = given + 1
  /\ dbc' = dbc - 1
  /\ IF dbc = 0
     THEN /\ dtei' = TRUE /\ dtbsy' = FALSE /\ triggered' = FALSE
          /\ next_byte' = FALSE /\ transfer_end' = Never
     ELSE UNCHANGED <<dtei, dtbsy, triggered, next_byte, transfer_end>>

Pause ==
  /\ next_byte' = FALSE /\ transfer_end' = Never
  /\ UNCHANGED <<dbc, dtei, dtbsy, triggered, given>>

\* Mutant: a full host register is overwritten.
NeverFull == FALSE
HostFull == dsr

UpperByte ==
  /\ host_data' = [host_data EXCEPT ![1] = given + 1]
  /\ low' = TRUE
  /\ moved' = IF dest = "pcm" THEN Append(moved, given + 1) ELSE moved
  /\ UNCHANGED dsr
  /\ Accept

\* The word is complete, or what the sound chip gets byte by byte.
LowerByte ==
  /\ host_data' = [host_data EXCEPT ![2] = given + 1]
  /\ \/ Refused /\ Pause /\ UNCHANGED <<low, dsr, moved>>
     \/ /\ ~Refused /\ Accept
        /\ low' = (dest = "pcm")
        /\ dsr' = (dest \in Hosts)
        /\ moved' = CASE dest = "pcm" -> Append(moved, given + 1)
                      [] dest \in Hosts -> moved
                      [] OTHER -> moved \o host_data'

\* Mutant: the end is noted one byte early.
EndOneEarly == transfer_end = "due" /\ dbc <= 1
AtTheEnd == transfer_end = "due" /\ dbc = 0

Deliver ==
  /\ next_byte
  /\ \/ HostFull /\ Pause /\ UNCHANGED <<gateVars, moved>>
     \/ /\ ~HostFull
        /\ edt' = (edt \/ AtTheEnd)
        /\ \/ ~low /\ UpperByte
           \/ low /\ LowerByte
        /\ UNCHANGED dest
  /\ UNCHANGED <<memoryVars, douten, slow>>

\* Mutant: nothing resumes a transfer.
NoResume == UNCHANGED <<next_byte, transfer_end>>

\* lc8951_resume_transfer.
Resume ==
  IF triggered /\ transfer_end = Never /\ douten
  THEN next_byte' = TRUE /\ transfer_end' = "due"
  ELSE UNCHANGED <<next_byte, transfer_end>>

ResumeIf(condition) ==
  IF condition THEN Resume ELSE UNCHANGED <<next_byte, transfer_end>>
-----------------------------------------------------------------------------
(* Registers the sub CPU writes. *)

InTransfer(situation) == ~triggered \/ situation \in Exposed

\* GA_CDC_REG_DATA, with what the decoder does: a write while it is busy clears
\* both flags of the gate array.
RegisterWritten ==
  /\ edt' = (edt /\ ~dtbsy') /\ dsr' = (dsr /\ ~dtbsy')
  /\ UNCHANGED <<memoryVars, dest, host_data, slow>>

WriteCounter(bytes) ==
  /\ SubRuns /\ InTransfer("register_in_transfer")
  /\ dbc' = bytes - 1
  /\ UNCHANGED <<low, douten, dtbsy, dtei, triggered, next_byte, transfer_end, given, moved>>
  /\ RegisterWritten

\* What is left of given when half a word, the last byte of an odd number, is dropped.
Forgotten == IF low /\ dest # "pcm" THEN given - 1 ELSE given

\* A counter that an earlier transfer has run down is 0xFFFF.  Nothing longer can be
\* transferred, and MaxBytes bounds that.
Counter == IF dbc < 0 THEN MaxBytes - 1 ELSE dbc

\* A transfer is started.  Without output it is not, but half a word is dropped.
Trigger ==
  /\ SubRuns /\ InTransfer("register_in_transfer")
  /\ dest # "invalid" \/ "late_destination" \in Exposed
  /\ ~Refused \/ Counter > 1 \/ "refused_at_end" \in Exposed
  /\ IF douten
     THEN /\ dbc' = Counter
          /\ dtbsy' = TRUE /\ triggered' = TRUE
          /\ next_byte' = TRUE /\ transfer_end' = "due"
          /\ given' = 0 /\ moved' = <<>>
     ELSE /\ given' = Forgotten
          /\ UNCHANGED <<dbc, dtbsy, triggered, next_byte, transfer_end, moved>>
  /\ low' = FALSE
  /\ UNCHANGED <<douten, dtei>>
  /\ RegisterWritten

\* IFCTRL: output is enabled, or stopped.
WriteIfctrl(out) ==
  /\ SubRuns /\ InTransfer("register_in_transfer")
  /\ douten' = out
  /\ dtbsy' = (dtbsy /\ out) /\ dtei' = (dtei /\ out)
  /\ transfer_end' = IF out THEN transfer_end ELSE Never
  /\ UNCHANGED <<low, dbc, triggered, next_byte, given, moved>>
  /\ RegisterWritten

\* DTACK.
Acknowledge ==
  /\ SubRuns /\ InTransfer("register_in_transfer")
  /\ dtei' = FALSE
  /\ UNCHANGED <<low, dbc, douten, dtbsy, triggered, next_byte, transfer_end, given, moved>>
  /\ RegisterWritten

ResetDecoder ==
  /\ SubRuns /\ InTransfer("register_in_transfer")
  /\ dtbsy' = FALSE /\ dtei' = FALSE /\ douten' = FALSE
  /\ UNCHANGED <<low, dbc, triggered, next_byte, transfer_end, given, moved>>
  /\ RegisterWritten

\* GA_CDC_CTRL.  Another destination changes the rate; a first valid one resumes
\* what waited for it.  A transfer that has ended is forgotten, with a word
\* nobody read.
SelectDestination(new) ==
  /\ SubRuns
  /\ InTransfer(IF dest = "invalid" THEN "late_destination" ELSE "select_in_transfer")
  /\ dest' = new /\ edt' = FALSE /\ dsr' = FALSE /\ low' = FALSE
  /\ slow' = IF new = dest THEN slow ELSE new = "pcm"
  /\ IF dest = "invalid" /\ new # "invalid" /\ transfer_end = Never THEN Resume
     ELSE /\ transfer_end' = IF new # dest /\ transfer_end # Never THEN "due" ELSE transfer_end
          /\ UNCHANGED next_byte
  /\ IF triggered THEN UNCHANGED <<given, moved>> ELSE given' = 0 /\ moved' = <<>>
  /\ UNCHANGED <<memoryVars, host_data, dbc, douten, dtbsy, dtei, triggered>>

\* GA_CDC_DMA_ADDR.  The word that is being put together starts over, and its upper
\* byte is dropped.
WriteDmaAddress ==
  /\ SubRuns
  /\ triggered /\ low /\ dest # "pcm" => "address_in_word" \in Exposed
  /\ low' = FALSE
  /\ given' = IF triggered THEN given ELSE Forgotten
  /\ UNCHANGED <<memoryVars, dest, edt, dsr, host_data, cdcVars, moved>>

\* GA_CDC_HOST_DATA, by the CPU it is meant for.
ReadHostData ==
  /\ dest = "main" \/ (dest = "sub" /\ SubRuns)
  /\ dsr /\ dsr' = FALSE
  /\ moved' = moved \o host_data
  /\ Resume
  /\ UNCHANGED <<memoryVars, dest, edt, host_data, low, dbc, douten, dtbsy, dtei, triggered, slow, given>>
-----------------------------------------------------------------------------
(* The memory side, with what it means for a transfer. *)

Untouched == UNCHANGED <<gateVars, dbc, douten, dtbsy, dtei, triggered, slow, given, moved>>

\* The memory a transfer goes to is taken from it, but not before its last word.
LosesMemory == Refused' /\ ~Refused /\ triggered => dbc > 1 \/ "refused_at_end" \in Exposed

SubStep ==
  /\ \/ ResetSub \/ SubWritesWordRam
     \/ \E new_mode, new_ret \in BOOLEAN :
          /\ SubWritesMemMode(new_mode, new_ret)
          /\ \/ ~(new_mode /\ Refused /\ triggered) \/ dest # "word"
             \/ "mode_switch_in_transfer" \in Exposed
  /\ Untouched /\ UNCHANGED <<next_byte, transfer_end>>
  /\ LosesMemory

SwitchWordRam ==
  \E new_dmna \in BOOLEAN, new_bank \in Banks :
    /\ MainWritesMemMode(new_dmna, new_bank)
    /\ ResumeIf(HandsOver(new_dmna) /\ dest = "word")
    /\ Untouched

HoldSub ==
  \E new_busreq, new_reset \in BOOLEAN :
    /\ MainWritesSubCtrl(new_busreq, new_reset)
    /\ new_reset /\ ~reset /\ sub_paused_wordram => "reset_paused" \in Exposed
    /\ ResumeIf(ReleasesProg(new_busreq, new_reset) /\ dest = "prog")
    /\ Untouched
    /\ LosesMemory

\* A state that was saved here is loaded later.  The rate is not in it.
Load ==
  /\ LoadMemory
  /\ \E rate \in BOOLEAN :
       /\ rate = slow \/ transfer_end = Never \/ "load_in_transfer" \in Exposed
       /\ slow' = rate
       /\ transfer_end' = IF rate # slow /\ transfer_end # Never /\ dbc > 0 THEN "off" ELSE transfer_end
  /\ UNCHANGED <<gateVars, dbc, douten, dtbsy, dtei, triggered, next_byte, given, moved>>
-----------------------------------------------------------------------------
Next ==
  \/ Deliver \/ ReadHostData
  \/ \E bytes \in 1..MaxBytes : WriteCounter(bytes)
  \/ Trigger \/ Acknowledge \/ ResetDecoder
  \/ \E out \in BOOLEAN : WriteIfctrl(out)
  \/ WriteDmaAddress \/ \E new \in Destinations : SelectDestination(new)
  \/ SubStep \/ SwitchWordRam \/ HoldSub \/ Load

Spec == Init /\ [][Next]_vars
-----------------------------------------------------------------------------
\* Bytes the gate array has and nobody got yet.
InHand == CASE dsr -> host_data
            [] ~dsr /\ low /\ dest # "pcm" -> <<host_data[1]>>
            [] OTHER -> <<>>

\* Every byte of a transfer arrives once and in order, over all pauses and
\* resumptions, whichever CPU has the memory meanwhile and wherever it is told to go
\* (handle_cdc_byte, lc8951_run).  The last byte of an odd number is half a word,
\* which stays in hand until it is dropped.
EachByteOnce == moved \o InHand = [i \in 1..given |-> i]

\* A transfer that stands still waits for something whose handler resumes it: a
\* word to be read, memory to be handed over, a destination.  None is forgotten
\* with its interrupt and its flag still to come.
StallHasReason ==
  triggered /\ douten /\ ~next_byte => Refused \/ (dest \in Hosts /\ dsr)

\* EDT is set when the last byte is taken, and neither earlier nor never: games
\* wait for it.
EdtMarksTheEnd == [][(~edt /\ edt') <=> (triggered /\ ~triggered')]_vars
=============================================================================
