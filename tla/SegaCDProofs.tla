---------------------------- MODULE SegaCDProofs ----------------------------
(***************************************************************************)
(* Theorems about WordRam and SegaCD, for every set of banks and every     *)
(* length of a transfer, of programs that stay out of the situations.      *)
(***************************************************************************)
EXTENDS SegaCD, TLAPS

(* What the handlers do to memory, in the context of the whole machine. *)

SafeSubCtrl(new_busreq, new_reset) ==
  /\ MainWritesSubCtrl(new_busreq, new_reset)
  /\ ~(new_reset /\ ~reset /\ sub_paused_wordram)

MemoryNext ==
  \/ UNCHANGED memoryVars
  \/ ResetSub \/ SubWritesWordRam
  \/ \E new_mode, new_ret \in BOOLEAN : SubWritesMemMode(new_mode, new_ret)
  \/ \E new_dmna \in BOOLEAN, new_bank \in Banks : MainWritesMemMode(new_dmna, new_bank)
  \/ \E new_busreq, new_reset \in BOOLEAN : SafeSubCtrl(new_busreq, new_reset)
  \/ LoadMemory /\ main_prog' = main_prog

MemoryInv == MemoryTypeOK /\ MapMatchesRegisters /\ PausedCanResume

LEMMA MemoryInitial == Init => MemoryInv
BY DEF Init, MemoryInit, MemoryInv, MemoryTypeOK, MapMatchesRegisters, PausedCanResume, can_main_access_prog

LEMMA MemoryKept ==
  ASSUME MemoryInv, UNCHANGED memoryVars
  PROVE  MemoryInv'
BY DEF memoryVars, modeVars, wordMap, subVars, MemoryInv, MemoryTypeOK, MapMatchesRegisters,
       PausedCanResume, can_main_access_prog

LEMMA SubStepsKeep ==
  ASSUME MemoryInv, ResetSub \/ SubWritesWordRam
  PROVE  MemoryInv'
<1> USE DEF modeVars, wordMap, subVars, MemoryInv, MemoryTypeOK, MapMatchesRegisters,
            PausedCanResume, can_main_access_prog, SubRuns, SubCanRun
<1>1. CASE ResetSub
  BY <1>1 DEF ResetSub
<1>2. CASE SubWritesWordRam
  BY <1>2 DEF SubWritesWordRam
<1> QED BY <1>1, <1>2

LEMMA SubModeKeeps ==
  ASSUME MemoryInv, NEW new_mode \in BOOLEAN, NEW new_ret \in BOOLEAN,
         SubWritesMemMode(new_mode, new_ret)
  PROVE  MemoryInv'
<1> USE DEF modeVars, wordMap, subVars, MemoryInv, MemoryTypeOK, MapMatchesRegisters,
            PausedCanResume, can_main_access_prog, SubRuns, SubCanRun, SubWritesMemMode
<1>1. CASE new_mode /\ To1M(new_ret)
  BY <1>1 DEF To1M, BankOf
<1>2. CASE ~new_mode /\ To2M(new_ret)
  BY <1>2 DEF To2M, ToOwner
<1> QED BY <1>1, <1>2

LEMMA MainModeKeeps ==
  ASSUME MemoryInv, NEW new_dmna \in BOOLEAN, NEW new_bank \in Banks,
         MainWritesMemMode(new_dmna, new_bank)
  PROVE  MemoryInv'
<1> USE DEF modeVars, wordMap, subVars, MemoryInv, MemoryTypeOK, MapMatchesRegisters,
            PausedCanResume, can_main_access_prog, MainWritesMemMode, HandsOver
<1>1. CASE HandsOver(new_dmna) /\ GiveWordRam
  BY <1>1 DEF GiveWordRam
<1>2. CASE mode_1M /\ AskForSwap(new_dmna)
  BY <1>2 DEF AskForSwap, BankOf
<1>3. CASE /\ ~mode_1M /\ ~HandsOver(new_dmna)
           /\ UNCHANGED <<dmna, ret, main_has_word2m, main_swap_request, wordMap, sub_paused_wordram>>
  BY <1>3
<1> QED BY <1>1, <1>2, <1>3

LEMMA MainCtrlKeeps ==
  ASSUME MemoryInv, NEW new_busreq \in BOOLEAN, NEW new_reset \in BOOLEAN,
         SafeSubCtrl(new_busreq, new_reset)
  PROVE  MemoryInv'
BY DEF modeVars, wordMap, subVars, MemoryInv, MemoryTypeOK, MapMatchesRegisters, BankOf,
       PausedCanResume, can_main_access_prog, SafeSubCtrl, MainWritesSubCtrl

LEMMA LoadKeeps ==
  ASSUME MemoryInv, LoadMemory, main_prog' = main_prog
  PROVE  MemoryInv'
BY DEF modeVars, wordMap, subVars, MemoryInv, MemoryTypeOK, MapMatchesRegisters, BankOf,
       PausedCanResume, can_main_access_prog, LoadMemory, RebuildMap

LEMMA MemoryStep == MemoryInv /\ MemoryNext => MemoryInv'
BY MemoryKept, SubStepsKeep, SubModeKeeps, MainModeKeeps, MainCtrlKeeps, LoadKeeps DEF MemoryNext
-----------------------------------------------------------------------------
(* Transfers. *)

\* A transfer runs or waits as one, and starts and ends with the busy bit.
TransferInv ==
  /\ next_byte <=> transfer_end # Never
  /\ next_byte => triggered
  /\ triggered => douten
  /\ dtbsy => triggered
  /\ dsr => dest \in Hosts /\ ~low

Unexposed == Exposed = {}

FlagsOK ==
  /\ dest \in Destinations /\ dbc \in Int /\ transfer_end \in {Never, "due", "off"}
  /\ edt \in BOOLEAN /\ dsr \in BOOLEAN /\ low \in BOOLEAN
  /\ douten \in BOOLEAN /\ dtbsy \in BOOLEAN /\ dtei \in BOOLEAN
  /\ triggered \in BOOLEAN /\ next_byte \in BOOLEAN /\ slow \in BOOLEAN

\* The memory of a transfer goes away only before its last word.
LastWordInv == triggered /\ Refused => dbc > 1 \/ (dbc = 1 /\ low)

\* EDT is for a transfer that has ended, at the cycle of its last byte.
EdtInv == triggered => ~edt /\ transfer_end # "off" /\ dbc >= 0

StallInv == FlagsOK /\ TransferInv /\ StallHasReason /\ LastWordInv /\ EdtInv

LEMMA StallInitial == Init => StallInv
<1> SUFFICES ASSUME Init PROVE StallInv
  OBVIOUS
<1>1. FlagsOK
  <2>1. dbc \in Int
    BY DEF Init
  <2>2. dest \in Destinations /\ transfer_end \in {Never, "due", "off"}
    BY DEF Init, Destinations
  <2>3. /\ edt \in BOOLEAN /\ dsr \in BOOLEAN /\ low \in BOOLEAN
        /\ douten \in BOOLEAN /\ dtbsy \in BOOLEAN /\ dtei \in BOOLEAN
        /\ triggered \in BOOLEAN /\ next_byte \in BOOLEAN /\ slow \in BOOLEAN
    BY DEF Init
  <2> QED BY <2>1, <2>2, <2>3 DEF FlagsOK
<1>2. ~triggered /\ ~dsr /\ ~dtbsy /\ ~next_byte /\ transfer_end = Never
  BY DEF Init
<1> QED BY <1>1, <1>2 DEF StallInv, TransferInv, StallHasReason, LastWordInv, EdtInv

LEMMA RefusedKept ==
  ASSUME UNCHANGED <<dest, mode_1M, main_has_word2m, busreq, reset>>
  PROVE  Refused' = Refused
BY DEF Refused, can_main_access_prog

\* What lc8951_resume_transfer does to a transfer that is consistent.
LEMMA ResumeWakes ==
  ASSUME FlagsOK, TransferInv, Resume
  PROVE  /\ next_byte' = (next_byte \/ triggered)
         /\ transfer_end' = IF triggered /\ ~next_byte THEN "due" ELSE transfer_end
BY DEF FlagsOK, TransferInv, Resume, Never

\* A step that leaves the transfer itself alone and resumes it whenever memory it
\* was refused becomes writable.
LEMMA MemoryStepKeepsStall ==
  ASSUME StallInv, Untouched,
         \/ UNCHANGED <<next_byte, transfer_end>> /\ (triggered /\ Refused => Refused')
         \/ Resume,
         Refused' /\ ~Refused /\ triggered => dbc > 1
  PROVE  StallInv'
<1> USE DEF StallInv, Untouched, gateVars
<1>1. FlagsOK' /\ TransferInv'
  <2>1. CASE UNCHANGED <<next_byte, transfer_end>>
    BY <2>1 DEF FlagsOK, TransferInv
  <2>2. CASE Resume
    BY <2>2, ResumeWakes DEF FlagsOK, TransferInv, Never
  <2> QED BY <2>1, <2>2
<1>2. StallHasReason'
  <2>1. CASE Resume
    BY <2>1, ResumeWakes DEF StallHasReason, FlagsOK
  <2>2. CASE UNCHANGED <<next_byte, transfer_end>> /\ (triggered /\ Refused => Refused')
    BY <2>2 DEF StallHasReason
  <2> QED BY <2>1, <2>2
<1>3. LastWordInv'
  BY DEF LastWordInv
<1>4. EdtInv'
  <2>1. CASE UNCHANGED <<next_byte, transfer_end>>
    BY <2>1 DEF EdtInv
  <2>2. CASE Resume
    BY <2>2, ResumeWakes DEF EdtInv
  <2> QED BY <2>1, <2>2
<1> QED BY <1>1, <1>2, <1>3, <1>4

\* Registers are written outside of transfers.
LEMMA RegisterKeepsStall ==
  ASSUME StallInv, ~triggered, RegisterWritten, ~triggered',
         next_byte' = next_byte, transfer_end' \in {transfer_end, Never},
         dbc' \in Int, low' \in BOOLEAN, low' => low, douten' \in BOOLEAN, dtei' \in BOOLEAN,
         dtbsy' \in BOOLEAN, dtbsy' => dtbsy, triggered' \in BOOLEAN
  PROVE  StallInv'
<1>1. FlagsOK'
  BY DEF StallInv, RegisterWritten, FlagsOK
<1>2. TransferInv'
  BY DEF StallInv, RegisterWritten, FlagsOK, TransferInv
<1> QED BY <1>1, <1>2 DEF StallInv, StallHasReason, LastWordInv, EdtInv

LEMMA RegistersKeepStall ==
  ASSUME StallInv, Unexposed,
         \/ \E bytes \in 1..MaxBytes : WriteCounter(bytes)
         \/ Acknowledge \/ ResetDecoder
         \/ \E out \in BOOLEAN : WriteIfctrl(out)
  PROVE  StallInv'
<1> USE DEF Unexposed, InTransfer
<1>1. CASE \E bytes \in 1..MaxBytes : WriteCounter(bytes)
  <2> PICK bytes \in 1..MaxBytes : WriteCounter(bytes)
    BY <1>1
  <2>1. dbc' \in Int
    BY SegaCDAssumption DEF WriteCounter, SegaCDAssumption
  <2> QED BY <2>1, RegisterKeepsStall DEF WriteCounter, StallInv, FlagsOK
<1>2. CASE Acknowledge
  BY <1>2, RegisterKeepsStall DEF Acknowledge, StallInv, FlagsOK
<1>3. CASE ResetDecoder
  BY <1>3, RegisterKeepsStall DEF ResetDecoder, StallInv, FlagsOK
<1>4. CASE \E out \in BOOLEAN : WriteIfctrl(out)
  BY <1>4, RegisterKeepsStall DEF WriteIfctrl, StallInv, FlagsOK
<1> QED BY <1>1, <1>2, <1>3, <1>4

LEMMA TriggerKeepsStall ==
  ASSUME StallInv, Unexposed, Trigger
  PROVE  StallInv'
<1>1. CASE ~douten
  BY <1>1, RegisterKeepsStall DEF Trigger, StallInv, FlagsOK, TransferInv
<1>2. CASE douten
  <2> USE <1>2 DEF StallInv, Trigger, RegisterWritten, Unexposed, InTransfer
  <2>0. dbc' = Counter /\ Counter \in Int /\ Counter >= 0
    BY SegaCDAssumption DEF FlagsOK, Counter, SegaCDAssumption
  <2>1. FlagsOK' /\ TransferInv'
    BY <2>0 DEF FlagsOK, TransferInv, Never
  <2>2. StallHasReason' /\ EdtInv'
    BY <2>0 DEF StallHasReason, EdtInv, FlagsOK
  <2>3. Refused' = Refused
    BY RefusedKept DEF memoryVars, modeVars, subVars
  <2>4. LastWordInv'
    BY <2>0, <2>3 DEF LastWordInv
  <2> QED BY <2>1, <2>2, <2>4
<1> QED BY <1>1, <1>2

LEMMA SelectKeepsStall ==
  ASSUME StallInv, Unexposed, NEW new \in Destinations, SelectDestination(new)
  PROVE  StallInv'
<1>1. ~triggered /\ ~triggered'
  BY DEF SelectDestination, InTransfer, Unexposed
<1>2. UNCHANGED <<next_byte, transfer_end>>
  BY <1>1 DEF SelectDestination, Resume, StallInv, TransferInv
<1>3. FlagsOK' /\ TransferInv'
  BY <1>1, <1>2 DEF SelectDestination, StallInv, FlagsOK, TransferInv
<1> QED BY <1>1, <1>3 DEF StallInv, StallHasReason, LastWordInv, EdtInv

LEMMA AddressKeepsStall ==
  ASSUME StallInv, Unexposed, WriteDmaAddress
  PROVE  StallInv'
<1> USE DEF StallInv, WriteDmaAddress, cdcVars
<1>1. FlagsOK' /\ TransferInv'
  BY DEF FlagsOK, TransferInv
<1>2. Refused' = Refused
  BY RefusedKept DEF memoryVars, modeVars, subVars
<1>3. triggered /\ Refused => low' = low
  BY DEF Unexposed, Refused, FlagsOK
<1>4. StallHasReason' /\ EdtInv'
  BY <1>2 DEF StallHasReason, EdtInv
<1>5. LastWordInv'
  BY <1>2, <1>3 DEF LastWordInv
<1> QED BY <1>1, <1>4, <1>5

LEMMA ReadKeepsStall ==
  ASSUME StallInv, ReadHostData
  PROVE  StallInv'
<1> USE DEF StallInv, ReadHostData
<1>1. FlagsOK' /\ TransferInv'
  BY ResumeWakes DEF FlagsOK, TransferInv, Never
<1>2. StallHasReason' /\ EdtInv'
  BY ResumeWakes DEF StallHasReason, EdtInv, FlagsOK
<1>3. LastWordInv'
  BY RefusedKept DEF LastWordInv, memoryVars, modeVars, subVars
<1> QED BY <1>1, <1>2, <1>3

\* A byte is taken: what is refused is at most the second one of a word.
LEMMA AcceptKeepsStall ==
  ASSUME StallInv, next_byte, Accept, edt' = (edt \/ AtTheEnd), Refused' = Refused,
         UNCHANGED <<dest, douten, slow>>, low' \in BOOLEAN, dsr' \in BOOLEAN,
         dsr' => dest \in Hosts /\ ~low', Refused => ~low /\ low'
  PROVE  StallInv'
<1>1. triggered /\ douten /\ ~edt /\ dbc \in Int /\ dbc >= 0 /\ transfer_end = "due"
  BY DEF StallInv, FlagsOK, TransferInv, EdtInv
<1>2. dbc' = dbc - 1 /\ dbc' \in Int /\ edt' = (dbc = 0)
  BY <1>1 DEF Accept, AtTheEnd
<1>3. CASE dbc = 0
  <2>1. /\ dtei' = TRUE /\ dtbsy' = FALSE /\ triggered' = FALSE
        /\ next_byte' = FALSE /\ transfer_end' = Never
    BY <1>3 DEF Accept
  <2>2. FlagsOK'
    BY <1>2, <2>1 DEF StallInv, FlagsOK
  <2>3. TransferInv'
    BY <2>1 DEF TransferInv
  <2> QED BY <2>1, <2>2, <2>3 DEF StallInv, StallHasReason, LastWordInv, EdtInv
<1>4. CASE dbc # 0
  <2>1. UNCHANGED <<dtei, dtbsy, triggered, next_byte, transfer_end>>
    BY <1>4 DEF Accept
  <2>2. dbc' >= 0 /\ ~edt' /\ (dbc > 1 => dbc' > 1 \/ dbc' = 1)
    BY <1>1, <1>2, <1>4
  <2>3. FlagsOK'
    BY <1>2, <2>1 DEF StallInv, FlagsOK
  <2>4. TransferInv'
    BY <2>1 DEF StallInv, TransferInv
  <2>5. StallHasReason' /\ EdtInv'
    BY <1>1, <2>1, <2>2 DEF StallHasReason, EdtInv, Never
  <2>6. LastWordInv'
    BY <1>1, <2>1, <2>2 DEF StallInv, LastWordInv
  <2> QED BY <2>3, <2>4, <2>5, <2>6 DEF StallInv
<1> QED BY <1>3, <1>4

LEMMA PauseKeepsStall ==
  ASSUME StallInv, next_byte, Pause, edt' = edt \/ (edt' = (edt \/ AtTheEnd) /\ dbc # 0),
         Refused' = Refused, UNCHANGED <<dest, dsr, low, douten, slow>>, dsr \/ Refused
  PROVE  StallInv'
<1>1. edt' = edt
  BY DEF AtTheEnd, StallInv, FlagsOK
<1>2. FlagsOK'
  BY <1>1 DEF Pause, StallInv, FlagsOK, Never
<1>3. TransferInv'
  BY DEF Pause, StallInv, TransferInv, Never
<1>4. StallHasReason'
  BY DEF StallInv, TransferInv, StallHasReason
<1>5. LastWordInv' /\ EdtInv'
  BY <1>1 DEF Pause, StallInv, LastWordInv, EdtInv, Never
<1> QED BY <1>2, <1>3, <1>4, <1>5 DEF StallInv

LEMMA DeliverKeepsStall ==
  ASSUME StallInv, Deliver
  PROVE  StallInv'
<1>1. Refused' = Refused
  BY RefusedKept DEF Deliver, memoryVars, modeVars, subVars, gateVars
<1>2. next_byte /\ UNCHANGED <<dest, douten, slow>>
  BY DEF Deliver, gateVars
<1>3. CASE HostFull /\ Pause /\ UNCHANGED <<gateVars, moved>>
  BY <1>1, <1>2, <1>3, PauseKeepsStall DEF HostFull, gateVars
<1>4. CASE ~HostFull /\ edt' = (edt \/ AtTheEnd) /\ ~low /\ UpperByte
  <2>1. /\ Accept /\ edt' = (edt \/ AtTheEnd)
        /\ low' \in BOOLEAN /\ dsr' \in BOOLEAN /\ ~dsr' /\ ~low /\ low'
    BY <1>4 DEF HostFull, UpperByte, StallInv, FlagsOK
  <2> QED BY <1>1, <1>2, <2>1, AcceptKeepsStall
<1>5. CASE ~HostFull /\ edt' = (edt \/ AtTheEnd) /\ low /\ LowerByte
  <2>1. CASE Refused /\ Pause /\ UNCHANGED <<low, dsr, moved>>
    <3>1. triggered /\ dbc # 0
      BY <1>2, <2>1 DEF StallInv, TransferInv, LastWordInv
    <3> QED BY <1>1, <1>2, <1>5, <2>1, <3>1, PauseKeepsStall
  <2>2. CASE ~Refused /\ Accept /\ low' = (dest = "pcm") /\ dsr' = (dest \in Hosts)
    <3>1. dsr' => dest \in Hosts /\ ~low'
      BY <2>2 DEF Hosts
    <3> QED BY <1>1, <1>2, <1>5, <2>2, <3>1, AcceptKeepsStall
  <2> QED BY <1>5, <2>1, <2>2 DEF LowerByte
<1> QED BY <1>3, <1>4, <1>5 DEF Deliver

LEMMA SubStepKeepsStall ==
  ASSUME StallInv, MemoryInv, Unexposed, SubStep
  PROVE  StallInv'
<1> USE DEF SubStep, Unexposed, LosesMemory
<1>1. triggered /\ Refused => Refused'
  <2>1. CASE ResetSub \/ SubWritesWordRam
    BY <2>1, RefusedKept DEF ResetSub, SubWritesWordRam, modeVars, Untouched, gateVars
  <2>2. CASE \E new_mode, new_ret \in BOOLEAN :
               /\ SubWritesMemMode(new_mode, new_ret)
               /\ ~(new_mode /\ Refused /\ triggered) \/ dest # "word"
    <3> PICK new_mode \in BOOLEAN, new_ret \in BOOLEAN :
               /\ SubWritesMemMode(new_mode, new_ret)
               /\ ~(new_mode /\ Refused /\ triggered) \/ dest # "word"
      BY <2>2
    <3>1. mode_1M' = new_mode /\ main_has_word2m' = (main_has_word2m \/ new_ret)
      BY DEF SubWritesMemMode, To1M, To2M
    <3>2. dest' = dest /\ busreq' = busreq /\ reset' = reset
      BY DEF SubWritesMemMode, subVars, Untouched, gateVars
    <3> QED BY <3>1, <3>2 DEF Refused, can_main_access_prog
  <2> QED BY <2>1, <2>2
<1> QED BY <1>1, MemoryStepKeepsStall

LEMMA SwitchKeepsStall ==
  ASSUME StallInv, MemoryInv, Unexposed, SwitchWordRam
  PROVE  StallInv'
<1> PICK new_dmna \in BOOLEAN, new_bank \in Banks :
      /\ MainWritesMemMode(new_dmna, new_bank)
      /\ ResumeIf(HandsOver(new_dmna) /\ dest = "word")
      /\ Untouched
  BY DEF SwitchWordRam
<1>1. dest' = dest /\ UNCHANGED <<busreq, reset, mode_1M>>
  BY DEF Untouched, gateVars, MainWritesMemMode
<1>2. ~mode_1M /\ ~HandsOver(new_dmna) => main_has_word2m' = main_has_word2m
  BY DEF MainWritesMemMode
<1>3. ~mode_1M /\ HandsOver(new_dmna) => ~main_has_word2m'
  BY DEF MainWritesMemMode, GiveWordRam, HandsOver
<1>4. Refused' => Refused
  BY <1>1, <1>2, <1>3 DEF Refused, can_main_access_prog
<1>5. CASE HandsOver(new_dmna) /\ dest = "word"
  BY <1>4, <1>5, MemoryStepKeepsStall DEF ResumeIf
<1>6. CASE ~(HandsOver(new_dmna) /\ dest = "word")
  <2>1. Refused => Refused'
    BY <1>1, <1>2, <1>6 DEF Refused, can_main_access_prog, HandsOver
  <2> QED BY <1>4, <1>6, <2>1, MemoryStepKeepsStall DEF ResumeIf
<1> QED BY <1>5, <1>6

LEMMA HoldKeepsStall ==
  ASSUME StallInv, MemoryInv, Unexposed, HoldSub
  PROVE  StallInv'
<1> PICK new_busreq \in BOOLEAN, new_reset \in BOOLEAN :
      /\ MainWritesSubCtrl(new_busreq, new_reset)
      /\ ResumeIf(ReleasesProg(new_busreq, new_reset) /\ dest = "prog")
      /\ Untouched
      /\ LosesMemory
  BY DEF HoldSub
<1>1. Refused' /\ ~Refused /\ triggered => dbc > 1
  BY DEF LosesMemory, Unexposed
<1>2. CASE ReleasesProg(new_busreq, new_reset) /\ dest = "prog"
  BY <1>1, <1>2, MemoryStepKeepsStall DEF ResumeIf
<1>3. CASE ~(ReleasesProg(new_busreq, new_reset) /\ dest = "prog")
  <2>1. Refused => Refused'
    BY <1>3 DEF MainWritesSubCtrl, ReleasesProg, Refused, can_main_access_prog, Untouched,
               gateVars, modeVars
  <2> QED BY <1>1, <1>3, <2>1, MemoryStepKeepsStall DEF ResumeIf
<1> QED BY <1>2, <1>3

LEMMA LoadKeepsStall ==
  ASSUME StallInv, Unexposed, Load
  PROVE  StallInv'
<1> USE DEF StallInv, Load, Unexposed, gateVars
<1>1. UNCHANGED <<transfer_end, dest, mode_1M, main_has_word2m, busreq, reset>>
  BY DEF LoadMemory, modeVars, subVars
<1>2. Refused' = Refused
  BY <1>1, RefusedKept
<1>3. FlagsOK' /\ TransferInv'
  BY <1>1 DEF FlagsOK, TransferInv
<1> QED BY <1>1, <1>2, <1>3 DEF StallHasReason, LastWordInv, EdtInv

LEMMA StallKept ==
  ASSUME StallInv, UNCHANGED vars
  PROVE  StallInv'
<1>1. Refused' = Refused
  BY RefusedKept DEF vars, gateVars, memoryVars, modeVars, subVars
<1> QED BY <1>1 DEF vars, gateVars, cdcVars, StallInv, FlagsOK, TransferInv, StallHasReason,
                    LastWordInv, EdtInv

\* A step of the whole machine is one of the memory.
LEMMA StepsOfMemory ==
  ASSUME Unexposed, [Next]_vars
  PROVE  MemoryNext
<1>1. CASE Deliver \/ ReadHostData \/ UNCHANGED vars
  BY <1>1 DEF Deliver, ReadHostData, vars, MemoryNext
<1>2. CASE \/ \E bytes \in 1..MaxBytes : WriteCounter(bytes)
           \/ Trigger \/ Acknowledge \/ ResetDecoder
           \/ \E out \in BOOLEAN : WriteIfctrl(out)
  BY <1>2 DEF WriteCounter, Trigger, Acknowledge, ResetDecoder, WriteIfctrl, RegisterWritten, MemoryNext
<1>3. CASE WriteDmaAddress \/ \E new \in Destinations : SelectDestination(new)
  BY <1>3 DEF WriteDmaAddress, SelectDestination, MemoryNext
<1>4. CASE SubStep
  BY <1>4 DEF SubStep, MemoryNext
<1>5. CASE SwitchWordRam
  BY <1>5 DEF SwitchWordRam, MemoryNext
<1>6. CASE HoldSub
  BY <1>6 DEF HoldSub, SafeSubCtrl, Unexposed, MemoryNext
<1>7. CASE Load
  BY <1>7 DEF Load, LoadMemory, Unexposed, MemoryNext
<1> QED BY <1>1, <1>2, <1>3, <1>4, <1>5, <1>6, <1>7 DEF Next

Inv == MemoryInv /\ StallInv

LEMMA Initially == Init => Inv
BY MemoryInitial, StallInitial DEF Inv

LEMMA Step ==
  ASSUME Unexposed, Inv, [Next]_vars
  PROVE  Inv'
<1> USE DEF Inv
<1>1. MemoryInv'
  BY StepsOfMemory, MemoryStep
<1>2. CASE Deliver \/ ReadHostData \/ UNCHANGED vars
  BY <1>1, <1>2, DeliverKeepsStall, ReadKeepsStall, StallKept
<1>3. CASE \/ \E bytes \in 1..MaxBytes : WriteCounter(bytes)
           \/ Acknowledge \/ ResetDecoder
           \/ \E out \in BOOLEAN : WriteIfctrl(out)
  BY <1>1, <1>3, RegistersKeepStall
<1>4. CASE Trigger
  BY <1>1, <1>4, TriggerKeepsStall
<1>5. CASE WriteDmaAddress \/ \E new \in Destinations : SelectDestination(new)
  BY <1>1, <1>5, AddressKeepsStall, SelectKeepsStall
<1>6. CASE SubStep \/ SwitchWordRam \/ HoldSub \/ Load
  BY <1>1, <1>6, SubStepKeepsStall, SwitchKeepsStall, HoldKeepsStall, LoadKeepsStall
<1> QED BY <1>2, <1>3, <1>4, <1>5, <1>6 DEF Next

LEMMA Invariant ==
  ASSUME Unexposed
  PROVE  Spec => []Inv
<1>1. Inv /\ [Next]_vars => Inv'
  BY Step
<1> QED BY <1>1, Initially, PTL DEF Spec

\* Whoever has word RAM, in either mode, and whatever bank of program RAM is
\* selected: after every write of the memory registers, every reset and every load
\* the CPUs reach what the registers say.
THEOREM MapTrue ==
  ASSUME Unexposed
  PROVE  Spec => []MapMatchesRegisters
<1>1. Inv => MapMatchesRegisters
  BY DEF Inv, MemoryInv
<1> QED BY <1>1, Invariant, PTL

\* A sub CPU that word_ram_2M_write8 stopped can always be released by the main
\* CPU.
THEOREM PausedSubResumes ==
  ASSUME Unexposed
  PROVE  Spec => []PausedCanResume
<1>1. Inv => PausedCanResume
  BY DEF Inv, MemoryInv
<1> QED BY <1>1, Invariant, PTL

\* A transfer of any length that stands still waits for something whose handler
\* calls lc8951_resume_transfer.
THEOREM StallsHaveReasons ==
  ASSUME Unexposed
  PROVE  Spec => []StallHasReason
<1>1. Inv => StallHasReason
  BY DEF Inv, StallInv
<1> QED BY <1>1, Invariant, PTL

LEMMA EdtStep ==
  ASSUME Unexposed, Inv, [Next]_vars
  PROVE  (~edt /\ edt') <=> (triggered /\ ~triggered')
<1>0. TransferInv /\ FlagsOK /\ EdtInv
  BY DEF Inv, StallInv
<1>1. CASE Deliver
  <2>1. triggered /\ ~edt /\ transfer_end = "due" /\ dbc \in Int /\ edt \in BOOLEAN
    BY <1>0, <1>1 DEF Deliver, TransferInv, EdtInv, FlagsOK
  <2>2. CASE HostFull /\ Pause /\ UNCHANGED <<gateVars, moved>>
    BY <2>1, <2>2 DEF Pause, gateVars
  <2>3. CASE Accept /\ edt' = (edt \/ AtTheEnd)
    BY <2>1, <2>3 DEF Accept, AtTheEnd
  <2>4. CASE Refused /\ Pause /\ low /\ edt' = (edt \/ AtTheEnd)
    <3>1. dbc # 0
      BY <2>1, <2>4 DEF Inv, StallInv, LastWordInv
    <3> QED BY <2>1, <2>4, <3>1 DEF Pause, AtTheEnd
  <2>5. CASE ~HostFull /\ edt' = (edt \/ AtTheEnd) /\ ~low /\ UpperByte
    BY <2>3, <2>5 DEF UpperByte
  <2>6. CASE ~HostFull /\ edt' = (edt \/ AtTheEnd) /\ low /\ LowerByte
    BY <2>3, <2>4, <2>6 DEF LowerByte
  <2> QED BY <1>1, <2>2, <2>5, <2>6 DEF Deliver
<1>2. CASE UNCHANGED <<edt, triggered>>
  BY <1>2
<1>3. CASE \/ ReadHostData \/ WriteDmaAddress \/ SubStep \/ SwitchWordRam \/ HoldSub
           \/ Load \/ UNCHANGED vars
  BY <1>2, <1>3 DEF ReadHostData, WriteDmaAddress, SubStep, SwitchWordRam, HoldSub, Load, Untouched, vars,
                    gateVars, cdcVars
<1>4. CASE ~triggered /\ (edt' => edt)
  BY <1>4
<1>5. CASE \/ \E bytes \in 1..MaxBytes : WriteCounter(bytes)
           \/ Trigger \/ Acknowledge \/ ResetDecoder
           \/ \E out \in BOOLEAN : WriteIfctrl(out)
  BY <1>4, <1>5 DEF WriteCounter, Trigger, Acknowledge, ResetDecoder, WriteIfctrl, RegisterWritten,
                    InTransfer, Unexposed
<1>6. CASE \E new \in Destinations : SelectDestination(new)
  BY <1>4, <1>6 DEF SelectDestination, InTransfer, Unexposed
<1> QED BY <1>1, <1>3, <1>5, <1>6 DEF Next

\* EDT is set at the very step that takes the last byte of a transfer, over all
\* pauses (lc8951_run, handle_cdc_byte).
THEOREM EdtAtTheEnd ==
  ASSUME Unexposed
  PROVE  Spec => EdtMarksTheEnd
<1>1. Inv /\ [Next]_vars => [(~edt /\ edt') <=> (triggered /\ ~triggered')]_vars
  BY EdtStep
<1> QED BY <1>1, Invariant, PTL DEF Spec, EdtMarksTheEnd
-----------------------------------------------------------------------------
(* Bytes. *)

Upto(n) == [i \in 1..n |-> i]

LEMMA UptoAppend ==
  ASSUME NEW n \in Nat
  PROVE  Append(Upto(n), n + 1) = Upto(n + 1)
BY DEF Upto

LEMMA UptoWord ==
  ASSUME NEW n \in Nat
  PROVE  Upto(n) \o <<n + 1, n + 2>> = Upto(n + 2)
BY DEF Upto

LEMMA UptoSeq ==
  ASSUME NEW n \in Nat
  PROVE  Upto(n) \in Seq(Nat)
BY DEF Upto

LEMMA UptoNone == Upto(0) = <<>>
BY DEF Upto

\* What has arrived, told from what the gate array holds.
HandInv ==
  /\ given \in Nat /\ \E upper, lower \in Nat : host_data = <<upper, lower>>
  /\ dsr => given >= 2 /\ host_data = <<given - 1, given>> /\ moved = Upto(given - 2)
  /\ ~dsr /\ low /\ dest # "pcm" =>
       given >= 1 /\ host_data[1] = given /\ moved = Upto(given - 1)
  /\ ~dsr /\ ~(low /\ dest # "pcm") => moved = Upto(given)

HandContext == Inv /\ HandInv

LEMMA HandInitial == Init => HandInv
<1> SUFFICES ASSUME Init PROVE HandInv
  OBVIOUS
<1>1. given = 0 /\ given \in Nat /\ ~dsr /\ ~low /\ moved = Upto(given)
  BY UptoNone DEF Init
<1>2. host_data = <<0, 0>>
  BY DEF Init
<1> QED BY <1>1, <1>2 DEF HandInv

LEMMA HandKept ==
  ASSUME HandInv, UNCHANGED <<dest, dsr, low, given, moved, host_data>>
  PROVE  HandInv'
BY DEF HandInv

LEMMA HandEmptied ==
  ASSUME HandInv, given' = 0, moved' = <<>>, ~dsr', ~low', host_data' = host_data
  PROVE  HandInv'
<1>1. moved' = Upto(given') /\ given' \in Nat
  BY UptoNone
<1> QED BY <1>1 DEF HandInv

LEMMA RegistersKeepHand ==
  ASSUME HandContext, Unexposed,
         \/ \E bytes \in 1..MaxBytes : WriteCounter(bytes)
         \/ Acknowledge \/ ResetDecoder
         \/ \E out \in BOOLEAN : WriteIfctrl(out)
  PROVE  HandInv'
<1>1. ~triggered /\ dtbsy = FALSE /\ dsr \in BOOLEAN
  BY DEF HandContext, Inv, StallInv, TransferInv, FlagsOK, WriteCounter, Acknowledge, ResetDecoder,
         WriteIfctrl, InTransfer, Unexposed
<1>2. dtbsy' = FALSE /\ UNCHANGED <<low, given, moved>> /\ RegisterWritten
  <2>1. CASE \E out \in BOOLEAN : WriteIfctrl(out)
    BY <1>1, <2>1 DEF WriteIfctrl
  <2>2. CASE (\E bytes \in 1..MaxBytes : WriteCounter(bytes)) \/ Acknowledge \/ ResetDecoder
    BY <1>1, <2>2 DEF WriteCounter, Acknowledge, ResetDecoder
  <2> QED BY <2>1, <2>2
<1>3. UNCHANGED <<dest, dsr, low, given, moved, host_data>>
  BY <1>1, <1>2 DEF RegisterWritten
<1> QED BY <1>3, HandKept DEF HandContext

LEMMA TriggerKeepsHand ==
  ASSUME HandContext, Unexposed, Trigger
  PROVE  HandInv'
<1>1. /\ ~triggered /\ ~dtbsy /\ dsr \in BOOLEAN /\ (dsr => ~low) /\ ~low'
      /\ UNCHANGED <<dest, host_data>> /\ dsr' = (dsr /\ ~dtbsy')
  BY DEF HandContext, Inv, StallInv, TransferInv, FlagsOK, Trigger, RegisterWritten, InTransfer, Unexposed
<1>2. CASE douten
  <2>1. given' = 0 /\ moved' = <<>> /\ dtbsy' = TRUE
    BY <1>2 DEF Trigger
  <2> QED BY <1>1, <2>1, HandEmptied DEF HandContext
<1>3. CASE ~douten
  <2>1. given' = (IF low /\ dest # "pcm" THEN given - 1 ELSE given) /\ moved' = moved /\ dtbsy' = dtbsy
    BY <1>3 DEF Trigger, Forgotten
  <2> QED BY <1>1, <2>1 DEF HandContext, HandInv
<1> QED BY <1>2, <1>3

LEMMA SelectKeepsHand ==
  ASSUME HandContext, Unexposed, NEW new \in Destinations, SelectDestination(new)
  PROVE  HandInv'
BY HandEmptied DEF HandContext, SelectDestination, InTransfer, Unexposed

LEMMA AddressKeepsHand ==
  ASSUME HandContext, Unexposed, WriteDmaAddress
  PROVE  HandInv'
<1>1. /\ dsr \in BOOLEAN /\ (dsr => ~low) /\ ~low'
      /\ UNCHANGED <<dest, dsr, host_data, moved>>
      /\ triggered => ~(low /\ dest # "pcm")
  BY DEF HandContext, Inv, StallInv, TransferInv, FlagsOK, WriteDmaAddress, Unexposed
<1>2. given' = IF low /\ dest # "pcm" THEN given - 1 ELSE given
  BY <1>1 DEF WriteDmaAddress, Forgotten
<1> QED BY <1>1, <1>2 DEF HandContext, HandInv

LEMMA ReadKeepsHand ==
  ASSUME HandContext, ReadHostData
  PROVE  HandInv'
<1>1. /\ given \in Nat /\ given >= 2 /\ moved = Upto(given - 2) /\ host_data = <<given - 1, given>>
      /\ ~low /\ ~dsr' /\ moved' = moved \o host_data /\ UNCHANGED <<dest, low, given, host_data>>
  BY DEF HandContext, HandInv, Inv, StallInv, TransferInv, ReadHostData
<1>2. moved' = Upto(given')
  <2> DEFINE n == given - 2
  <2>1. n \in Nat /\ given - 1 = n + 1 /\ given = n + 2
    BY <1>1
  <2>2. Upto(n) \o <<n + 1, n + 2>> = Upto(n + 2)
    BY <2>1, UptoWord
  <2> QED BY <1>1, <2>1, <2>2
<1> QED BY <1>1, <1>2 DEF HandContext, HandInv

LEMMA UpperKeepsHand ==
  ASSUME HandContext, ~dsr, ~low, UpperByte, dest' = dest
  PROVE  HandInv'
<1>1. /\ given \in Nat /\ given' = given + 1 /\ given' \in Nat /\ given' >= 1
      /\ moved = Upto(given) /\ ~dsr' /\ low' = TRUE
  BY DEF HandContext, HandInv, UpperByte, Accept, Inv, StallInv, FlagsOK
<1>2. PICK upper, lower \in Nat : host_data = <<upper, lower>>
  BY DEF HandContext, HandInv
<1>3. host_data' = <<given', lower>>
  BY <1>1, <1>2 DEF UpperByte
<1>4. CASE dest = "pcm"
  <2>1. moved' = Upto(given')
    BY <1>1, <1>4, UptoAppend DEF UpperByte
  <2> QED BY <1>1, <1>2, <1>3, <1>4, <2>1 DEF HandInv
<1>5. CASE dest # "pcm"
  <2>1. moved' = moved /\ given' - 1 = given
    BY <1>1, <1>5 DEF UpperByte
  <2> QED BY <1>1, <1>2, <1>3, <1>5, <2>1 DEF HandInv
<1> QED BY <1>4, <1>5

LEMMA LowerKeepsHand ==
  ASSUME HandContext, ~dsr, low, LowerByte, dest' = dest
  PROVE  HandInv'
<1>1. PICK upper, lower \in Nat : host_data = <<upper, lower>>
  BY DEF HandContext, HandInv
<1>2. given \in Nat /\ host_data' = <<upper, given + 1>> /\ given + 1 \in Nat
  BY <1>1 DEF HandContext, HandInv, LowerByte
<1>3. CASE Refused /\ Pause /\ UNCHANGED <<low, dsr, moved>>
  <2>1. given' = given /\ dest # "pcm" /\ upper = given /\ given >= 1 /\ moved = Upto(given - 1)
    BY <1>1, <1>3 DEF Pause, Refused, HandContext, HandInv
  <2> QED BY <1>1, <1>2, <1>3, <2>1 DEF HandInv
<1>4. CASE dest = "pcm" /\ Accept /\ low' /\ ~dsr' /\ moved' = Append(moved, given + 1)
  <2>1. given' = given + 1 /\ moved = Upto(given)
    BY <1>4 DEF Accept, HandContext, HandInv
  <2>2. moved' = Upto(given')
    BY <1>2, <1>4, <2>1, UptoAppend
  <2> QED BY <1>1, <1>2, <1>4, <2>1, <2>2 DEF HandInv
<1>5. ASSUME dest # "pcm", Accept
      PROVE  /\ given' = given + 1 /\ given >= 1 /\ upper = given /\ moved = Upto(given - 1)
             /\ host_data' = <<given' - 1, given'>> /\ given' >= 2 /\ given' - 2 = given - 1
  <2>1. given' = given + 1 /\ given >= 1 /\ upper = given /\ moved = Upto(given - 1)
    BY <1>1, <1>5 DEF Accept, HandContext, HandInv
  <2> QED BY <1>2, <2>1
<1>6. CASE dest \in Hosts /\ Accept /\ ~low' /\ dsr' /\ moved' = moved
  BY <1>1, <1>2, <1>5, <1>6 DEF HandInv, Hosts
<1>7. CASE dest # "pcm" /\ Accept /\ ~low' /\ ~dsr' /\ moved' = moved \o host_data'
  <2>1. moved' = Upto(given')
    <3> DEFINE n == given - 1
    <3>1. n \in Nat /\ given = n + 1 /\ given' = n + 2 /\ given + 1 = n + 2
      BY <1>2, <1>5, <1>7
    <3>2. Upto(n) \o <<n + 1, n + 2>> = Upto(n + 2)
      BY <3>1, UptoWord
    <3> QED BY <1>2, <1>5, <1>7, <3>1, <3>2
  <2> QED BY <1>1, <1>2, <1>5, <1>7, <2>1 DEF HandInv
<1>8. CASE ~Refused /\ Accept /\ low' = (dest = "pcm") /\ dsr' = (dest \in Hosts)
           /\ moved' = CASE dest = "pcm" -> Append(moved, given + 1)
                         [] dest \in Hosts -> moved
                         [] OTHER -> moved \o host_data'
  <2>1. CASE dest = "pcm"
    BY <1>4, <1>8, <2>1 DEF Hosts
  <2>2. CASE dest \in Hosts
    BY <1>6, <1>8, <2>2 DEF Hosts
  <2>3. CASE dest # "pcm" /\ dest \notin Hosts
    BY <1>7, <1>8, <2>3
  <2> QED BY <2>1, <2>2, <2>3
<1> QED BY <1>3, <1>8 DEF LowerByte

LEMMA HandStep ==
  ASSUME Unexposed, HandContext, [Next]_vars
  PROVE  HandInv'
<1> USE DEF HandContext
<1>1. CASE Deliver
  <2>1. CASE HostFull /\ Pause /\ UNCHANGED <<gateVars, moved>>
    BY <2>1, HandKept DEF Pause, gateVars
  <2>2. CASE ~HostFull /\ dest' = dest /\ ~low /\ UpperByte
    BY <2>2, UpperKeepsHand DEF HostFull
  <2>3. CASE ~HostFull /\ dest' = dest /\ low /\ LowerByte
    BY <2>3, LowerKeepsHand DEF HostFull
  <2> QED BY <1>1, <2>1, <2>2, <2>3 DEF Deliver
<1>2. CASE SubStep \/ SwitchWordRam \/ HoldSub \/ Load \/ UNCHANGED vars
  BY <1>2, HandKept DEF SubStep, SwitchWordRam, HoldSub, Load, Untouched, vars, gateVars
<1>3. CASE ReadHostData \/ Trigger \/ WriteDmaAddress
  BY <1>3, ReadKeepsHand, TriggerKeepsHand, AddressKeepsHand
<1>4. CASE \/ \E bytes \in 1..MaxBytes : WriteCounter(bytes)
           \/ Acknowledge \/ ResetDecoder
           \/ \E out \in BOOLEAN : WriteIfctrl(out)
  BY <1>4, RegistersKeepHand
<1>5. CASE \E new \in Destinations : SelectDestination(new)
  BY <1>5, SelectKeepsHand
<1> QED BY <1>1, <1>2, <1>3, <1>4, <1>5 DEF Next

LEMMA HandTellsBytes == HandContext => EachByteOnce
<1> SUFFICES ASSUME HandContext PROVE EachByteOnce
  OBVIOUS
<1>1. CASE dsr
  <2>1. given \in Nat /\ given >= 2 /\ moved = Upto(given - 2) /\ InHand = <<given - 1, given>>
    BY <1>1 DEF HandContext, HandInv, InHand
  <2> DEFINE n == given - 2
  <2>2. n \in Nat /\ given - 1 = n + 1 /\ given = n + 2
    BY <2>1
  <2>3. Upto(n) \o <<n + 1, n + 2>> = Upto(n + 2)
    BY <2>2, UptoWord
  <2> QED BY <2>1, <2>2, <2>3 DEF EachByteOnce, Upto
<1>2. CASE ~dsr /\ low /\ dest # "pcm"
  <2>1. /\ given \in Nat /\ given >= 1 /\ moved = Upto(given - 1) /\ host_data[1] = given
        /\ InHand = <<host_data[1]>>
    BY <1>2 DEF HandContext, HandInv, InHand
  <2>3. InHand = <<given>>
    BY <2>1
  <2>4. moved \o <<given>> = Append(moved, given)
    BY <2>1, UptoSeq
  <2> DEFINE n == given - 1
  <2>5. n \in Nat /\ given = n + 1
    BY <2>1
  <2>6. Append(Upto(n), n + 1) = Upto(n + 1)
    BY <2>5, UptoAppend
  <2> QED BY <2>1, <2>3, <2>4, <2>5, <2>6 DEF EachByteOnce, Upto
<1>3. CASE ~dsr /\ ~(low /\ dest # "pcm")
  <2>1. given \in Nat /\ moved = Upto(given) /\ InHand = <<>>
    BY <1>3 DEF HandContext, HandInv, InHand
  <2>2. moved \o <<>> = moved
    BY <2>1, UptoSeq
  <2> QED BY <2>1, <2>2 DEF EachByteOnce, Upto
<1> QED BY <1>1, <1>2, <1>3

\* Of a transfer of any length every byte arrives once and in order, over all
\* pauses and resumptions (handle_cdc_byte, lc8951_run), when the program writes
\* the address of the transfer between two words at most: the write clears
\* cdc_dst_low.
THEOREM BytesOnce ==
  ASSUME Unexposed
  PROVE  Spec => []EachByteOnce
<1>1. Init => HandContext
  BY Initially, HandInitial DEF HandContext
<1>2. HandContext /\ [Next]_vars => HandContext'
  BY Step, HandStep DEF HandContext
<1> QED BY <1>1, <1>2, HandTellsBytes, PTL DEF Spec
=============================================================================
