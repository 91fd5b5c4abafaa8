------------------------------ MODULE WordRam ------------------------------
(***************************************************************************)
(* Memory the two CPUs of a Sega CD hand to each other (segacd.c): word    *)
(* RAM, whole in 2M mode and as two banks in 1M mode, and the program RAM  *)
(* of the sub CPU, which the main CPU reaches while the sub CPU is held.   *)
(* The registers say who has what; mem_pointers are what the CPUs really   *)
(* reach, and are changed on the spot.  SegaCD adds the decoder that       *)
(* writes to both memories.                                                *)
(***************************************************************************)
EXTENDS Naturals

CONSTANTS
  Banks,    \* program RAM banks the main CPU selects from
  Exposed   \* situations that may arise

NoBank == "none"

VARIABLES
  mode_1M, ret, dmna,  \* bits of GA_MEM_MODE
  prog_bank,           \* MASK_PROG_BANK of GA_MEM_MODE
  main_has_word2m, bank_toggle, main_swap_request,
  sub_paused_wordram,
  busreq, reset,       \* reset is active low
  need_reset,
  main_word,           \* the main CPU's pointers to word RAM are not NULL
  sub_word,            \* the sub CPU's pointer to all of word RAM is not NULL
  sub_bank,            \* the bank its other pointer points to
  main_prog            \* the bank the main CPU's pointer to program RAM points to

modeVars == <<mode_1M, ret, dmna, prog_bank, main_has_word2m, bank_toggle, main_swap_request>>
wordMap == <<main_word, sub_word, sub_bank>>
subVars == <<sub_paused_wordram, busreq, reset, need_reset>>
memoryVars == <<modeVars, wordMap, subVars, main_prog>>

can_main_access_prog == busreq \/ ~reset

\* The words of word RAM the sub CPU has in 1M mode.
BankOf(toggle) == IF toggle THEN "even" ELSE "odd"

MemoryTypeOK ==
  /\ {mode_1M, ret, dmna, main_has_word2m, bank_toggle, main_swap_request} \subseteq BOOLEAN
  /\ {sub_paused_wordram, busreq, reset, need_reset, main_word, sub_word} \subseteq BOOLEAN
  /\ prog_bank \in Banks /\ main_prog \in Banks \cup {NoBank}
  /\ sub_bank \in {"even", "odd", NoBank}

MemoryInit ==
  /\ mode_1M = FALSE /\ ret = TRUE /\ dmna = FALSE
  /\ main_has_word2m = TRUE /\ bank_toggle = FALSE /\ main_swap_request = FALSE
  /\ sub_paused_wordram = FALSE /\ busreq = TRUE /\ reset = TRUE /\ need_reset = TRUE
  /\ main_word = TRUE /\ sub_word = FALSE /\ sub_bank = NoBank
  /\ prog_bank \in Banks /\ main_prog = prog_bank

SubCanRun == ~can_main_access_prog /\ ~sub_paused_wordram
SubRuns == SubCanRun /\ ~need_reset
-----------------------------------------------------------------------------
(* The sub CPU. *)

ResetSub ==
  /\ SubCanRun /\ need_reset /\ need_reset' = FALSE
  /\ UNCHANGED <<modeVars, wordMap, main_prog, sub_paused_wordram, busreq, reset>>

\* A write to word RAM in 2M mode while the main CPU has it: the sub CPU stops
\* until it is handed over (word_ram_2M_write8).
SubWritesWordRam ==
  /\ SubRuns /\ ~sub_word /\ ~mode_1M
  /\ sub_paused_wordram' = TRUE
  /\ UNCHANGED <<modeVars, wordMap, main_prog, busreq, reset, need_reset>>

\* 1M mode: each CPU has a bank, the toggle says which, and DMNA tells that the
\* main CPU asked for a swap that was not made.
To1M(new_ret) ==
  /\ mode_1M' = TRUE /\ ret' = new_ret
  /\ main_swap_request' = IF mode_1M THEN main_swap_request /\ bank_toggle = new_ret
                          ELSE new_ret /\ ~bank_toggle
  /\ dmna' = main_swap_request'
  /\ IF mode_1M THEN UNCHANGED <<main_word, sub_word>> ELSE main_word' = FALSE /\ sub_word' = FALSE
  /\ sub_bank' = IF mode_1M /\ bank_toggle = new_ret THEN sub_bank ELSE BankOf(new_ret)

\* Mutant: a change of mode gives word RAM to the CPU that made it.
ToSub == main_word' = FALSE /\ sub_word' = TRUE

\* In 2M mode who has word RAM is a matter of main_has_word2m.
ToOwner ==
  IF mode_1M \/ main_has_word2m' # main_has_word2m
  THEN main_word' = main_has_word2m' /\ sub_word' = ~main_has_word2m'
  ELSE UNCHANGED <<main_word, sub_word>>

To2M(new_ret) ==
  /\ mode_1M' = FALSE /\ ret' = main_has_word2m' /\ dmna' = ~main_has_word2m'
  /\ main_swap_request' = IF mode_1M THEN new_ret /\ ~bank_toggle ELSE main_swap_request
  /\ ToOwner
  /\ sub_bank' = IF mode_1M THEN NoBank ELSE sub_bank

\* sub_gate_write16, GA_MEM_MODE.
SubWritesMemMode(new_mode, new_ret) ==
  /\ SubRuns
  /\ main_has_word2m' = (main_has_word2m \/ new_ret)
  /\ bank_toggle' = new_ret
  /\ \/ new_mode /\ To1M(new_ret)
     \/ ~new_mode /\ To2M(new_ret)
  /\ UNCHANGED <<prog_bank, subVars, main_prog>>
-----------------------------------------------------------------------------
(* The main CPU. *)

HandsOver(new_dmna) == ~mode_1M /\ new_dmna /\ ~dmna

\* Mutant: nobody wakes the sub CPU.
GiveQuietly ==
  /\ dmna' = TRUE /\ ret' = FALSE /\ main_has_word2m' = FALSE
  /\ main_word' = FALSE /\ sub_word' = TRUE
  /\ UNCHANGED <<main_swap_request, sub_bank, sub_paused_wordram>>

\* In 2M mode a rising DMNA hands word RAM to the sub CPU, which goes on if it
\* waited for it.
GiveWordRam ==
  /\ dmna' = TRUE /\ ret' = FALSE /\ main_has_word2m' = FALSE
  /\ main_word' = FALSE /\ sub_word' = TRUE
  /\ sub_paused_wordram' = FALSE
  /\ UNCHANGED <<main_swap_request, sub_bank>>

\* In 1M mode a clear DMNA asks for a swap, a set one leaves word RAM to the sub
\* CPU for when 2M mode is back.
AskForSwap(new_dmna) ==
  /\ dmna' = (dmna \/ ~new_dmna) /\ main_swap_request' = (main_swap_request \/ ~new_dmna)
  /\ main_has_word2m' = (main_has_word2m /\ ~new_dmna)
  /\ UNCHANGED <<ret, wordMap, sub_paused_wordram>>

\* main_gate_write16, GA_MEM_MODE; for a byte write to the upper half new_dmna
\* and new_bank are what the register holds (main_gate_write8).
MainWritesMemMode(new_dmna, new_bank) ==
  /\ \/ HandsOver(new_dmna) /\ GiveWordRam
     \/ mode_1M /\ AskForSwap(new_dmna)
     \/ /\ ~mode_1M /\ ~HandsOver(new_dmna)
        /\ UNCHANGED <<dmna, ret, main_has_word2m, main_swap_request, wordMap, sub_paused_wordram>>
  /\ prog_bank' = new_bank
  /\ main_prog' = IF new_bank # prog_bank /\ can_main_access_prog THEN new_bank ELSE main_prog
  /\ UNCHANGED <<mode_1M, bank_toggle, busreq, reset, need_reset>>

ReleasesProg(new_busreq, new_reset) == can_main_access_prog /\ ~new_busreq /\ new_reset

\* main_gate_write16, GA_SUB_CPU_CTRL.
MainWritesSubCtrl(new_busreq, new_reset) ==
  /\ busreq' = new_busreq /\ reset' = new_reset
  /\ need_reset' = (need_reset \/ (new_reset /\ ~reset))
  /\ main_prog' = IF ~can_main_access_prog' THEN NoBank
                  ELSE IF can_main_access_prog THEN main_prog ELSE prog_bank
  /\ UNCHANGED <<modeVars, wordMap, sub_paused_wordram>>
-----------------------------------------------------------------------------
(* Save states hold the registers and flags.  A load rebuilds the pointers to  *)
(* word RAM from them; that to program RAM stays as this machine has it.       *)

RebuildMap ==
  /\ main_word' = (~mode_1M /\ main_has_word2m)
  /\ sub_word' = (~mode_1M /\ ~main_has_word2m)
  /\ sub_bank' = IF mode_1M THEN BankOf(bank_toggle) ELSE NoBank

LoadMemory ==
  /\ RebuildMap
  /\ main_prog' \in IF "load_prog" \in Exposed THEN Banks \cup {NoBank} ELSE {main_prog}
  /\ UNCHANGED <<modeVars, subVars>>
-----------------------------------------------------------------------------
\* What the CPUs reach is what the registers say, at every moment: one of them
\* has word RAM in 2M mode and both see so in RET and DMNA, each has its bank in
\* 1M mode, and the main CPU reaches the program RAM bank it selected while the
\* sub CPU is held.  Handlers change the pointers one by one
\* (sub_gate_write16, main_gate_write16); gate_array_deserialize relies on it.
MapMatchesRegisters ==
  /\ main_word = (~mode_1M /\ main_has_word2m) /\ sub_word = (~mode_1M /\ ~main_has_word2m)
  /\ sub_bank = IF mode_1M THEN BankOf(bank_toggle) ELSE NoBank
  /\ main_prog = IF can_main_access_prog THEN prog_bank ELSE NoBank
  /\ IF mode_1M THEN ret = bank_toggle /\ dmna = main_swap_request
     ELSE ret = main_has_word2m /\ dmna = ~main_has_word2m

\* A sub CPU that waits for word RAM can be released: the main CPU has it, a write
\* of DMNA is a rising one, and no reset waits behind the pause (scd_run).
PausedCanResume ==
  sub_paused_wordram => main_word /\ ~mode_1M /\ ~dmna /\ ~need_reset
=============================================================================
