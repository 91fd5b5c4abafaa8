-------------------------- MODULE AudioSyncProofs --------------------------
(***************************************************************************)
(* Theorems about AudioSync, for every set of chips, every buffer size and *)
(* every lead.                                                             *)
(***************************************************************************)
EXTENDS AudioSync, SequencesExt, WellFoundedInduction, TLAPS

-----------------------------------------------------------------------------
(* Numbers.                                                                    *)

LEMMA LessOnNaturals ==
  \A x, y \in Nat : <<x, y>> \in OpToRel(<, Nat) <=> x < y
<1>1. OpToRel(<, Nat) = {p \in Nat \X Nat : p[1] < p[2]}
  BY DEF OpToRel
<1> QED BY <1>1

\* A set of naturals has a least element, and Min of FiniteSetsExt picks it.
LEMMA MinOfNaturals ==
  ASSUME NEW S \in SUBSET Nat, S # {}
  PROVE  Min(S) \in S /\ \A x \in S : Min(S) <= x
<1> DEFINE R == OpToRel(<, Nat)
<1>1. \A x, y \in Nat : <<x, y>> \in R <=> x < y
  BY LessOnNaturals
<1>2. IsWellFoundedOn(R, Nat)
  BY NatLessThanWellFounded
<1> HIDE DEF R
<1>3. PICK x \in S : \A y \in S : ~(<<y, x>> \in R)
  BY <1>2, WFMin
<1>4. \A y \in S : ~(y < x)
  BY <1>1, <1>3, Zenon
<1>5. \A y \in S : x <= y
  BY ONLY <1>4, S \subseteq Nat, x \in S
<1>6. \E z \in S : \A y \in S : z <= y
  BY <1>5
<1> QED BY <1>6 DEF Min
-----------------------------------------------------------------------------

(* The inductive invariant. *)

Blocked == emulator.at \in {"full", "waiting", "woken"}

\* Who is blocked is an active source that has filled its back buffer.
BlockedInv ==
  Blocked => emulator.src \in active /\ buffer_pos[emulator.src] >= BufferSamples

\* Only audio_deadlock_hack leaves a source at the end of its buffer, with its
\* front buffer full until the callback takes it together with the caller's;
\* whoever puts to it then finds the front buffer free.
LateInv ==
  \A s \in Sources :
    /\ buffer_pos[s] > BufferSamples =>
         emulator = [at |-> "full", src |-> s] /\ ~front_populated[s]
    /\ (buffer_pos[s] = BufferSamples /\ front_populated[s]) =>
         Blocked /\ (s = emulator.src \/ (s \in active /\ front_populated[emulator.src]))

\* The others are there only while they are blocked for it.
OwnSlotInv ==
  \A s \in Sources \ hacked :
    buffer_pos[s] >= BufferSamples => Blocked /\ emulator.src = s

AudioInv == TypeOK /\ BlockedInv /\ LateInv /\ WholeBuffers /\ OwnSlotInv
-----------------------------------------------------------------------------
LEMMA AudioInit == Init => AudioInv
<1> SUFFICES ASSUME Init PROVE AudioInv
  OBVIOUS
<1> USE AudioAssumption DEF AudioAssumption, Init
<1>1. TypeOK
  <2>1. front \in [Sources -> SUBSET Slots] /\ back \in [Sources -> SUBSET Slots]
    OBVIOUS
  <2>2. buffer_pos \in [Sources -> 0..(BufferSamples + 1)] /\ lead \in [Sources -> 0..MaxLead]
    OBVIOUS
  <2>3. emulator \in [at : EmulatorPlaces, src : Sources]
    BY DEF EmulatorPlaces
  <2> QED BY <2>1, <2>2, <2>3 DEF TypeOK
<1>2. BlockedInv /\ LateInv /\ OwnSlotInv
  BY DEF BlockedInv, LateInv, OwnSlotInv, Blocked
<1>3. WholeBuffers
  BY DEF WholeBuffers, Slots
<1> QED BY <1>1, <1>2, <1>3 DEF AudioInv

\* One more sample: the leads over the slowest source stay within their bound.
LEMMA LeadBound ==
  ASSUME NEW A, NEW s \in A, NEW ahead, NEW M, M = {ahead[r] : r \in A},
         \A r \in A : ahead[r] \in Nat,
         \A r \in A : r # s => ahead[r] <= MaxLead,
         ahead[s] - Min(M) <= MaxLead
  PROVE  \A r \in A : ahead[r] - Min(M) \in 0..MaxLead
<1> DEFINE least == Min(M)
<1>1. MaxLead \in Nat
  BY AudioAssumption DEF AudioAssumption
<1>2. M \in SUBSET Nat /\ M # {} /\ \A r \in A : ahead[r] \in M
  OBVIOUS
<1>3. least \in M /\ \A x \in M : least <= x
  BY ONLY <1>2, MinOfNaturals
<1>4. ahead[s] - least <= MaxLead
  OBVIOUS
<1> HIDE DEF least
<1>5. least \in Nat /\ \A r \in A : least <= ahead[r]
  BY ONLY <1>2, <1>3
<1>6. ASSUME NEW r \in A
      PROVE  ahead[r] - least \in 0..MaxLead
  <2>1. ahead[r] \in Nat /\ (r # s => ahead[r] <= MaxLead) /\ least <= ahead[r]
    BY <1>5
  <2>2. CASE r = s
    BY ONLY <1>1, <1>4, <1>5, <2>1, <2>2
  <2>3. CASE r # s
    BY ONLY <1>1, <1>5, <2>1, <2>3
  <2> QED BY <2>2, <2>3
<1> QED BY <1>6 DEF least

LEMMA PutPreserves ==
  ASSUME AudioInv, NEW s \in Sources, Put(s)
  PROVE  AudioInv'
<1> USE AudioAssumption DEF AudioAssumption, AudioInv
<1>1. /\ At("running") /\ s \in active
      /\ buffer_pos' = [buffer_pos EXCEPT ![s] = @ + 1]
      /\ back' = [back EXCEPT ![s] = @ \cup ({buffer_pos[s] + 1} \cap Slots)]
      /\ emulator' = [at |-> IF Full(buffer_pos[s] + 1) THEN "full" ELSE "running", src |-> s]
      /\ UNCHANGED <<active, front, front_populated, hacked, deviceVars>>
  BY DEF Put
<1>2. /\ buffer_pos \in [Sources -> 0..(BufferSamples + 1)]
      /\ \A r \in Sources : buffer_pos[r] <= BufferSamples
      /\ buffer_pos[s] = BufferSamples => ~front_populated[s]
  BY <1>1 DEF TypeOK, LateInv, At, Blocked
<1>3. lead' \in [Sources -> 0..MaxLead]
  <2> DEFINE ahead == [r \in Sources |-> IF r \in active THEN lead[r] + IF r = s THEN 1 ELSE 0 ELSE 0]
             M == {ahead[r] : r \in active}
  <2>1. /\ ahead[s] - Min(M) <= MaxLead
        /\ lead' = [r \in Sources |-> IF r \in active THEN ahead[r] - Min(M) ELSE 0]
    BY ONLY Put(s), Zenon DEF Put
  <2>2. \A r \in active : ahead[r] \in Nat /\ (r # s => ahead[r] <= MaxLead)
    BY <1>1 DEF TypeOK
  <2>3. M = {ahead[r] : r \in active}
    OBVIOUS
  <2> HIDE DEF ahead, M
  <2>4. \A r \in active : ahead[r] - Min(M) \in 0..MaxLead
    BY <1>1, <2>1, <2>2, <2>3, LeadBound
  <2> QED BY ONLY <2>1, <2>4, AudioAssumption DEF AudioAssumption
<1>4. TypeOK'
  BY <1>1, <1>2, <1>3 DEF TypeOK, EmulatorPlaces, deviceVars, Slots
<1>5. BlockedInv' /\ OwnSlotInv'
  BY <1>1, <1>2 DEF BlockedInv, OwnSlotInv, Blocked, Full, At, TypeOK
<1>6. LateInv'
  BY <1>1, <1>2 DEF LateInv, Blocked, Full, At, TypeOK
<1>7. WholeBuffers'
  <2> SUFFICES ASSUME NEW r \in Sources \ hacked
               PROVE  /\ front[r] = IF front_populated[r] THEN Slots ELSE {}
                      /\ back'[r] = 1..buffer_pos'[r]
    BY <1>1 DEF WholeBuffers
  <2>1. buffer_pos[r] < BufferSamples
    BY <1>1, <1>2 DEF OwnSlotInv, At, Blocked
  <2>2. buffer_pos[r] + 1 \in Slots
    BY <1>2, <2>1 DEF Slots
  <2>3. 1..(buffer_pos[r] + 1) = (1..buffer_pos[r]) \cup {buffer_pos[r] + 1}
    BY <1>2
  <2>4. /\ front[r] = IF front_populated[r] THEN Slots ELSE {}
        /\ back[r] = 1..buffer_pos[r]
    BY DEF WholeBuffers
  <2>5. CASE r = s
    BY <1>1, <1>2, <2>2, <2>3, <2>4, <2>5 DEF TypeOK
  <2>6. CASE r # s
    BY <1>1, <1>2, <2>4, <2>6 DEF TypeOK
  <2> QED BY <2>5, <2>6
<1> QED BY <1>4, <1>5, <1>6, <1>7

LEMMA FillPreserves ==
  ASSUME AudioInv, NEW s \in Sources,
         Blocked, emulator.at # "waiting", emulator.src = s, ~front_populated[s],
         Fill(s)
  PROVE  AudioInv'
<1> USE AudioAssumption DEF AudioAssumption, AudioInv
<1>1. /\ front' = [front EXCEPT ![s] = back[s]]
      /\ back' = [back EXCEPT ![s] = front[s]]
      /\ front_populated' = [front_populated EXCEPT ![s] = TRUE]
      /\ buffer_pos' = [buffer_pos EXCEPT ![s] = 0]
      /\ callback' = IF callback = "waiting" THEN "checking" ELSE callback
      /\ emulator' = [emulator EXCEPT !.at = "running"]
      /\ UNCHANGED <<active, lead, hacked, paused, quitting>>
  BY DEF Fill, PositionReset, Signalled, GoTo
<1>2. TypeOK'
  BY <1>1 DEF TypeOK, EmulatorPlaces
<1>3. BlockedInv' /\ OwnSlotInv'
  BY <1>1 DEF BlockedInv, OwnSlotInv, Blocked, TypeOK
<1>4. LateInv'
  BY <1>1 DEF LateInv, Blocked, TypeOK
<1>5. WholeBuffers'
  <2>1. s \notin hacked => back[s] = Slots /\ front[s] = {}
    <3> SUFFICES ASSUME s \notin hacked PROVE buffer_pos[s] = BufferSamples
      BY DEF WholeBuffers, Slots
    <3>1. buffer_pos[s] \in Nat /\ buffer_pos[s] >= BufferSamples
      BY DEF BlockedInv, TypeOK
    <3>2. 1..buffer_pos[s] \in SUBSET Slots
      BY DEF WholeBuffers, TypeOK
    <3> QED BY <3>1, <3>2 DEF Slots
  <2> SUFFICES ASSUME NEW r \in Sources \ hacked
               PROVE  /\ front'[r] = IF front_populated'[r] THEN Slots ELSE {}
                      /\ back'[r] = 1..buffer_pos'[r]
    BY <1>1 DEF WholeBuffers
  <2>2. CASE r = s
    BY <1>1, <2>1, <2>2 DEF TypeOK
  <2>3. CASE r # s
    BY <1>1, <2>3 DEF WholeBuffers, TypeOK
  <2> QED BY <2>2, <2>3
<1> QED BY <1>2, <1>3, <1>4, <1>5

LEMMA HackPreserves ==
  ASSUME AudioInv, NEW s \in Sources,
         emulator = [at |-> "full", src |-> s], front_populated[s],
         AudioDeadlockHack, GoTo("waiting"),
         UNCHANGED <<active, lead, paused, quitting>>
  PROVE  AudioInv'
<1> USE AudioAssumption DEF AudioAssumption, AudioInv
<1> DEFINE m == Min({buffer_pos[r] : r \in active \ Late})
<1>1. /\ front' = [r \in Sources |-> IF r \in Late THEN back[r] ELSE front[r]]
      /\ back' = [r \in Sources |-> IF r \in Late THEN front[r] ELSE back[r]]
      /\ front_populated' = [r \in Sources |-> r \in Late \/ front_populated[r]]
      /\ buffer_pos' = [r \in Sources |-> IF r \in Late THEN m ELSE buffer_pos[r]]
      /\ hacked' = hacked \cup Late
      /\ callback' = IF Late # {} THEN Signalled ELSE callback
  BY ONLY AudioDeadlockHack, Zenon DEF AudioDeadlockHack
<1>2. /\ s \in active \ Late
      /\ buffer_pos[s] = BufferSamples
      /\ Late \subseteq active
      /\ \A r \in Sources : buffer_pos[r] <= BufferSamples
  <2>1. s \in active /\ buffer_pos[s] >= BufferSamples
    BY DEF BlockedInv, Blocked
  <2>2. \A r \in Sources : ~(buffer_pos[r] > BufferSamples)
    <3> SUFFICES ASSUME NEW r \in Sources, buffer_pos[r] > BufferSamples
                 PROVE  FALSE
      OBVIOUS
    <3>1. emulator.src = r /\ ~front_populated[r]
      BY DEF LateInv
    <3> QED BY <3>1
  <2>3. \A r \in Sources : buffer_pos[r] \in Nat
    BY DEF TypeOK
  <2> QED BY <2>1, <2>2, <2>3 DEF Late
<1>3. m \in 0..BufferSamples
  <2> DEFINE M == {buffer_pos[r] : r \in active \ Late}
  <2>1. M \in SUBSET Nat /\ M # {} /\ BufferSamples \in M
    BY <1>2 DEF TypeOK
  <2> HIDE DEF M
  <2>2. Min(M) \in M /\ \A x \in M : Min(M) <= x
    BY ONLY <2>1, MinOfNaturals
  <2>3. Min(M) \in 0..BufferSamples
    <3>1. Min(M) \in Nat /\ BufferSamples \in Nat /\ Min(M) <= BufferSamples
      BY ONLY <2>1, <2>2, Zenon
    <3> QED BY ONLY <3>1
  <2> QED BY <2>3 DEF M
<1> HIDE DEF m
<1>4. emulator' = [at |-> "waiting", src |-> s]
  BY DEF GoTo
<1>5. TypeOK'
  BY <1>1, <1>2, <1>3, <1>4 DEF TypeOK, EmulatorPlaces, Signalled
<1>6. BlockedInv'
  BY <1>1, <1>2, <1>4 DEF BlockedInv, Blocked, TypeOK
<1>7. OwnSlotInv'
  BY <1>1, <1>2, <1>4 DEF OwnSlotInv, Blocked, TypeOK
<1>8. LateInv'
  <2> SUFFICES ASSUME NEW r \in Sources
               PROVE  /\ buffer_pos'[r] <= BufferSamples
                      /\ (buffer_pos'[r] = BufferSamples /\ front_populated'[r]) =>
                           r = s \/ (r \in active /\ front_populated'[s])
    <3>1. \A r \in Sources : buffer_pos'[r] \in Nat
      BY <1>5 DEF TypeOK
    <3>2. Blocked' /\ emulator'.src = s
      BY <1>4 DEF Blocked
    <3> QED BY <1>1, <3>1, <3>2 DEF LateInv
  <2>1. CASE r \in Late
    BY <1>1, <1>2, <1>3, <2>1
  <2>2. CASE r \notin Late
    BY <1>1, <1>2, <2>2 DEF LateInv, Blocked, TypeOK
  <2> QED BY <2>1, <2>2
<1>9. WholeBuffers'
  BY <1>1 DEF WholeBuffers, TypeOK
<1> QED BY <1>5, <1>6, <1>7, <1>8, <1>9

LEMMA MixPreserves ==
  ASSUME AudioInv, MixAndConvert
  PROVE  AudioInv'
<1> USE AudioAssumption DEF AudioAssumption, AudioInv, MixAndConvert
<1>1. /\ emulator' \in [at : EmulatorPlaces, src : Sources]
      /\ emulator'.src = emulator.src
      /\ emulator'.at = emulator.at \/ (emulator.at = "waiting" /\ emulator'.at = "woken")
  BY DEF At, GoTo, TypeOK, EmulatorPlaces
<1>2. Blocked' <=> Blocked
  BY <1>1 DEF Blocked
<1>3. TypeOK'
  BY <1>1 DEF TypeOK
<1>4. BlockedInv' /\ OwnSlotInv'
  BY <1>1, <1>2 DEF BlockedInv, OwnSlotInv
<1>5. LateInv'
  <2> SUFFICES ASSUME NEW r \in Sources
               PROVE  /\ buffer_pos[r] > BufferSamples =>
                           emulator' = [at |-> "full", src |-> r] /\ ~front_populated'[r]
                      /\ ~(buffer_pos[r] = BufferSamples /\ front_populated'[r])
    BY DEF LateInv
  <2>1. buffer_pos[r] > BufferSamples => emulator' = [at |-> "full", src |-> r] /\ ~front_populated'[r]
    <3> SUFFICES ASSUME buffer_pos[r] > BufferSamples
                 PROVE  emulator' = [at |-> "full", src |-> r] /\ ~front_populated'[r]
      OBVIOUS
    <3>1. emulator = [at |-> "full", src |-> r] /\ ~front_populated[r]
      BY DEF LateInv
    <3>2. ~At("waiting")
      BY <3>1 DEF At
    <3> QED BY <3>1, <3>2
  <2>2. ~(buffer_pos[r] = BufferSamples /\ front_populated'[r])
    BY DEF LateInv, BlockedInv
  <2> QED BY <2>1, <2>2
<1>6. WholeBuffers'
  BY DEF WholeBuffers, TypeOK
<1> QED BY <1>3, <1>4, <1>5, <1>6

\* Where no buffer changes, only the places of the two threads and the set of
\* active sources can disturb the invariant.
LEMMA BuffersUnchanged ==
  ASSUME AudioInv, TypeOK',
         UNCHANGED <<front, back, front_populated, buffer_pos, hacked>>,
         Blocked <=> Blocked', emulator'.src = emulator.src,
         emulator'.at = emulator.at \/ (~Blocked /\ ~Blocked')
           \/ (emulator.at \in {"waiting", "woken"} /\ emulator'.at \in {"waiting", "woken"}),
         Blocked => active' = active
  PROVE  AudioInv'
<1> USE DEF AudioInv
<1>1. BlockedInv'
  BY DEF BlockedInv
<1>2. OwnSlotInv' /\ WholeBuffers'
  BY DEF OwnSlotInv, WholeBuffers
<1>3. LateInv'
  <2> SUFFICES ASSUME NEW r \in Sources
               PROVE  /\ buffer_pos[r] > BufferSamples =>
                           emulator' = [at |-> "full", src |-> r] /\ ~front_populated[r]
                      /\ (buffer_pos[r] = BufferSamples /\ front_populated[r]) =>
                           Blocked' /\ (r = emulator'.src \/ (r \in active' /\ front_populated[emulator'.src]))
    BY DEF LateInv
  <2>1. ASSUME buffer_pos[r] > BufferSamples
        PROVE  emulator' = [at |-> "full", src |-> r]
    <3>1. emulator = [at |-> "full", src |-> r]
      BY <2>1 DEF LateInv
    <3>2. emulator'.at = "full" /\ emulator'.src = r
      BY <3>1 DEF Blocked
    <3> QED BY <3>2 DEF TypeOK
  <2> QED BY <2>1 DEF LateInv
<1> QED BY <1>1, <1>2, <1>3

LEMMA AudioNext == AudioInv /\ [Next]_vars => AudioInv'
<1> SUFFICES ASSUME AudioInv, [Next]_vars PROVE AudioInv'
  OBVIOUS
<1>t. /\ TypeOK
      /\ emulator \in [at : EmulatorPlaces, src : Sources]
  BY DEF AudioInv, TypeOK
<1>1. ASSUME NEW s \in Sources, Put(s) PROVE AudioInv'
  BY <1>1, PutPreserves
<1>2. ASSUME NEW s \in Sources, PauseSource(s) PROVE AudioInv'
  <2>1. TypeOK'
    BY <1>t, <1>2, AudioAssumption DEF AudioAssumption, TypeOK, PauseSource, GoTo, EmulatorPlaces, deviceVars
  <2> QED BY <1>t, <1>2, <2>1, BuffersUnchanged DEF PauseSource, GoTo, At, Blocked
<1>3. ASSUME NEW s \in Sources, ResumeSource(s) PROVE AudioInv'
  <2>1. TypeOK'
    BY <1>t, <1>3 DEF TypeOK, ResumeSource, GoTo, EmulatorPlaces, deviceVars, bufferVars
  <2> QED BY <1>t, <1>3, <2>1, BuffersUnchanged DEF bufferVars, ResumeSource, GoTo, At, Blocked
<1>4. ASSUME NEW s \in Sources, DoAudioReady(s) PROVE AudioInv'
  <2>1. CASE front_populated[s]
    BY <1>4, <2>1, HackPreserves DEF DoAudioReady
  <2>2. CASE ~front_populated[s]
    BY <1>4, <2>2, FillPreserves DEF DoAudioReady, Blocked
  <2> QED BY <2>1, <2>2
<1>5. ASSUME NEW s \in Sources, WokenUp(s) PROVE AudioInv'
  <2>1. CASE FrontFree(s)
    BY <1>5, <2>1, FillPreserves DEF WokenUp, FrontFree, Blocked
  <2>2. CASE ~FrontFree(s)
    <3>1. emulator' = [emulator EXCEPT !.at = "waiting"] /\ emulator.at = "woken"
          /\ UNCHANGED <<active, bufferVars, deviceVars>>
      BY <1>5, <2>2 DEF WokenUp, GoTo
    <3>2. TypeOK'
      BY <1>t, <3>1 DEF TypeOK, EmulatorPlaces, deviceVars, bufferVars
    <3> QED BY <1>t, <3>1, <3>2, BuffersUnchanged DEF bufferVars, Blocked
  <2> QED BY <2>1, <2>2
<1>6. CASE SourcePaused
  <2>1. TypeOK'
    BY <1>t, <1>6 DEF TypeOK, SourcePaused, Signalled, GoTo, EmulatorPlaces, bufferVars
  <2> QED BY <1>t, <1>6, <2>1, BuffersUnchanged DEF bufferVars, SourcePaused, GoTo, At, Blocked
<1>7. CASE SourceResumed
  <2>1. TypeOK'
    BY <1>t, <1>7 DEF TypeOK, SourceResumed, GoTo, EmulatorPlaces, bufferVars, deviceVars
  <2> QED BY <1>t, <1>7, <2>1, BuffersUnchanged DEF bufferVars, SourceResumed, GoTo, At, Blocked
<1>8. CASE PauseAudio
  <2>1. TypeOK'
    BY <1>t, <1>8 DEF TypeOK, PauseAudio, At, GoTo, EmulatorPlaces, bufferVars
  <2> QED BY <1>t, <1>8, <2>1, BuffersUnchanged DEF bufferVars, PauseAudio, GoTo, At, Blocked
<1>9. CASE CloseAudio
  <2>1. TypeOK'
    BY <1>t, <1>9 DEF TypeOK, CloseAudio, Signalled, GoTo, EmulatorPlaces, bufferVars
  <2> QED BY <1>t, <1>9, <2>1, BuffersUnchanged DEF bufferVars, CloseAudio, GoTo, At, Blocked
<1>10. CASE ReopenAudio
  <2>1. TypeOK'
    BY <1>t, <1>10 DEF TypeOK, ReopenAudio, GoTo, EmulatorPlaces, bufferVars
  <2> QED BY <1>t, <1>10, <2>1, BuffersUnchanged DEF bufferVars, ReopenAudio, GoTo, At, Blocked
<1>11. CASE EnterCallback \/ WaitForSources \/ CallbackQuits
  <2>1. callback' \in {"idle", "checking", "waiting"}
        /\ UNCHANGED <<active, bufferVars, emulator, paused, quitting>>
    BY <1>11 DEF EnterCallback, WaitForSources, CallbackQuits
  <2>2. TypeOK'
    BY <1>t, <2>1 DEF TypeOK, bufferVars
  <2> QED BY <2>1, <2>2, BuffersUnchanged DEF bufferVars, Blocked
<1>12. CASE MixAndConvert
  BY <1>12, MixPreserves
<1>13. CASE SpuriousWakeup
  <2>1. CASE /\ At("waiting") /\ GoTo("woken")
             /\ UNCHANGED <<active, bufferVars, deviceVars>>
    <3>1. TypeOK'
      BY <1>t, <2>1 DEF TypeOK, GoTo, EmulatorPlaces, bufferVars, deviceVars
    <3> QED BY <1>t, <2>1, <3>1, BuffersUnchanged DEF bufferVars, GoTo, At, Blocked
  <2>2. CASE /\ callback = "waiting" /\ callback' = "checking"
             /\ UNCHANGED <<active, bufferVars, emulator, paused, quitting>>
    <3>1. TypeOK'
      BY <1>t, <2>2 DEF TypeOK, bufferVars
    <3> QED BY <2>2, <3>1, BuffersUnchanged DEF bufferVars, Blocked
  <2> QED BY <1>13, <2>1, <2>2 DEF SpuriousWakeup
<1>14. CASE UNCHANGED vars
  <2>1. TypeOK'
    BY <1>t, <1>14 DEF TypeOK, vars, bufferVars, deviceVars
  <2> QED BY <1>14, <2>1, BuffersUnchanged DEF bufferVars, vars, Blocked
<1> QED BY <1>1, <1>2, <1>3, <1>4, <1>5, <1>6, <1>7, <1>8, <1>9, <1>10, <1>11, <1>12, <1>13, <1>14
        DEF Next, AudioReady, Device, Callback

LEMMA AudioInvariant == Spec => []AudioInv
<1> QED BY AudioInit, AudioNext, PTL DEF Spec
-----------------------------------------------------------------------------
\* The variables stay within their types: no buffer position passes the end of
\* a buffer by more than one, audio_deadlock_hack included.
THEOREM AudioTypeCorrect == Spec => []TypeOK
<1>1. AudioInv => TypeOK
  BY DEF AudioInv
<1> QED BY <1>1, AudioInvariant, PTL

\* No sample is lost or mixed twice: a front buffer is whole and fresh whenever
\* it counts as populated, unless audio_deadlock_hack has touched the source.
THEOREM BuffersWhole == Spec => []WholeBuffers
<1>1. AudioInv => WholeBuffers
  BY DEF AudioInv
<1> QED BY <1>1, AudioInvariant, PTL

\* render_put_mono_sample and render_put_stereo_sample stay within the buffer,
\* with the same exception.
THEOREM PutsInBounds == Spec => []WritesInBounds
<1>1. AudioInv => WritesInBounds
  BY AudioAssumption DEF AudioAssumption, AudioInv, OwnSlotInv, WritesInBounds, Blocked, At, TypeOK
<1> QED BY <1>1, AudioInvariant, PTL
=============================================================================
