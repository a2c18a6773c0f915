----------------------------- MODULE HeadersProofs -----------------------------
(***************************************************************************)
(* OneWinner and ReadsMoveForward of Forwarding, for any evacuators,       *)
(* pinners and readers, when no pin runs beside an evacuation.  The        *)
(* forwarding address then changes once, from Self, and everything that    *)
(* was read out of the word and is not Self equals it (Agreement).  With   *)
(* pinBeside the load and store of pin() breaks Settled, and TLC shows     *)
(* what OneWinner then asserts broken with it.                             *)
(*                                                                         *)
(* Then object headers as MCHeaders runs them: what is shown here and in   *)
(* GcMarkProofs holds of the collector that does both, and its headers     *)
(* keep their types whatever is pinned, shaded and forwarded at once.      *)
(***************************************************************************)
EXTENDS MCHeaders, GcMarkProofs


\* Pins and evacuations keep apart, and a pinner that has loaded the word
\* will store back the address that is still in it.
Settled ==
  /\ \A p \in Pinners, e \in Evacuators : pin[p] # "idle" => evac[e] # "loop"
  /\ \A p \in Pinners : pin[p] # "idle" => pinOld[p].fwd = word.fwd

\* What evacuators and readers know besides Self is the address in the word.
Agreement ==
  /\ \A e \in Evacuators :
       /\ evac[e] = "loop" /\ cur[e].fwd # Self => cur[e].fwd = word.fwd
       /\ evac[e] = "done" => answer[e] = word.fwd /\ word.fwd # Self
  /\ \A r \in Readers : seen[r] # Self => seen[r] = word.fwd

\* The inductive invariant, of the behaviours in which pins keep apart.
FwdInv == FwdTypeOK /\ ~pinBeside /\ Settled /\ Agreement

\* A step that does not move the address, nor touch what was read.
LEMMA WordMove ==
  ASSUME FwdInv, word' \in Word, word'.fwd = word.fwd,
         UNCHANGED <<evac, cur, answer, pin, pinOld, seen, pinBeside>>
  PROVE  FwdInv'
  BY DEF FwdInv, FwdTypeOK, Settled, Agreement

\* Every step preserves the invariant.
LEMMA FwdStep ==
  ASSUME FwdInv, [FwdNext]_fwdVars
  PROVE  FwdInv'
<1> USE SelfAssumption DEF FwdInv
<1>0. ~pinBeside'
  BY DEF FwdNext, Evacuate, Load, Lose, Install, Retry, Shade, Pin, FwdPinStore, Read, fwdVars
<1>1. CASE UNCHANGED fwdVars
  BY <1>1 DEF fwdVars, FwdTypeOK, Settled, Agreement
<1>2. ASSUME NEW e \in Evacuators, Load(e) PROVE FwdInv'
  <2>1. FwdTypeOK'
    BY <1>2 DEF Load, FwdTypeOK
  <2>2. Settled'
    BY <1>2 DEF Load, FwdTypeOK, Settled
  <2>3. Agreement'
    BY <1>2 DEF Load, FwdTypeOK, Agreement
  <2> QED BY <1>0, <2>1, <2>2, <2>3
<1>3. ASSUME NEW e \in Evacuators, Lose(e) PROVE FwdInv'
  <2>1. cur[e].fwd \in Evacuators \cup {Self} /\ cur[e].fwd = word.fwd
    BY <1>3 DEF Lose, FwdTypeOK, Word, Agreement
  <2>2. FwdTypeOK'
    BY <1>3, <2>1 DEF Lose, FwdTypeOK
  <2>3. Settled'
    BY <1>3 DEF Lose, FwdTypeOK, Settled
  <2>4. Agreement'
    BY <1>3, <2>1 DEF Lose, FwdTypeOK, Agreement
  <2> QED BY <1>0, <2>2, <2>3, <2>4
<1>4. ASSUME NEW e \in Evacuators, Install(e) PROVE FwdInv'
  <2>1. word.fwd = Self /\ word'.fwd = e /\ word' \in Word /\ e # Self
    BY <1>4 DEF Install, FwdTypeOK, Word
  <2>2. FwdTypeOK'
    BY <1>4, <2>1 DEF Install, FwdTypeOK
  <2>3. \A p \in Pinners : pin[p] = "idle"
    BY <1>4 DEF Install, Settled
  <2>4. Settled'
    BY <1>4, <2>3 DEF Install, Settled
  <2>5. /\ \A f \in Evacuators : evac[f] # "done"
        /\ \A f \in Evacuators : evac[f] = "loop" => cur[f].fwd = Self
        /\ \A r \in Readers : seen[r] = Self
    BY <2>1 DEF Agreement
  <2>6. Agreement'
    BY <1>4, <2>1, <2>5 DEF Install, FwdTypeOK, Agreement
  <2> QED BY <1>0, <2>2, <2>4, <2>6
<1>5. ASSUME NEW e \in Evacuators, Retry(e) PROVE FwdInv'
  <2>1. FwdTypeOK'
    BY <1>5 DEF Retry, FwdTypeOK
  <2>2. Settled'
    BY <1>5 DEF Retry, Settled
  <2>3. Agreement'
    BY <1>5 DEF Retry, FwdTypeOK, Agreement
  <2> QED BY <1>0, <2>1, <2>2, <2>3
<1>6. CASE Shade
  <2>1. word' \in Word /\ word'.fwd = word.fwd
    BY <1>6 DEF Shade, FwdTypeOK, Word
  <2> QED BY <1>6, <2>1, WordMove DEF Shade
<1>7. ASSUME NEW p \in Pinners, Pin(p) PROVE FwdInv'
  <2>1. PICK l \in {"pin", "unpin"} : pin' = [pin EXCEPT ![p] = l]
    BY <1>7 DEF Pin
  <2>2. FwdTypeOK'
    BY <1>7, <2>1 DEF Pin, FwdTypeOK
  <2>3. Settled'
    BY <1>7, <2>1 DEF Pin, FwdTypeOK, Settled
  <2>4. Agreement'
    BY <1>7 DEF Pin, Agreement
  <2> QED BY <1>0, <2>2, <2>3, <2>4
<1>8. ASSUME NEW p \in Pinners, FwdPinStore(p) PROVE FwdInv'
  <2>1. word' \in Word /\ word'.fwd = word.fwd
    BY <1>8 DEF FwdPinStore, FwdTypeOK, Word, Settled
  <2>2. FwdTypeOK'
    BY <1>8, <2>1 DEF FwdPinStore, FwdTypeOK
  <2>3. Settled'
    BY <1>8, <2>1 DEF FwdPinStore, FwdTypeOK, Settled
  <2>4. Agreement'
    BY <1>8, <2>1 DEF FwdPinStore, Agreement
  <2> QED BY <1>0, <2>2, <2>3, <2>4
<1>9. ASSUME NEW r \in Readers, Read(r) PROVE FwdInv'
  <2>1. word.fwd \in Evacuators \cup {Self}
    BY DEF FwdTypeOK, Word
  <2>2. FwdTypeOK'
    BY <1>9, <2>1 DEF Read, FwdTypeOK
  <2>3. Settled'
    BY <1>9 DEF Read, Settled
  <2>4. Agreement'
    BY <1>9 DEF Read, FwdTypeOK, Agreement
  <2> QED BY <1>0, <2>2, <2>3, <2>4
<1> QED BY <1>1, <1>2, <1>3, <1>4, <1>5, <1>6, <1>7, <1>8, <1>9 DEF FwdNext, Evacuate

\* Whether pins run beside is decided at the start, and the word starts with
\* the invariant.
PinsApart == pinBeside \/ FwdInv

LEMMA InitEstablishes == FwdInit => FwdTypeOK /\ PinsApart
  BY DEF FwdInit, FreshWord, Word, PinsApart, FwdInv, FwdTypeOK, Settled, Agreement

LEMMA PinsApartStep == PinsApart /\ [FwdNext]_fwdVars => PinsApart'
<1> SUFFICES ASSUME PinsApart, [FwdNext]_fwdVars PROVE PinsApart'
  OBVIOUS
<1>1. CASE pinBeside
  BY <1>1 DEF PinsApart, FwdNext, Evacuate, Load, Lose, Install, Retry, Shade, Pin, FwdPinStore,
              Read, fwdVars
<1>2. CASE FwdInv
  BY <1>2, FwdStep DEF PinsApart
<1> QED BY <1>1, <1>2 DEF PinsApart

\* Of the evacuators that race in try_install_forwarding one wins, and all
\* are told the address the winner installed, unless pins run beside them.
THEOREM OneEvacuatorWins == FwdSpec => []OneWinner
<1>1. PinsApart => OneWinner
  BY DEF PinsApart, FwdInv, Agreement, OneWinner
<1> QED BY <1>1, InitEstablishes, PinsApartStep, PTL DEF FwdSpec

\* A reader that the read barrier has sent to the copy is sent there again by
\* every later read, unless pins run beside the evacuation.
THEOREM ReadersMoveForward == FwdSpec => ReadsMoveForward
<1>1. PinsApart /\ [FwdNext]_fwdVars =>
        [~pinBeside => \A r \in Readers : seen[r] # Self => seen'[r] = seen[r]]_fwdVars
  <2> SUFFICES ASSUME PinsApart, [FwdNext]_fwdVars, ~pinBeside, NEW r \in Readers, seen[r] # Self
               PROVE  seen'[r] = seen[r]
    OBVIOUS
  <2>1. FwdInv
    BY DEF PinsApart
  <2>2. seen[r] = word.fwd
    BY <2>1 DEF FwdInv, Agreement
  <2>3. CASE \E q \in Readers : Read(q)
    BY <2>1, <2>2, <2>3 DEF Read, FwdInv, FwdTypeOK
  <2>4. CASE ~\E q \in Readers : Read(q)
    BY <2>4 DEF FwdNext, Evacuate, Load, Lose, Install, Retry, Shade, Pin, FwdPinStore, fwdVars
  <2> QED BY <2>3, <2>4
<1> QED BY <1>1, InitEstablishes, PinsApartStep, PTL DEF FwdSpec, ReadsMoveForward

-----------------------------------------------------------------------------
(* The composition *)


\* The forwarding word, every copy of it and every address read from it keep
\* their types, pins beside evacuation included.
THEOREM FwdTypeCorrect == FwdSpec => []FwdTypeOK
<1>1. FwdInit => FwdTypeOK
  BY InitEstablishes
<1>2. FwdTypeOK /\ [FwdNext]_fwdVars => FwdTypeOK'
  <2> SUFFICES ASSUME FwdTypeOK, [FwdNext]_fwdVars PROVE FwdTypeOK'
    OBVIOUS
  <2> USE DEF FwdTypeOK
  <2>1. CASE UNCHANGED fwdVars
    BY <2>1 DEF fwdVars
  <2>2. ASSUME NEW e \in Evacuators, Load(e) \/ Evacuate(e) PROVE FwdTypeOK'
    <3>1. CASE Load(e)
      BY <3>1 DEF Load
    <3>2. CASE Lose(e)
      <4>1. cur[e].fwd \in Evacuators \cup {Self}
        BY DEF Word
      <4> QED BY <3>2, <4>1 DEF Lose
    <3>3. CASE Install(e)
      <4>1. word' \in Word
        BY <3>3 DEF Install, Word
      <4> QED BY <3>3, <4>1 DEF Install
    <3>4. CASE Retry(e)
      BY <3>4 DEF Retry
    <3> QED BY <2>2, <3>1, <3>2, <3>3, <3>4 DEF Evacuate
  <2>3. CASE Shade
    <3>1. word' \in Word
      BY <2>3 DEF Shade, Word
    <3> QED BY <2>3, <3>1 DEF Shade
  <2>4. ASSUME NEW p \in Pinners, Pin(p) PROVE FwdTypeOK'
    <3>1. PICK l \in {"pin", "unpin"} : pin' = [pin EXCEPT ![p] = l]
      BY <2>4 DEF Pin
    <3> QED BY <2>4, <3>1 DEF Pin
  <2>5. ASSUME NEW p \in Pinners, FwdPinStore(p) PROVE FwdTypeOK'
    <3>1. word' \in Word
      BY <2>5 DEF FwdPinStore, Word
    <3> QED BY <2>5, <3>1 DEF FwdPinStore
  <2>6. ASSUME NEW r \in Readers, Read(r) PROVE FwdTypeOK'
    <3>1. word.fwd \in Evacuators \cup {Self}
      BY DEF Word
    <3> QED BY <2>6, <3>1 DEF Read
  <2> QED BY <2>1, <2>2, <2>3, <2>4, <2>5, <2>6 DEF FwdNext
<1> QED BY <1>1, <1>2, PTL DEF FwdSpec

\* A step of the collector is a step of one phase, or none, for each phase.
LEMMA PhasesStep ==
  [Next]_headerVars => [MarkNext]_markVars /\ [FwdNext]_fwdVars
BY DEF Next, headerVars

\* What was proved of each phase holds of the collector.
LEMMA PhasesRefine == Spec => MarkSpec /\ FwdSpec
<1>1. Init => MarkInit /\ FwdInit
  BY DEF Init
<1> QED BY <1>1, PhasesStep, PTL DEF Spec, MarkSpec, FwdSpec

\* Headers, queues and roots keep their types in both phases, for any objects,
\* mutators, evacuators, pinners and readers and with every race allowed.
THEOREM HeaderTypesCorrect == Spec => []TypeOK
<1>1. MarkTypeOK /\ FwdTypeOK => TypeOK
  BY DEF TypeOK
<1> QED BY <1>1, PhasesRefine, MarkTypeCorrect, FwdTypeCorrect, PTL

\* When pins keep apart from the marking and roots from it too, the whole
\* collector marks soundly, and where no pin runs beside an evacuation it moves
\* each object once and sends every reader to the one copy.
THEOREM CollectorIsSafe ==
  ASSUME QuietPins, QuietRoots
  PROVE  Spec => []MarkingIsSound /\ []OneWinner /\ ColorProtocol /\ ReadsMoveForward
BY PhasesRefine, MarkIsSound, ColorsFollowProtocol, OneEvacuatorWins, ReadersMoveForward, PTL
=============================================================================
