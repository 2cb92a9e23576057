----------------------------- MODULE PartsProofs -----------------------------
(***************************************************************************)
(* Proofs about the parts of Parts, for every value of the constants.  Of  *)
(* a rekey: the safety invariants its run checks, and that it keeps the    *)
(* promise of RekeyGuard.  Of a new password: that it is made as it was    *)
(* told.  Of a long operation of a page: that what is told is true.  Of a  *)
(* search for missing words: that it finds the wallet where it is.         *)
(***************************************************************************)
EXTENDS Parts, Integers, Sequences, FiniteSetTheorems, FunctionTheorems, WellFoundedInduction, TLAPS

-----------------------------------------------------------------------------
(* A rekey.                                                                *)

(* The state of the cipher: a same-length container has no checks, and the *)
(* owner's phrase is one of the readings.                                  *)
StateFacts ==
  /\ container # Full => passing = {}
  /\ wallet \in {0, container} \cup passing
  /\ LengthApplies(container, stated)

(* Nothing was accepted before the rekey left its confirmations.           *)
AcceptedLater ==
  /\ step \in {"Made", "Ready", "Refused"} => by = "none" /\ sealed = 0
  /\ sealed # 0 => step = "Ended"
  /\ step = "AwaitingOwner" => by = "owner"

(* What stands confirmed is the owner's phrase, with the one exception.    *)
ConfirmsTheWallet ==
  step = "Confirmed" =>
    \/ confirmed = wallet
    \/ by = "builtInCheck" /\ confirmed = stated /\ passing = {stated}

(* The refusals that offer another confirmation come with readings.        *)
RefusedHasReadings ==
  step = "Refused" => ReadingsOf(container, passing, stated) # {}

(* The answer is judged, and the offer is made, before a refusal.          *)
Judged ==
  step = "Refused" => /\ hasPassphrase \in {"yes", "no"}
                      /\ ownerLengths \subseteq PhraseLengths(container)

IInv ==
  /\ TypeOK /\ StateFacts /\ AcceptedLater /\ ConfirmsTheWallet /\ RefusedHasReadings /\ Judged
  /\ SealsTheWallet /\ OffersHold /\ PhraseIsDropped /\ ReferenceMatchesAnswer

-----------------------------------------------------------------------------
(* What a confirmation accepts: a reference its own phrase, the built-in   *)
(* check a stated length that alone passes, the owner one reading.         *)
LEMMA Accepts ==
  ASSUME StateFacts, TypeOK, NEW kind \in Confirmations, NEW w \in {0, wallet},
         NEW length \in Lengths \cup {Detect},
         Confirm(kind, w, container, passing, length).refusal = "none"
  PROVE  LET words == Confirm(kind, w, container, passing, length).words IN
         /\ words \in Lengths
         /\ kind \in References => words = wallet
         /\ kind = "builtInCheck" => words = length /\ passing = {length}
<1> DEFINE readings == ReadingsOf(container, passing, length)
           one  == CHOOSE n \in readings : TRUE
           words    == Confirm(kind, w, container, passing, length).words
<1>1. EveryReading(container, passing) \subseteq Lengths
  BY DEF EveryReading, ReadingsOf, Lengths, TypeOK
<1>2. 0 \notin Lengths
  BY LengthsAssumption DEF Lengths
<1>3. readings # {} /\ one \in readings
  BY DEF Confirm, Refused
<1>4. CASE kind \in References
  <2>1. w \in EveryReading(container, passing) /\ words = w
    BY <1>3, <1>4 DEF Confirm, Refused, Accepted, References
  <2>2. QED
    BY <1>1, <1>2, <1>4, <2>1 DEF References
<1>5. CASE kind = "owner"
  <2>1. words = one
    BY <1>3, <1>5 DEF Confirm, Refused, Accepted, References
  <2>2. one \in Lengths
    BY <1>3 DEF ReadingsOf, Lengths, TypeOK
  <2>3. QED
    BY <1>5, <2>1, <2>2 DEF References
<1>6. CASE kind = "builtInCheck"
  <2>1. /\ BuiltInCheckConfirms(container, length) /\ words = one
        /\ CheckRefusal(passing, length, one) = "none"
    BY <1>3, <1>6 DEF Confirm, Refused, Accepted, References
  <2>2. length \in Shorts /\ length # 0
    BY <2>1, LengthsAssumption DEF BuiltInCheckConfirms, BuiltInCheckLengths
  <2>3. one = length /\ passing = {one}
    BY <2>1, <2>2 DEF CheckRefusal, Differs, Detect
  <2>4. QED
    BY <1>6, <2>1, <2>2, <2>3 DEF References, Lengths
<1>7. QED
  BY <1>4, <1>5, <1>6 DEF Confirmations

(* A refusal of the two kinds that allow another confirmation is about     *)
(* readings that exist.                                                    *)
LEMMA AgainHasReadings ==
  ASSUME NEW kind, NEW w, NEW length,
         Again(Confirm(kind, w, container, passing, length).refusal)
  PROVE  ReadingsOf(container, passing, length) # {}
  BY DEF Again, Confirm, Refused

(* A length that differs was stated.                                       *)
LEMMA DiffersIsStated ==
  ASSUME NEW kind, NEW w, NEW length,
         Confirm(kind, w, container, passing, length).refusal = "LENGTH_DIFFERS"
  PROVE  length # Detect
<1> DEFINE readings == ReadingsOf(container, passing, length)
           one  == CHOOSE n \in readings : TRUE
<1>1. \/ OneReadingRefusal(readings, passing, length) = "LENGTH_DIFFERS"
      \/ readings # {} /\ CheckRefusal(passing, length, one) = "LENGTH_DIFFERS"
  BY DEF Confirm, Refused, Accepted
<1>2. \E n : Differs(length, n)
  BY <1>1 DEF OneReadingRefusal, CheckRefusal
<1>3. QED
  BY <1>2 DEF Differs

(* Every length offered to the owner is one the phrase may have.           *)
LEMMA OfferedLengthsApply ==
  ASSUME NEW refusal, NEW length \in Lengths \cup {Detect}, Again(refusal),
         refusal = "LENGTH_DIFFERS" => length # Detect
  PROVE  LengthsAfter(refusal, length) \subseteq PhraseLengths(container)
  BY DEF Again, LengthsAfter, OwnerLengths, OwnerCanConfirm, LengthApplies

(* Every length offered to the owner shows one phrase.                     *)
LEMMA OfferedLengthsShowOne ==
  ASSUME NEW refusal, NEW length, NEW words \in LengthsAfter(refusal, length)
  PROVE  Confirm("owner", 0, container, passing, words).refusal = "none"
<1>1. OneReadingRefusal(ReadingsOf(container, passing, words), passing, words) = "none"
  BY DEF LengthsAfter, OwnerLengths, OwnerCanConfirm
<1>2. ReadingsOf(container, passing, words) # {}
  BY <1>1 DEF OneReadingRefusal, Single
<1>3. QED
  BY <1>1, <1>2 DEF Confirm, Accepted, References

LEMMA InitIInv == Init => IInv
  BY LengthsAssumption DEF Init, IInv, TypeOK, StateFacts, AcceptedLater, ConfirmsTheWallet,
     RefusedHasReadings, Judged, SealsTheWallet, OffersHold, PhraseIsDropped, ReferenceMatchesAnswer,
     LengthApplies, PhraseLengths, Lengths, Detect, Steps, Answers

(* end() keeps the invariant at every step.                                *)
LEMMA EndKeeps == IInv /\ End => IInv'
  BY DEF End, IInv, TypeOK, StateFacts, AcceptedLater, ConfirmsTheWallet, RefusedHasReadings, Judged,
     SealsTheWallet, OffersHold, PhraseIsDropped, ReferenceMatchesAnswer, Steps

LEMMA ConfirmKeeps ==
  ASSUME IInv, NEW kind \in Confirmations, NEW right \in BOOLEAN,
         NEW length \in Lengths \cup {Detect}, NEW judged \in {"yes", "no"},
         LengthApplies(container, length), step \in {"Ready", "Refused"},
         ConfirmRecovered(kind, right, length, judged)
  PROVE  IInv'
<1> DEFINE w == IF right THEN wallet ELSE 0
           result == Confirm(kind, w, container, passing, length)
<1> USE DEF IInv
<1>1. /\ by = "none" /\ sealed = 0 /\ confirmed = 0
      /\ stated' = length /\ hasPassphrase' = judged
      /\ UNCHANGED <<container, passing, wallet, sealed>>
  BY DEF AcceptedLater, PhraseIsDropped, ConfirmRecovered
<1>2. StateFacts'
  BY <1>1 DEF StateFacts, LengthApplies
<1>3. CASE /\ PassphraseAnswer(kind, judged) # "refused" /\ result.refusal = "none"
           /\ recovered' = FALSE /\ confirmed' = result.words /\ by' = kind
           /\ step' = IF kind = "owner" THEN "AwaitingOwner" ELSE "Confirmed"
           /\ UNCHANGED ownerLengths
  <2>1. /\ result.words \in Lengths
        /\ kind \in References => result.words = wallet
        /\ kind = "builtInCheck" => result.words = length /\ passing = {length}
    BY <1>3, Accepts
  <2>2. result.words # 0
    BY <2>1, LengthsAssumption DEF Lengths
  <2>3. TypeOK'
    BY <1>1, <1>3, <2>1 DEF TypeOK, Steps, Answers, Detect
  <2>4. ConfirmsTheWallet' /\ PhraseIsDropped' /\ OffersHold' /\ RefusedHasReadings'
    BY <1>1, <1>3, <2>1, <2>2 DEF ConfirmsTheWallet, PhraseIsDropped, OffersHold, Confirmations,
                                  RefusedHasReadings
  <2>5. ReferenceMatchesAnswer'
    BY <1>1, <1>3 DEF ReferenceMatchesAnswer, PassphraseAnswer
  <2>6. QED
    BY <1>1, <1>2, <1>3, <2>3, <2>4, <2>5 DEF AcceptedLater, SealsTheWallet, Judged
<1>4. CASE /\ PassphraseAnswer(kind, judged) # "refused" /\ Again(result.refusal)
           /\ recovered' = TRUE /\ step' = "Refused"
           /\ ownerLengths' = LengthsAfter(result.refusal, length)
           /\ UNCHANGED <<confirmed, by>>
  <2>0. LengthsAfter(result.refusal, length) \subseteq PhraseLengths(container)
    BY <1>4, DiffersIsStated, OfferedLengthsApply
  <2>1. LengthsAfter(result.refusal, length) \subseteq Lengths
    BY <2>0 DEF PhraseLengths, TypeOK
  <2>2. ReadingsOf(container, passing, length) # {}
    BY <1>4, AgainHasReadings
  <2>3. \A words \in LengthsAfter(result.refusal, length) :
          Confirm("owner", 0, container, passing, words).refusal = "none"
    BY OfferedLengthsShowOne
  <2>4. QED
    BY <1>1, <1>2, <1>4, <2>0, <2>1, <2>2, <2>3
       DEF TypeOK, Steps, Answers, AcceptedLater, ConfirmsTheWallet, RefusedHasReadings, Judged,
           SealsTheWallet, OffersHold, PhraseIsDropped, ReferenceMatchesAnswer
<1>5. CASE step' = "Ended" /\ recovered' = FALSE /\ confirmed' = 0
           /\ UNCHANGED <<ownerLengths, by>>
  BY <1>1, <1>2, <1>5 DEF TypeOK, Steps, Answers, AcceptedLater, ConfirmsTheWallet,
     RefusedHasReadings, Judged, SealsTheWallet, OffersHold, PhraseIsDropped, ReferenceMatchesAnswer
<1>6. QED
  BY <1>3, <1>4, <1>5 DEF ConfirmRecovered

LEMMA InvStep == IInv /\ [Next]_vars => IInv'
<1> SUFFICES ASSUME IInv, [Next]_vars PROVE IInv'
  OBVIOUS
<1>1. CASE End
  BY <1>1, EndKeeps
<1>2. CASE SetNew
  <2>1. CASE /\ step = "Made" /\ step' = "Ready"
             /\ UNCHANGED <<container, passing, wallet, stated, recovered, ownerLengths,
                            hasPassphrase, confirmed, sealed, by>>
    <3>1. TypeOK' /\ StateFacts' /\ AcceptedLater' /\ PhraseIsDropped'
      BY <2>1 DEF IInv, TypeOK, Steps, StateFacts, LengthApplies, AcceptedLater, PhraseIsDropped
    <3>2. SealsTheWallet' /\ ReferenceMatchesAnswer'
      BY <2>1 DEF IInv, SealsTheWallet, ReferenceMatchesAnswer
    <3>3. ConfirmsTheWallet' /\ RefusedHasReadings' /\ Judged' /\ OffersHold'
      BY <2>1 DEF IInv, ConfirmsTheWallet, RefusedHasReadings, Judged, OffersHold
    <3>4. QED
      BY <3>1, <3>2, <3>3 DEF IInv
  <2>2. QED
    BY <1>1, <1>2, <2>1 DEF SetNew, OutOfOrder, Fails
<1>3. ASSUME NEW kind \in Confirmations, NEW right \in BOOLEAN, NEW spoken \in Answers,
             Recover(kind, right, spoken)
      PROVE  IInv'
  <2>1. CASE /\ step = "Ready" /\ PassphraseAnswer(kind, spoken) # "refused"
             /\ ConfirmRecovered(kind, right, stated, PassphraseAnswer(kind, spoken))
    <3>1. PassphraseAnswer(kind, spoken) \in {"yes", "no"}
      BY <2>1 DEF PassphraseAnswer, Answers
    <3>2. stated \in Lengths \cup {Detect} /\ LengthApplies(container, stated)
      BY DEF IInv, TypeOK, StateFacts
    <3>3. QED
      BY <2>1, <3>1, <3>2, ConfirmKeeps
  <2>2. QED
    BY <1>1, <1>3, <2>1 DEF Recover, OutOfOrder, Fails
<1>4. ASSUME NEW kind \in Confirmations, NEW right \in BOOLEAN, NEW words \in Lengths \cup {0},
             ConfirmAgain(kind, right, words)
      PROVE  IInv'
  <2> DEFINE length == IF words = 0 THEN stated ELSE words
  <2>1. CASE /\ step = "Refused" /\ (words # 0 => words \in ownerLengths)
             /\ ConfirmRecovered(kind, right, length, hasPassphrase)
    <3>1. length \in Lengths \cup {Detect} /\ LengthApplies(container, length)
      BY <2>1 DEF IInv, TypeOK, StateFacts, Judged, LengthApplies
    <3>2. hasPassphrase \in {"yes", "no"}
      BY <2>1 DEF IInv, Judged
    <3>3. QED
      BY <2>1, <3>1, <3>2, ConfirmKeeps
  <2>2. QED
    BY <1>1, <1>4, <2>1 DEF ConfirmAgain, OutOfOrder, Fails
<1>5. CASE OwnerAnswer
  <2>1. CASE /\ step = "AwaitingOwner" /\ confirmed = wallet /\ step' = "Confirmed"
             /\ UNCHANGED <<container, passing, wallet, stated, recovered, ownerLengths,
                            hasPassphrase, confirmed, sealed, by>>
    <3>1. TypeOK' /\ StateFacts' /\ AcceptedLater' /\ PhraseIsDropped'
      BY <2>1 DEF IInv, TypeOK, Steps, StateFacts, LengthApplies, AcceptedLater, PhraseIsDropped
    <3>2. SealsTheWallet' /\ ReferenceMatchesAnswer' /\ ConfirmsTheWallet'
      BY <2>1 DEF IInv, SealsTheWallet, ReferenceMatchesAnswer, ConfirmsTheWallet
    <3>3. RefusedHasReadings' /\ Judged' /\ OffersHold'
      BY <2>1 DEF IInv, RefusedHasReadings, Judged, OffersHold
    <3>4. QED
      BY <3>1, <3>2, <3>3 DEF IInv
  <2>2. QED
    BY <1>1, <1>5, <2>1 DEF OwnerAnswer, OutOfOrder, Fails
<1>6. CASE Seal
  <2>1. CASE /\ step = "Confirmed" /\ step' = "Ended" /\ confirmed' = 0
             /\ sealed' \in {sealed, confirmed}
             /\ UNCHANGED <<container, passing, wallet, stated, recovered, ownerLengths,
                            hasPassphrase, by>>
    <3>1. TypeOK' /\ StateFacts' /\ AcceptedLater' /\ PhraseIsDropped'
      BY <2>1 DEF IInv, TypeOK, Steps, StateFacts, LengthApplies, AcceptedLater, PhraseIsDropped
    <3>2. SealsTheWallet' /\ ReferenceMatchesAnswer' /\ ConfirmsTheWallet'
      BY <2>1 DEF IInv, SealsTheWallet, ReferenceMatchesAnswer, ConfirmsTheWallet
    <3>3. RefusedHasReadings' /\ Judged' /\ OffersHold'
      BY <2>1 DEF IInv, RefusedHasReadings, Judged, OffersHold
    <3>4. QED
      BY <3>1, <3>2, <3>3 DEF IInv
  <2>2. QED
    BY <1>1, <1>6, <2>1 DEF Seal, SealGuard, OutOfOrder
<1>7. CASE UNCHANGED vars
  BY <1>7 DEF vars, session, IInv, TypeOK, StateFacts, AcceptedLater, ConfirmsTheWallet,
     RefusedHasReadings, Judged, SealsTheWallet, OffersHold, PhraseIsDropped, ReferenceMatchesAnswer
<1>8. QED
  BY <1>2, <1>3, <1>4, <1>5, <1>6, <1>7 DEF Next

-----------------------------------------------------------------------------
(* In every reachable state of a rekey the inductive invariant holds.      *)
THEOREM Invariance == Spec => []IInv
<1>1. Init => IInv
  BY InitIInv
<1>2. IInv /\ [Next]_vars => IInv'
  BY InvStep
<1>3. QED
  BY <1>1, <1>2, PTL DEF Spec

(* Every variable of the rekey keeps its type.                             *)
THEOREM TypeCorrect == Spec => []TypeOK
<1>1. IInv => TypeOK
  BY DEF IInv
<1>2. QED
  BY <1>1, Invariance, PTL

(* A rekey seals the owner's phrase or none, but for a wrongly stated      *)
(* short length whose check alone passes by chance.                        *)
THEOREM SealedIsTheWallets == Spec => []SealsTheWallet
<1>1. IInv => SealsTheWallet
  BY DEF IInv
<1>2. QED
  BY <1>1, Invariance, PTL

(* A confirmation offered again finds the recovery kept, and every length  *)
(* offered to the owner shows exactly one phrase.                          *)
THEOREM OffersAreGood == Spec => []OffersHold
<1>1. IInv => OffersHold
  BY DEF IInv
<1>2. QED
  BY <1>1, Invariance, PTL

(* After a refusal that allows another confirmation, the owner's address   *)
(* or fingerprint still confirms the phrase.                               *)
THEOREM ReferenceIsNeverShutOut == Spec => []ReferenceStillConfirms
<1>1. ASSUME IInv, step = "Refused", wallet # 0
      PROVE  Confirm("reference", wallet, container, passing, stated) = Accepted(wallet)
  <2>1. ReadingsOf(container, passing, stated) # {}
    BY <1>1 DEF IInv, RefusedHasReadings
  <2>2. wallet \in EveryReading(container, passing)
    <3>1. CASE container = Full
      <4>1. EveryReading(container, passing) = passing \cup {Full}
        BY <1>1, <3>1, LengthsAssumption DEF EveryReading, ReadingsOf, IInv, TypeOK
      <4>2. QED
        BY <1>1, <3>1, <4>1 DEF IInv, StateFacts
    <3>2. CASE container # Full
      BY <1>1, <3>2 DEF EveryReading, ReadingsOf, IInv, StateFacts
    <3>3. QED
      BY <3>1, <3>2
  <2>3. QED
    BY <2>1, <2>2 DEF Confirm, References
<1>2. IInv => ReferenceStillConfirms
  BY <1>1 DEF ReferenceStillConfirms
<1>3. QED
  BY <1>2, Invariance, PTL

(* After a refusal that allows another confirmation, one works.            *)
THEOREM RefusalsLeave == Spec => []RefusalsLeaveAWay
BY OffersAreGood, ReferenceIsNeverShutOut, PTL DEF RefusalsLeaveAWay

(* No phrase stays in a rekey that ended or is not confirmed.              *)
THEOREM PhraseLeavesWithTheRekey == Spec => []PhraseIsDropped
<1>1. IInv => PhraseIsDropped
  BY DEF IInv
<1>2. QED
  BY <1>1, Invariance, PTL

(* The three together: a rekey seals the wallet alone, a refusal leaves a  *)
(* way on, and no phrase stays behind.                                     *)
THEOREM RekeyKeepsTheWallet == Spec => []RekeyIsSafe
BY SealedIsTheWallets, RefusalsLeave, PhraseLeavesWithTheRekey, PTL DEF RekeyIsSafe

(* The reference accepted agrees with the answer about the passphrase,     *)
(* also after a refusal.                                                   *)
THEOREM AnswerHolds == Spec => []ReferenceMatchesAnswer
<1>1. IInv => ReferenceMatchesAnswer
  BY DEF IInv
<1>2. QED
  BY <1>1, Invariance, PTL

(* A rekey implements the guard: nothing is sealed but what was confirmed, *)
(* and nothing shown is confirmed without the owner's yes.                 *)
THEOREM ImplementsGuard == Spec => KeepsGuard
<1> DEFINE Step  == [Guard!Next]_(Guard!guardVars)
           Still == UNCHANGED <<sealed, confirmed, step>>
<1>1. Init => Guard!Init
  BY DEF Init, Guard!Init
<1>2. IInv /\ [Next]_vars => Step
  <2> SUFFICES ASSUME IInv, IInv', [Next]_vars PROVE Step
    BY InvStep
  <2> USE DEF Guard!guardVars
  <2>1. /\ sealed # 0 => step = "Ended" /\ confirmed = 0
        /\ (confirmed # 0) <=> step \in {"AwaitingOwner", "Confirmed"}
        /\ sealed' # 0 => step' = "Ended" /\ confirmed' = 0
        /\ (confirmed' # 0) <=> step' \in {"AwaitingOwner", "Confirmed"}
        /\ step \in Steps
    BY DEF IInv, TypeOK, AcceptedLater, PhraseIsDropped
  <2>2. CASE step' = "Ended" /\ confirmed' = 0 /\ UNCHANGED sealed
    BY <2>1, <2>2 DEF Guard!Next, Guard!End, Steps
  <2>3. CASE SetNew
    BY <2>1, <2>2, <2>3 DEF SetNew, OutOfOrder, Fails, End
  <2>4. CASE OwnerAnswer
    BY <2>1, <2>2, <2>4 DEF OwnerAnswer, OutOfOrder, Fails, End, Guard!Next, Guard!OwnerSaysYes
  <2>5. CASE Seal
    <3>1. CASE /\ step = "Confirmed" /\ step' = "Ended" /\ confirmed' = 0
               /\ sealed' = confirmed
      BY <2>1, <3>1 DEF Guard!Next, Guard!Seal
    <3>2. QED
      BY <2>2, <2>5, <3>1 DEF Seal, SealGuard, OutOfOrder, End
  <2>6. ASSUME NEW kind, NEW right, NEW length, NEW judged, step \in {"Ready", "Refused"},
               ConfirmRecovered(kind, right, length, judged)
        PROVE  Step
    <3>1. UNCHANGED sealed /\ sealed = 0 /\ confirmed = 0
      BY <2>1, <2>6 DEF ConfirmRecovered
    <3>2. CASE step' = "Refused" /\ UNCHANGED confirmed
      BY <2>1, <2>6, <3>1, <3>2
    <3>3. CASE step' \in {"AwaitingOwner", "Confirmed"}
      <4>1. confirmed' \in Lengths
        BY <2>1, <3>3 DEF IInv, TypeOK
      <4>2. QED
        BY <2>1, <2>6, <3>1, <3>3, <4>1 DEF Guard!Next, Guard!Show, Guard!ConfirmAlone
    <3>4. CASE step' = "Ended" /\ confirmed' = 0
      BY <2>2, <3>1, <3>4
    <3>5. QED
      BY <2>6, <3>2, <3>3, <3>4 DEF ConfirmRecovered
  <2>7. ASSUME NEW kind, NEW right, NEW spoken, Recover(kind, right, spoken) PROVE Step
    BY <2>2, <2>6, <2>7 DEF Recover, OutOfOrder, Fails, End
  <2>8. ASSUME NEW kind, NEW right, NEW words, ConfirmAgain(kind, right, words) PROVE Step
    BY <2>2, <2>6, <2>8 DEF ConfirmAgain, OutOfOrder, Fails, End
  <2>9. CASE UNCHANGED vars
    BY <2>9 DEF vars, session
  <2>10. QED
    BY <2>3, <2>4, <2>5, <2>7, <2>8, <2>9 DEF Next
<1>3. QED
  BY <1>1, <1>2, Invariance, PTL DEF Spec, KeepsGuard, Guard!Spec

-----------------------------------------------------------------------------
(* A new password.                                                         *)

(* The sizes of dice, lists and passwords are counted in whole numbers.    *)
LEMMA MakingNumbers ==
  /\ Faces \in Nat \ {0} /\ WordBits \in Nat \ {0} /\ GlyphBits \in Nat \ {0}
  /\ MostWords \in Nat \ {0} /\ MostGlyphs \in Nat \ {0} /\ FewWords \in Nat \ {0}
  /\ FewGlyphs \in Nat \ {0} /\ CheckedWords \in Nat \ {0} /\ MostRefused \in Nat /\ Glyphs \in Nat
  /\ FewWords <= CheckedWords
  BY MakingAssumption

(* Words with a check word are not weak.                                   *)
LEMMA CheckedAreNotFew == ~(CheckedWords < FewWords)
<1>1. CheckedWords \in Nat /\ FewWords \in Nat /\ FewWords <= CheckedWords
  BY MakingNumbers
<1>2. QED
  BY <1>1

(* What a recipe is.                                                       *)
LEMMA RecipeIs ==
  ASSUME NEW r \in Making!Recipes
  PROVE  /\ r = [kind |-> r.kind, count |-> r.count] /\ r.count \in Nat
         /\ r.kind \in {"words", "characters", "check word"}
         /\ r.kind = "check word" => r.count = CheckedWords
<1>1. MostWords \in Nat /\ MostGlyphs \in Nat /\ CheckedWords \in Nat
  BY MakingNumbers
<1>2. \A n \in (0 .. MostWords + 1) \cup (0 .. MostGlyphs + 1) \cup {CheckedWords} : n \in Nat
  BY <1>1
<1>3. \/ r \in [kind : {"words"}, count : 0 .. MostWords + 1]
      \/ r \in [kind : {"characters"}, count : 0 .. MostGlyphs + 1]
      \/ r \in [kind : {"check word"}, count : {CheckedWords}]
  BY DEF Making!Recipes
<1> DEFINE W == 0 .. MostWords + 1
           G == 0 .. MostGlyphs + 1
<1> HIDE DEF W, G
<1>4. \/ r \in [kind : {"words"}, count : W]
      \/ r \in [kind : {"characters"}, count : G]
      \/ r \in [kind : {"check word"}, count : {CheckedWords}]
  BY <1>3 DEF W, G
<1>5. /\ r = [kind |-> r.kind, count |-> r.count]
      /\ r.count \in W \cup G \cup {CheckedWords}
      /\ r.kind \in {"words", "characters", "check word"}
      /\ r.kind = "check word" => r.count = CheckedWords
  BY <1>4
<1>6. QED
  BY <1>2, <1>5 DEF W, G

(* Every choice of n times w bits has n draws of its own, among as many    *)
(* symbols as w bits tell or more.                                         *)
LEMMA BitsCountDraws ==
  ASSUME NEW n \in Nat, NEW w \in Nat, NEW size \in Nat, 2 ^ w <= size
  PROVE  ExistsInjection(SUBSET ((1 .. n) \X (1 .. w)), [1 .. n -> 0 .. size - 1])
<1> DEFINE B == 1 .. w
           C == 2 ^ w
<1>1. IsFiniteSet(SUBSET B) /\ Cardinality(SUBSET B) = C /\ C \in Nat
  <2>1. IsFiniteSet(B) /\ Cardinality(B) = w
    BY FS_Interval
  <2>2. IsFiniteSet(SUBSET B) /\ Cardinality(SUBSET B) = C
    BY <2>1, FS_SUBSET
  <2>3. QED
    BY <2>2, FS_CardinalityType
<1>2. PICK h : h \in Bijection(SUBSET B, 1 .. C)
  <2>1. ExistsBijection(1 .. C, SUBSET B)
    BY <1>1, FS_CardinalityType
  <2>2. QED
    BY <2>1, Fun_ExistsBijSymmetric DEF ExistsBijection
<1>3. h \in [SUBSET B -> 1 .. C] /\ \A a, b \in SUBSET B : h[a] = h[b] => a = b
  <2> DEFINE S == SUBSET B
             T == 1 .. C
  <2>1. h \in Bijection(S, T)
    BY <1>2
  <2> HIDE DEF S, T
  <2>2. h \in [S -> T] /\ \A a, b \in S : h[a] = h[b] => a = b
    BY <2>1, Fun_BijectionProperties
  <2>3. QED
    BY <2>2 DEF S, T
<1> DEFINE P == (1 .. n) \X B
           Bit(s, i) == {k \in B : <<i, k>> \in s}
           code == [s \in SUBSET P |-> [i \in 1 .. n |-> h[Bit(s, i)] - 1]]
<1>4. \A s \in SUBSET P, i \in 1 .. n : Bit(s, i) \in SUBSET B
  OBVIOUS
<1>5. \A a \in SUBSET B : h[a] - 1 \in 0 .. size - 1
  BY <1>1, <1>3
<1> HIDE DEF C
<1>6. code \in [SUBSET P -> [1 .. n -> 0 .. size - 1]]
  BY <1>4, <1>5
<1>7. ASSUME NEW s \in SUBSET P, NEW t \in SUBSET P, code[s] = code[t]
      PROVE  s = t
  <2>1. ASSUME NEW i \in 1 .. n PROVE Bit(s, i) = Bit(t, i)
    <3>1. h[Bit(s, i)] - 1 = h[Bit(t, i)] - 1
      BY <1>7
    <3>2. Bit(s, i) \in SUBSET B /\ Bit(t, i) \in SUBSET B
      BY <1>4
    <3> HIDE DEF B, Bit
    <3>3. h[Bit(s, i)] \in Int /\ h[Bit(t, i)] \in Int
      BY <1>1, <1>3, <3>2
    <3>4. QED
      BY <1>3, <3>1, <3>2, <3>3
  <2>2. ASSUME NEW i \in 1 .. n, NEW k \in B PROVE <<i, k>> \in s <=> <<i, k>> \in t
    BY <2>1
  <2>3. QED
    BY <2>2
<1>8. code \in Injection(SUBSET P, [1 .. n -> 0 .. size - 1])
  <2> DEFINE D == [1 .. n -> 0 .. size - 1]
             S == SUBSET P
  <2>1. code \in [S -> D] /\ \A s, t \in S : code[s] = code[t] => s = t
    BY <1>6, <1>7
  <2> HIDE DEF S, D, code
  <2>2. QED
    BY <2>1, Fun_IsInj DEF S, D
<1>9. QED
  BY <1>8 DEF ExistsInjection

(* The draws of n symbols are a finite set.                                *)
LEMMA DrawsAreFinite ==
  ASSUME NEW n \in Nat, NEW size \in Nat
  PROVE  IsFiniteSet([1 .. n -> 0 .. size - 1])
<1> DEFINE D == [1 .. n -> 0 .. size - 1]
           Q == (1 .. n) \X (0 .. size - 1)
           graph == [f \in D |-> {<<i, f[i]>> : i \in 1 .. n}]
<1>1. IsFiniteSet(SUBSET Q)
  <2>1. IsFiniteSet(1 .. n) /\ IsFiniteSet(0 .. size - 1)
    BY FS_Interval
  <2>2. IsFiniteSet(Q)
    BY <2>1, FS_Product
  <2>3. QED
    BY <2>2, FS_SUBSET
<1>2. graph \in [D -> SUBSET Q]
  OBVIOUS
<1>3. ASSUME NEW f \in D, NEW g \in D, graph[f] = graph[g] PROVE f = g
  <2>1. ASSUME NEW i \in 1 .. n PROVE f[i] = g[i]
    <3>1. <<i, f[i]>> \in graph[g]
      BY <1>3
    <3>2. PICK k \in 1 .. n : <<i, f[i]>> = <<k, g[k]>>
      BY <3>1
    <3>3. QED
      BY <3>2
  <2>2. QED
    BY <2>1
<1>4. graph \in Injection(D, SUBSET Q)
  BY <1>2, <1>3, Fun_IsInj
<1>5. QED
  BY <1>1, <1>4, FS_Injection

(* Different draws make different texts, with a check word too.            *)
LEMMA TextsDiffer ==
  ASSUME NEW r \in Making!Recipes, NEW size \in Nat, NEW f \in [1 .. r.count -> 0 .. size - 1],
         NEW g \in [1 .. r.count -> 0 .. size - 1], Making!TextOf(r, f) = Making!TextOf(r, g)
  PROVE  f = g
<1>1. r.count \in Nat
  BY RecipeIs
<1>2. f \in Seq(Nat) /\ g \in Seq(Nat) /\ Len(f) = r.count /\ Len(g) = r.count
  BY <1>1
<1>3. CASE r.kind = "check word"
  <2> DEFINE x == Making!CheckWord(f)
             y == Making!CheckWord(g)
  <2>1. Append(f, x) = Append(g, y)
    BY <1>3 DEF Making!TextOf
  <2> HIDE DEF x, y
  <2>2. ASSUME NEW i \in 1 .. r.count PROVE f[i] = g[i]
    <3>1. f[i] = Append(f, x)[i] /\ g[i] = Append(g, y)[i]
      BY <1>1, <1>2
    <3>2. QED
      BY <2>1, <3>1
  <2>3. QED
    BY <1>1, <2>2
<1>4. QED
  BY <1>3 DEF Making!TextOf

(* As many texts as there are draws are as many as the bits tell.          *)
LEMMA TextsTellBits ==
  ASSUME NEW n \in Nat, NEW w \in Nat, NEW size \in Nat, 2 ^ w <= size,
         NEW T, NEW spells \in Bijection([1 .. n -> 0 .. size - 1], T)
  PROVE  2 ^ (n * w) <= Cardinality(T)
<1> DEFINE D == [1 .. n -> 0 .. size - 1]
           P == (1 .. n) \X (1 .. w)
           S == SUBSET P
<1>1. IsFiniteSet(S) /\ Cardinality(S) = 2 ^ (n * w)
  <2>1. IsFiniteSet(1 .. n) /\ Cardinality(1 .. n) = n
    BY FS_Interval
  <2>2. IsFiniteSet(1 .. w) /\ Cardinality(1 .. w) = w
    BY FS_Interval
  <2>3. IsFiniteSet(P) /\ Cardinality(P) = Cardinality(1 .. n) * Cardinality(1 .. w)
    BY <2>1, <2>2, FS_Product
  <2>4. Cardinality(S) = 2 ^ Cardinality(P) /\ IsFiniteSet(S)
    BY <2>3, FS_SUBSET
  <2>5. QED
    BY <2>1, <2>2, <2>3, <2>4
<1>2. ExistsInjection(S, D)
  BY BitsCountDraws
<1>3. IsFiniteSet(D)
  BY DrawsAreFinite
<1> HIDE DEF D, S
<1>5. spells \in Injection(D, T) /\ spells \in Surjection(D, T)
  BY Fun_BijectionProperties DEF D
<1>6. PICK code : code \in Injection(S, D)
  BY <1>2 DEF ExistsInjection
<1>7. [s \in S |-> spells[code[s]]] \in Injection(S, T)
  BY <1>5, <1>6, Fun_InjTransitive
<1>8. IsFiniteSet(T)
  BY <1>3, <1>5, FS_Surjection
<1>9. Cardinality(S) <= Cardinality(T)
  BY <1>7, <1>8, FS_Injection
<1>10. QED
  BY <1>1, <1>9

(* A recipe's passwords are as many as its bits tell.                      *)
LEMMA StrengthIsTrueOf ==
  ASSUME NEW r \in Making!Recipes
  PROVE  2 ^ Making!Bits(r) <= Cardinality({Making!TextOf(r, words) :
                                     words \in [1 .. r.count -> 0 .. Making!Sizes(r) - 1]})
<1> DEFINE n == r.count
           w == IF r.kind = "characters" THEN GlyphBits ELSE WordBits
           size == Making!Sizes(r)
           D == [1 .. n -> 0 .. size - 1]
           T == {Making!TextOf(r, words) : words \in D}
           spells == [f \in D |-> Making!TextOf(r, f)]
<1>1. n \in Nat /\ w \in Nat /\ size \in Nat /\ 2 ^ w <= size
  <2>1. n \in Nat /\ w \in Nat
    BY MakingNumbers, RecipeIs
  <2>2. Faces * Faces \in Nat
    BY MakingNumbers
  <2>3. QED
    BY <2>1, <2>2, MakingAssumption DEF Making!Sizes, Making!ListSize
<1>2. Making!Bits(r) = n * w
  BY <1>1 DEF Making!Bits
<1>3. spells \in Bijection(D, T)
  <2>1. \A f, g \in D : spells[f] = spells[g] => f = g
    BY <1>1, TextsDiffer
  <2>2. spells \in [D -> T] /\ \A t \in T : \E f \in D : spells[f] = t
    OBVIOUS
  <2> HIDE DEF D, T, spells
  <2>3. QED
    BY <2>1, <2>2, Fun_IsBij
<1> HIDE DEF n, w, size, T, spells
<1>4. 2 ^ (n * w) <= Cardinality(T)
  BY <1>1, <1>3, TextsTellBits
<1>5. QED
  BY <1>2, <1>4 DEF n, size, T

(* A recipe is weak when it has fewer bits than one of recommended size.   *)
LEMMA WeaknessIsTrue ==
  ASSUME NEW r \in Making!Recipes
  PROVE  Making!IsWeak(r) <=> Making!Bits(r) < Making!Bits([r EXCEPT !.count = Making!Few(r)])
<1> DEFINE w == IF r.kind = "characters" THEN GlyphBits ELSE WordBits
           few == Making!Few(r)
<1>1. r.count \in Nat /\ w \in Nat \ {0} /\ few \in Nat
  BY MakingNumbers, RecipeIs DEF Making!Few
<1>2. [r EXCEPT !.count = few].count = few /\ [r EXCEPT !.count = few].kind = r.kind
  BY DEF Making!Recipes
<1>3. Making!Bits(r) = w * r.count /\ Making!Bits([r EXCEPT !.count = few]) = w * few
  BY <1>2 DEF Making!Bits
<1>4. \A a, b \in Nat : w * a < w * b <=> a < b
  <2> HIDE DEF w
  <2>1. ASSUME NEW a \in Nat, NEW b \in Nat, a < b PROVE w * a < w * b
    BY <1>1, <2>1
  <2>2. ASSUME NEW a \in Nat, NEW b \in Nat, b <= a PROVE w * b <= w * a
    BY <1>1, <2>2
  <2>3. QED
    BY <1>1, <2>1, <2>2
<1>5. r.kind = "check word" => ~(r.count < few)
  <2>1. r.kind = "check word" => r.count = CheckedWords /\ few = FewWords
    BY RecipeIs DEF Making!Few
  <2> HIDE DEF few
  <2>2. QED
    BY <2>1, CheckedAreNotFew
<1>6. Making!IsWeak(r) <=> r.count < few
  BY <1>5 DEF Making!IsWeak
<1>7. QED
  <2> HIDE DEF w, few
  <2>1. Making!Bits(r) < Making!Bits([r EXCEPT !.count = few]) <=> r.count < few
    BY <1>1, <1>3, <1>4
  <2>2. QED
    BY <1>6, <2>1 DEF few

(* A word of the list is told by one roll of the dice.                     *)
LEMMA OneRollForAWord ==
  ASSUME NEW g \in Making!Groups, NEW h \in Making!Groups, Making!Digits(g), Making!Digits(h)
  PROVE  /\ Making!IndexOfRolls(g) \in 0 .. Making!ListSize - 1
         /\ Making!IndexOfRolls(g) = Making!IndexOfRolls(h) => g = h
<1>1. Faces \in Nat \ {0}
  BY MakingAssumption
<1>2. ASSUME NEW k \in Making!Groups, Making!Digits(k)
      PROVE  k = <<k[1], k[2]>> /\ k[1] \in 1 .. Faces /\ k[2] \in 1 .. Faces
  BY <1>1, <1>2 DEF Making!Groups, Making!Digits
<1> DEFINE a == g[1]  b == g[2]  c == h[1]  d == h[2]
<1>3. /\ a \in 1 .. Faces /\ b \in 1 .. Faces /\ c \in 1 .. Faces /\ d \in 1 .. Faces
      /\ g = <<a, b>> /\ h = <<c, d>>
  BY <1>2
<1> HIDE DEF a, b, c, d
<1>4. (a - 1) * Faces + b - 1 \in 0 .. Faces * Faces - 1
  <2>1. (a - 1) * Faces >= 0 /\ (a - 1) * Faces <= (Faces - 1) * Faces
    BY <1>1, <1>3
  <2>2. (Faces - 1) * Faces = Faces * Faces - Faces
    BY <1>1
  <2>3. (a - 1) * Faces \in Int /\ Faces * Faces \in Int
    BY <1>1, <1>3
  <2>4. QED
    BY <1>1, <1>3, <2>1, <2>2, <2>3
<1>5. ASSUME (a - 1) * Faces + b - 1 = (c - 1) * Faces + d - 1 PROVE a = c /\ b = d
  <2>1. (a - 1) * Faces \in Int /\ (c - 1) * Faces \in Int
    BY <1>1, <1>3
  <2>2. (a - 1) * Faces - (c - 1) * Faces < Faces /\ (c - 1) * Faces - (a - 1) * Faces < Faces
    BY <1>1, <1>3, <1>5, <2>1
  <2>3. ~(a > c)
    <3>1. a > c => (a - 1) * Faces >= (c - 1) * Faces + Faces
      BY <1>1, <1>3
    <3>2. QED
      BY <1>1, <2>1, <2>2, <3>1
  <2>4. ~(c > a)
    <3>1. c > a => (c - 1) * Faces >= (a - 1) * Faces + Faces
      BY <1>1, <1>3
    <3>2. QED
      BY <1>1, <2>1, <2>2, <3>1
  <2>5. a = c
    BY <1>3, <2>3, <2>4
  <2>6. QED
    BY <1>3, <1>5, <2>1, <2>5
<1>6. QED
  BY <1>3, <1>4, <1>5 DEF Making!IndexOfRolls, Making!ListSize, a, b, c, d

(* The place in the list that a roll gives is a number.                    *)
LEMMA IndexIsNatural ==
  ASSUME NEW g \in Making!Groups, Making!Digits(g)
  PROVE  Making!IndexOfRolls(g) \in Nat
<1>1. Making!IndexOfRolls(g) \in 0 .. Making!ListSize - 1
  BY OneRollForAWord
<1>2. Making!ListSize \in Nat
  BY MakingNumbers DEF Making!ListSize
<1>3. QED
  BY <1>1, <1>2

-----------------------------------------------------------------------------
(* The password that is being made, or was.                                *)
MakingTypes ==
  /\ make \in {"begin", "refused", "rolling", "ready", "drawing", "no randomness", "made", "shown",
               "done"}
  /\ recipe \in Making!Recipes /\ dice \in BOOLEAN
  /\ rolled \in Seq(Making!Groups) /\ drawn \in Seq(Nat)
  /\ screens = [private |-> screens.private, main |-> screens.main]

(* What is known of a password before it is shown.                         *)
MakingStages ==
  /\ make \in {"rolling", "ready", "drawing", "no randomness", "made", "shown", "done"} =>
       Making!Offered(recipe)
  /\ make \in {"ready", "drawing", "no randomness"} => ~dice
  /\ make = "begin" => rolled = <<>> /\ drawn = <<>> /\ place = "none"
  /\ make # "begin" /\ maker = "page" => place = "page"
  /\ make \in {"begin", "rolling", "ready"} => randoms = "unused"
  /\ dice => randoms = "unused"
  /\ strength \in {Making!Nothing, [bits |-> Making!Bits(recipe), weak |-> Making!IsWeak(recipe)]}
  /\ Making!Told => make \in {"shown", "done"}

(* The sequence d is index of the members of r that are in F, in order.    *)
TakenFrom(from, d, r, F, index) ==
  /\ from \in [DOMAIN d -> DOMAIN r]
  /\ \A i, k \in DOMAIN d : i < k => from[i] < from[k]
  /\ {from[i] : i \in DOMAIN d} = {i \in DOMAIN r : r[i] \in F}
  /\ \A i \in DOMAIN d : d[i] = index[r[from[i]]]

Fitting == {g \in Making!Groups : Making!Digits(g)}
IndexOf == [g \in Making!Groups |-> Making!IndexOfRolls(g)]

(* The groups of digits that fit are the words so far, in their order.     *)
RolledInOrder ==
  dice /\ make \in {"rolling", "made", "shown", "done"} =>
    \E from : TakenFrom(from, drawn, rolled, Fitting, IndexOf)

(* A password of dice that is made has all its words.                      *)
AllRolled == dice /\ make \in {"made", "shown", "done"} => Len(drawn) = recipe.count

(* In the steps of a command nothing stands on the main screen, and before *)
(* the password is shown nothing on the private one.                       *)
OnPrivateScreen ==
  /\ make = "begin" => screens.private = {} /\ screens.main = {}
  /\ Making!LeavesNoTrace

MakingInv == MakingTypes /\ MakingStages /\ RolledInOrder /\ AllRolled /\ OnPrivateScreen

(* What sequences are and how they grow.                                   *)
LEMMA SequencesGrow ==
  /\ \A S : <<>> \in Seq(S)
  /\ \A S : \A s \in Seq(S), x \in S : Append(s, x) \in Seq(S)
  OBVIOUS

LEMMA GroupsAreSequences ==
  ASSUME NEW S, NEW groups \in UNION {[1 .. n -> S \ {<<>>}] : n \in 0 .. MostWords}
  PROVE  groups \in Seq(S)
<1>1. PICK n \in 0 .. MostWords : groups \in [1 .. n -> S \ {<<>>}]
  OBVIOUS
<1>2. n \in Nat
  BY MakingNumbers
<1>3. QED
  BY <1>1, <1>2

LEMMA IndexesAreSequences ==
  ASSUME NEW groups \in Seq(Making!Groups),
         \A i \in DOMAIN groups : Making!IndexOfRolls(groups[i]) \in Nat
  PROVE  Making!RolledIndexes(groups) \in Seq(Nat)
<1> DEFINE index(g) == Making!IndexOfRolls(g)
           G == Making!Groups
<1> HIDE DEF index, G
<1>1. groups \in Seq(G) /\ \A i \in DOMAIN groups : index(groups[i]) \in Nat
  BY DEF index, G
<1>2. DOMAIN groups = 1 .. Len(groups) /\ Len(groups) \in Nat
  BY <1>1
<1>3. [i \in DOMAIN groups |-> index(groups[i])] \in Seq(Nat)
  BY <1>1, <1>2
<1>4. QED
  BY <1>3 DEF index, Making!RolledIndexes

LEMMA DrawsAreNatural ==
  ASSUME NEW r, NEW index \in 0 .. Making!Sizes(r) - 1
  PROVE  index \in Nat
<1>1. Faces * Faces \in Nat /\ Glyphs \in Nat
  BY MakingNumbers
<1>2. Making!Sizes(r) \in Nat
  BY <1>1 DEF Making!Sizes, Making!ListSize
<1>3. QED
  BY <1>2

(* The invariant holds at the beginning, and every step keeps each part.   *)
LEMMA MakingBegins == Making!Init => MakingInv
<1> SUFFICES ASSUME Making!Init PROVE MakingInv
  OBVIOUS
<1>1. recipe \in Making!Recipes
  BY MakingNumbers DEF Making!Init, Making!Recipes
<1>2. MakingTypes
  BY <1>1, SequencesGrow DEF Making!Init, MakingTypes
<1>3. MakingStages
  BY DEF Making!Init, MakingStages, Making!Told
<1>4. RolledInOrder /\ AllRolled /\ OnPrivateScreen
  BY DEF Making!Init, RolledInOrder, AllRolled, OnPrivateScreen, Making!LeavesNoTrace
<1>5. QED
  BY <1>2, <1>3, <1>4 DEF MakingInv

LEMMA MakingKeepsTypes == MakingTypes /\ Making!Next => MakingTypes'
<1> SUFFICES ASSUME MakingTypes, Making!Next PROVE MakingTypes'
  OBVIOUS
<1> USE DEF MakingTypes
<1>1. CASE Making!Begins
  BY <1>1 DEF Making!Begins
<1>2. CASE Making!PageBegins
  <2>1. PICK groups \in UNION {[1 .. n -> Making!Groups \ {<<>>}] : n \in 0 .. MostWords} :
          /\ rolled' = groups /\ dice' \in BOOLEAN
          /\ make' \in {"refused", "made", "ready"}
          /\ make' = "made" => Making!TakesRolls(recipe', groups)
          /\ drawn' = IF make' = "made" THEN Making!RolledIndexes(groups) ELSE <<>>
    BY <1>2 DEF Making!PageBegins
  <2>2. groups \in Seq(Making!Groups)
    BY GroupsAreSequences
  <2>3. ASSUME make' = "made" PROVE Making!RolledIndexes(groups) \in Seq(Nat)
    <3>1. \A i \in DOMAIN groups : Making!Digits(groups[i]) /\ groups[i] \in Making!Groups
      BY <2>1, <2>2, <2>3 DEF Making!TakesRolls
    <3>2. \A i \in DOMAIN groups : Making!IndexOfRolls(groups[i]) \in Nat
      BY <3>1, IndexIsNatural
    <3>3. QED
      BY <2>2, <3>2, IndexesAreSequences
  <2>4. drawn' \in Seq(Nat)
    BY <2>1, <2>3, SequencesGrow
  <2>5. recipe' \in Making!Recipes /\ screens' = screens
    BY <1>2 DEF Making!PageBegins
  <2>6. QED
    BY <2>1, <2>2, <2>4, <2>5
<1>3. CASE Making!Rolls
  <2>1. PICK group \in Making!Groups :
          /\ rolled' = Append(rolled, group)
          /\ drawn' = IF Making!Digits(group) THEN Append(drawn, Making!IndexOfRolls(group))
                       ELSE drawn
    BY <1>3 DEF Making!Rolls
  <2>2. drawn' \in Seq(Nat)
    <3>1. Making!Digits(group) => Making!IndexOfRolls(group) \in Nat
      BY IndexIsNatural
    <3>2. CASE Making!Digits(group)
      BY <2>1, <3>1, <3>2, SequencesGrow
    <3>3. CASE ~Making!Digits(group)
      BY <2>1, <3>3
    <3>4. QED
      BY <3>2, <3>3
  <2>3. rolled' \in Seq(Making!Groups)
    BY <2>1, SequencesGrow
  <2>4. QED
    BY <1>3, <2>2, <2>3 DEF Making!Rolls
<1>4. CASE Making!Draws
  <2>1. PICK index \in 0 .. Making!Sizes(recipe) - 1 : drawn' = Append(drawn, index)
    BY <1>4 DEF Making!Draws
  <2>2. drawn' \in Seq(Nat)
    BY <2>1, DrawsAreNatural, SequencesGrow
  <2>3. QED
    BY <1>4, <2>2 DEF Making!Draws
<1>5. CASE Making!Probes
  BY <1>5 DEF Making!Probes
<1>6. CASE Making!Fails
  BY <1>6 DEF Making!Fails
<1>7. CASE Making!Presses
  BY <1>7 DEF Making!Presses
<1>8. CASE Making!Shows
  BY <1>8 DEF Making!Shows
<1>9. CASE Making!Discards
  BY <1>9 DEF Making!Discards
<1>10. CASE Making!Leaves
  BY <1>10 DEF Making!Leaves, Making!Cleared
<1>11. CASE Making!Another
  BY <1>11, SequencesGrow DEF Making!Another, Making!Cleared
<1>12. CASE Making!Returns
  BY <1>12 DEF Making!Returns, Making!Cleared
<1>13. QED
  BY <1>1, <1>2, <1>3, <1>4, <1>5, <1>6, <1>7, <1>8, <1>9, <1>10, <1>11, <1>12 DEF Making!Next

LEMMA MakingKeepsStages == MakingTypes /\ MakingStages /\ Making!Next => MakingStages'
<1> SUFFICES ASSUME MakingTypes, MakingStages, Making!Next PROVE MakingStages'
  OBVIOUS
<1> USE DEF MakingTypes, MakingStages, Making!Told
<1>1. CASE Making!Begins
  BY <1>1 DEF Making!Begins
<1>2. CASE Making!PageBegins
  BY <1>2 DEF Making!PageBegins
<1>3. CASE Making!Rolls
  BY <1>3 DEF Making!Rolls
<1>4. CASE Making!Draws
  BY <1>4 DEF Making!Draws
<1>5. CASE Making!Probes
  BY <1>5 DEF Making!Probes
<1>6. CASE Making!Fails
  BY <1>6 DEF Making!Fails
<1>7. CASE Making!Presses
  BY <1>7 DEF Making!Presses
<1>8. CASE Making!Shows
  BY <1>8 DEF Making!Shows
<1>9. CASE Making!Discards
  BY <1>9 DEF Making!Discards
<1>10. CASE Making!Leaves
  BY <1>10 DEF Making!Leaves
<1>11. CASE Making!Another
  BY <1>11 DEF Making!Another
<1>12. CASE Making!Returns
  BY <1>12 DEF Making!Returns
<1>13. QED
  BY <1>1, <1>2, <1>3, <1>4, <1>5, <1>6, <1>7, <1>8, <1>9, <1>10, <1>11, <1>12 DEF Making!Next

LEMMA MakingKeepsPrivate ==
  MakingTypes /\ MakingStages /\ OnPrivateScreen /\ Making!Next => OnPrivateScreen'
<1> SUFFICES ASSUME MakingTypes, MakingStages, OnPrivateScreen, Making!Next PROVE OnPrivateScreen'
  OBVIOUS
<1> USE DEF MakingTypes, MakingStages, OnPrivateScreen, Making!LeavesNoTrace
<1>1. CASE Making!Begins
  BY <1>1 DEF Making!Begins
<1>2. CASE Making!PageBegins
  BY <1>2 DEF Making!PageBegins
<1>3. CASE Making!Rolls
  BY <1>3 DEF Making!Rolls
<1>4. CASE Making!Draws
  BY <1>4 DEF Making!Draws
<1>5. CASE Making!Probes
  BY <1>5 DEF Making!Probes
<1>6. CASE Making!Fails
  BY <1>6 DEF Making!Fails
<1>7. CASE Making!Presses
  BY <1>7 DEF Making!Presses
<1>8. CASE Making!Shows
  BY <1>8 DEF Making!Shows
<1>9. CASE Making!Discards
  BY <1>9 DEF Making!Discards, Making!Waits
<1>10. CASE Making!Leaves
  BY <1>10 DEF Making!Leaves, Making!Cleared, Making!Waits
<1>11. CASE Making!Another
  BY <1>11 DEF Making!Another, Making!Cleared
<1>12. CASE Making!Returns
  BY <1>12 DEF Making!Returns, Making!Cleared
<1>13. QED
  BY <1>1, <1>2, <1>3, <1>4, <1>5, <1>6, <1>7, <1>8, <1>9, <1>10, <1>11, <1>12 DEF Making!Next

(* How the words follow the groups: from none to none, by a group that     *)
(* fits, past one that does not, and all at once.                          *)
LEMMA NothingTaken ==
  ASSUME NEW F, NEW index
  PROVE  \E from : TakenFrom(from, <<>>, <<>>, F, index)
<1> DEFINE E == <<>>
<1>1. DOMAIN E = {}
  OBVIOUS
<1> HIDE DEF E
<1>2. TakenFrom([i \in {} |-> i], E, E, F, index)
  BY <1>1 DEF TakenFrom
<1>3. QED
  BY <1>2 DEF E

LEMMA SameLength ==
  ASSUME NEW S, NEW s \in Seq(S), NEW t, DOMAIN t = DOMAIN s, t = [i \in DOMAIN s |-> t[i]]
  PROVE  Len(t) = Len(s)
  OBVIOUS

LEMMA OneMoreTaken ==
  ASSUME NEW G, NEW F, NEW index, NEW r \in Seq(G), NEW d \in Seq(Nat), NEW g \in G, g \in F,
         index[g] \in Nat, NEW from, TakenFrom(from, d, r, F, index)
  PROVE  \E to : TakenFrom(to, Append(d, index[g]), Append(r, g), F, index)
<1> DEFINE n == Len(d)
           m == Len(r)
           to == [i \in 1 .. n + 1 |-> IF i = n + 1 THEN m + 1 ELSE from[i]]
           e == Append(d, index[g])
           q == Append(r, g)
<1>1. /\ n \in Nat /\ m \in Nat /\ DOMAIN d = 1 .. n /\ DOMAIN r = 1 .. m
      /\ DOMAIN e = 1 .. n + 1 /\ DOMAIN q = 1 .. m + 1
      /\ e[n + 1] = index[g] /\ q[m + 1] = g
      /\ \A i \in 1 .. n : e[i] = d[i]
      /\ \A i \in 1 .. m : q[i] = r[i]
  OBVIOUS
<1>2. /\ from \in [1 .. n -> 1 .. m]
      /\ \A i, k \in 1 .. n : i < k => from[i] < from[k]
      /\ {from[i] : i \in 1 .. n} = {i \in 1 .. m : r[i] \in F}
      /\ \A i \in 1 .. n : d[i] = index[r[from[i]]]
  BY <1>1 DEF TakenFrom
<1> HIDE DEF n, m, e, q
<1>3. to \in [1 .. n + 1 -> 1 .. m + 1]
  BY <1>1, <1>2
<1>4. \A i, k \in 1 .. n + 1 : i < k => to[i] < to[k]
  BY <1>1, <1>2
<1>5. {to[i] : i \in 1 .. n + 1} = {i \in 1 .. m + 1 : q[i] \in F}
  <2>1. ASSUME NEW i \in 1 .. n + 1 PROVE to[i] \in 1 .. m + 1 /\ q[to[i]] \in F
    <3>1. CASE i = n + 1
      BY <1>1, <3>1
    <3>2. CASE i \in 1 .. n
      <4>1. to[i] = from[i] /\ from[i] \in 1 .. m /\ r[from[i]] \in F
        BY <1>1, <1>2, <3>2
      <4>2. QED
        BY <1>1, <4>1
    <3>3. QED
      BY <1>1, <3>1, <3>2
  <2>2. ASSUME NEW k \in 1 .. m + 1, q[k] \in F PROVE \E i \in 1 .. n + 1 : to[i] = k
    <3>1. CASE k = m + 1
      BY <1>1, <3>1
    <3>2. CASE k \in 1 .. m
      <4>1. PICK i \in 1 .. n : from[i] = k
        BY <1>1, <1>2, <2>2, <3>2
      <4>2. QED
        BY <1>1, <4>1
    <3>3. QED
      BY <1>1, <3>1, <3>2
  <2>3. QED
    BY <2>1, <2>2
<1>6. ASSUME NEW i \in 1 .. n + 1 PROVE e[i] = index[q[to[i]]]
  <2>1. CASE i = n + 1
    BY <1>1, <2>1
  <2>2. CASE i \in 1 .. n
    <3>1. to[i] = from[i] /\ from[i] \in 1 .. m
      BY <1>1, <1>2, <2>2
    <3>2. QED
      BY <1>1, <1>2, <2>2, <3>1
  <2>3. QED
    BY <1>1, <2>1, <2>2
<1>7. TakenFrom(to, e, q, F, index)
  BY <1>1, <1>3, <1>4, <1>5, <1>6 DEF TakenFrom
<1>8. QED
  BY <1>7 DEF e, q

LEMMA OneNotTaken ==
  ASSUME NEW G, NEW F, NEW index, NEW r \in Seq(G), NEW d \in Seq(Nat), NEW g \in G, g \notin F,
         NEW from, TakenFrom(from, d, r, F, index)
  PROVE  TakenFrom(from, d, Append(r, g), F, index)
<1> DEFINE n == Len(d)
           m == Len(r)
           q == Append(r, g)
<1>1. /\ n \in Nat /\ m \in Nat /\ DOMAIN d = 1 .. n /\ DOMAIN r = 1 .. m
      /\ DOMAIN q = 1 .. m + 1 /\ q[m + 1] = g /\ \A i \in 1 .. m : q[i] = r[i]
  OBVIOUS
<1>2. /\ from \in [1 .. n -> 1 .. m]
      /\ \A i, k \in 1 .. n : i < k => from[i] < from[k]
      /\ {from[i] : i \in 1 .. n} = {i \in 1 .. m : r[i] \in F}
      /\ \A i \in 1 .. n : d[i] = index[r[from[i]]]
  BY <1>1 DEF TakenFrom
<1> HIDE DEF n, m, q
<1>3. from \in [1 .. n -> 1 .. m + 1]
  BY <1>1, <1>2
<1>4. {i \in 1 .. m + 1 : q[i] \in F} = {i \in 1 .. m : r[i] \in F}
  BY <1>1
<1>5. \A i \in 1 .. n : d[i] = index[q[from[i]]]
  BY <1>1, <1>2
<1>6. TakenFrom(from, d, q, F, index)
  BY <1>1, <1>2, <1>3, <1>4, <1>5 DEF TakenFrom
<1>7. QED
  BY <1>6 DEF q

LEMMA AllTaken ==
  ASSUME NEW G, NEW F, NEW index, NEW r \in Seq(G), NEW d, DOMAIN d = DOMAIN r,
         \A i \in DOMAIN r : r[i] \in F /\ d[i] = index[r[i]]
  PROVE  TakenFrom([i \in DOMAIN r |-> i], d, r, F, index)
  BY DEF TakenFrom

LEMMA MakingKeepsRolls ==
  MakingTypes /\ MakingStages /\ RolledInOrder /\ Making!Next => RolledInOrder'
<1> SUFFICES ASSUME MakingTypes, MakingStages, RolledInOrder, Making!Next PROVE RolledInOrder'
  OBVIOUS
<1>1. CASE Making!Begins
  <2>1. drawn' = <<>> /\ rolled' = <<>> /\ make' \in {"refused", "rolling", "ready"}
    BY <1>1 DEF Making!Begins, MakingStages
  <2>2. QED
    BY <2>1, NothingTaken DEF RolledInOrder
<1>2. CASE Making!PageBegins
  <2>1. PICK groups \in UNION {[1 .. n -> Making!Groups \ {<<>>}] : n \in 0 .. MostWords} :
          /\ rolled' = groups
          /\ make' \in {"refused", "made", "ready"}
          /\ make' = "made" => Making!TakesRolls(recipe', groups)
          /\ make' = "made" => drawn' = Making!RolledIndexes(groups)
    BY <1>2 DEF Making!PageBegins
  <2>2. groups \in Seq(Making!Groups)
    BY GroupsAreSequences
  <2>3. ASSUME make' = "made"
        PROVE  TakenFrom([i \in DOMAIN rolled' |-> i], drawn', rolled', Fitting, IndexOf)
    <3>1. \A i \in DOMAIN groups : Making!Digits(groups[i]) /\ groups[i] \in Making!Groups
      BY <2>1, <2>2, <2>3 DEF Making!TakesRolls
    <3>2. /\ DOMAIN drawn' = DOMAIN groups
          /\ \A i \in DOMAIN groups : groups[i] \in Fitting /\ drawn'[i] = IndexOf[groups[i]]
      BY <2>1, <2>3, <3>1 DEF Making!RolledIndexes, Fitting, IndexOf
    <3>3. QED
      BY <2>1, <2>2, <3>2, AllTaken
  <2>4. QED
    BY <2>1, <2>3 DEF RolledInOrder
<1>3. CASE Making!Rolls
  <2>1. PICK group \in Making!Groups :
          /\ rolled' = Append(rolled, group)
          /\ drawn' = IF Making!Digits(group) THEN Append(drawn, Making!IndexOfRolls(group))
                       ELSE drawn
    BY <1>3 DEF Making!Rolls
  <2>2. make = "rolling" /\ dice' = dice
    BY <1>3 DEF Making!Rolls
  <2> SUFFICES ASSUME dice PROVE \E from : TakenFrom(from, drawn', rolled', Fitting, IndexOf)
    BY <2>2 DEF RolledInOrder
  <2>3. PICK from : TakenFrom(from, drawn, rolled, Fitting, IndexOf)
    BY <2>2 DEF RolledInOrder
  <2>4. rolled \in Seq(Making!Groups) /\ drawn \in Seq(Nat)
    BY DEF MakingTypes
  <2>5. CASE Making!Digits(group)
    <3>1. group \in Fitting /\ IndexOf[group] = Making!IndexOfRolls(group)
      BY <2>5 DEF Fitting, IndexOf
    <3>2. IndexOf[group] \in Nat
      BY <2>5, <3>1, IndexIsNatural
    <3>3. \E to : TakenFrom(to, Append(drawn, IndexOf[group]), Append(rolled, group), Fitting,
                           IndexOf)
      BY <2>3, <2>4, <3>1, <3>2, OneMoreTaken
    <3>4. QED
      BY <2>1, <2>5, <3>1, <3>3
  <2>6. CASE ~Making!Digits(group)
    <3>1. group \notin Fitting
      BY <2>6 DEF Fitting
    <3>2. TakenFrom(from, drawn, Append(rolled, group), Fitting, IndexOf)
      BY <2>3, <2>4, <3>1, OneNotTaken
    <3>3. QED
      BY <2>1, <2>6, <3>2
  <2>7. QED
    BY <2>5, <2>6
<1>4. CASE Making!Draws
  BY <1>4 DEF Making!Draws, RolledInOrder, MakingStages
<1>5. CASE Making!Probes
  BY <1>5 DEF Making!Probes, RolledInOrder, MakingStages
<1>6. CASE Making!Fails \/ Making!Presses
  BY <1>6 DEF Making!Fails, Making!Presses, RolledInOrder
<1>7. CASE Making!Shows
  BY <1>7 DEF Making!Shows, RolledInOrder
<1>8. CASE Making!Discards \/ Making!Leaves \/ Making!Returns
  BY <1>8 DEF Making!Discards, Making!Leaves, Making!Returns, RolledInOrder
<1>9. CASE Making!Another
  <2>1. drawn' = <<>> /\ rolled' = <<>>
    BY <1>9 DEF Making!Another
  <2>2. QED
    BY <2>1, NothingTaken DEF RolledInOrder
<1>10. QED
  BY <1>1, <1>2, <1>3, <1>4, <1>5, <1>6, <1>7, <1>8, <1>9 DEF Making!Next

LEMMA MakingKeepsCount ==
  MakingTypes /\ MakingStages /\ AllRolled /\ Making!Next => AllRolled'
<1> SUFFICES ASSUME MakingTypes, MakingStages, AllRolled, Making!Next PROVE AllRolled'
  OBVIOUS
<1>1. CASE Making!Begins
  BY <1>1 DEF Making!Begins, AllRolled
<1>2. CASE Making!PageBegins
  <2>1. PICK groups \in UNION {[1 .. n -> Making!Groups \ {<<>>}] : n \in 0 .. MostWords} :
          /\ make' \in {"refused", "made", "ready"}
          /\ make' = "made" => Making!TakesRolls(recipe', groups)
          /\ make' = "made" => drawn' = Making!RolledIndexes(groups)
    BY <1>2 DEF Making!PageBegins
  <2>2. Making!RolledIndexes(groups) = [i \in DOMAIN groups |-> Making!IndexOfRolls(groups[i])]
    BY DEF Making!RolledIndexes
  <2>3. groups \in Seq(Making!Groups)
    BY GroupsAreSequences
  <2>4. Len(Making!RolledIndexes(groups)) = Len(groups)
    BY <2>2, <2>3, SameLength
  <2>5. QED
    BY <2>1, <2>4 DEF AllRolled, Making!TakesRolls
<1>3. CASE Making!Rolls
  BY <1>3 DEF Making!Rolls, AllRolled
<1>4. CASE Making!Draws
  BY <1>4 DEF Making!Draws, AllRolled, MakingStages
<1>5. CASE Making!Probes \/ Making!Fails \/ Making!Presses
  BY <1>5 DEF Making!Probes, Making!Fails, Making!Presses, AllRolled
<1>6. CASE Making!Shows
  BY <1>6 DEF Making!Shows, AllRolled
<1>7. CASE Making!Discards \/ Making!Leaves \/ Making!Returns
  BY <1>7 DEF Making!Discards, Making!Leaves, Making!Returns, AllRolled
<1>8. CASE Making!Another
  BY <1>8 DEF Making!Another, AllRolled
<1>9. QED
  BY <1>1, <1>2, <1>3, <1>4, <1>5, <1>6, <1>7, <1>8 DEF Making!Next

(* What the rolls and the strength are is true once it is told.            *)
LEMMA MakingToldTruly == MakingInv => Making!MadeAsTold
<1> SUFFICES ASSUME MakingInv PROVE Making!MadeAsTold
  OBVIOUS
<1> USE DEF MakingInv
<1>1. Making!RollsMakeIt
  <2> SUFFICES ASSUME Making!Told, dice PROVE Making!RollsMakeIt
    BY DEF Making!RollsMakeIt
  <2>1. make \in {"shown", "done"} /\ randoms = "unused" /\ Len(drawn) = recipe.count
    BY DEF MakingStages, AllRolled
  <2>2. PICK from : TakenFrom(from, drawn, rolled, Fitting, IndexOf)
    BY <2>1 DEF RolledInOrder
  <2>3. rolled \in Seq(Making!Groups)
    BY DEF MakingTypes
  <2>4. \A i \in DOMAIN rolled : rolled[i] \in Making!Groups
    BY <2>3
  <2>5. \A i \in DOMAIN rolled : rolled[i] \in Fitting <=> Making!Digits(rolled[i])
    BY <2>4 DEF Fitting
  <2>6. /\ from \in [DOMAIN drawn -> DOMAIN rolled]
        /\ \A i, k \in DOMAIN drawn : i < k => from[i] < from[k]
        /\ {from[i] : i \in DOMAIN drawn} = {i \in DOMAIN rolled : Making!Digits(rolled[i])}
    BY <2>2, <2>5 DEF TakenFrom
  <2>7. ASSUME NEW i \in DOMAIN drawn
        PROVE  /\ drawn[i] \in 0 .. Making!ListSize - 1
               /\ {g \in Making!Groups : Making!Digits(g) /\ Making!IndexOfRolls(g) = drawn[i]}
                    = {rolled[from[i]]}
    <3> DEFINE h == rolled[from[i]]
    <3>1. from[i] \in DOMAIN rolled /\ Making!Digits(h) /\ h \in Making!Groups
      BY <2>4, <2>6
    <3>2. drawn[i] = Making!IndexOfRolls(h)
      BY <2>2, <3>1 DEF TakenFrom, IndexOf
    <3> HIDE DEF h
    <3>3. drawn[i] \in 0 .. Making!ListSize - 1
      BY <3>1, <3>2, OneRollForAWord
    <3>4. \A g \in Making!Groups : Making!Digits(g) /\ Making!IndexOfRolls(g) = drawn[i] => g = h
      BY <3>1, <3>2, OneRollForAWord
    <3>5. QED
      BY <3>1, <3>2, <3>3, <3>4 DEF h
  <2>8. QED
    BY <2>1, <2>6, <2>7 DEF Making!RollsMakeIt
<1>2. Making!StrengthIsTrue
  <2> SUFFICES ASSUME Making!Told PROVE Making!StrengthIsTrue
    BY DEF Making!StrengthIsTrue
  <2>1. recipe \in Making!Recipes
    BY DEF MakingTypes
  <2>2. strength.bits = Making!Bits(recipe) /\ strength.weak = Making!IsWeak(recipe)
    <3>1. strength = [bits |-> Making!Bits(recipe), weak |-> Making!IsWeak(recipe)]
      BY DEF MakingStages, Making!Told
    <3>2. QED
      BY <3>1
  <2>3. strength.weak
          <=> strength.bits < Making!Bits([recipe EXCEPT !.count = Making!Few(recipe)])
    BY <2>1, <2>2, WeaknessIsTrue
  <2> DEFINE T == {Making!TextOf(recipe, words) :
                     words \in [1 .. recipe.count -> 0 .. Making!Sizes(recipe) - 1]}
  <2>4. Cardinality(T) = Making!Cardinality(T)
    BY DEF Cardinality, Making!Cardinality
  <2>5. 2 ^ Making!Bits(recipe) <= Cardinality(T)
    BY <2>1, StrengthIsTrueOf
  <2>6. 2 ^ strength.bits <= Making!Cardinality(T)
    BY <2>2, <2>4, <2>5
  <2>7. QED
    BY <2>3, <2>6 DEF Making!StrengthIsTrue
<1>3. QED
  BY <1>1, <1>2 DEF Making!MadeAsTold, OnPrivateScreen

(* A step is one of the part that was chosen.                              *)
LEMMA PartStays == [PartsNext]_partsVars => running' = running
  BY DEF PartsNext, partsVars

LEMMA OnlyMakingMakes ==
  [PartsNext]_partsVars /\ running = "making" => Making!Next \/ UNCHANGED makeVars
  BY DEF PartsNext, partsVars, OthersStay, RekeyRuns, SearchRuns, DrawRuns, EntryRuns, WordsRun,
         MakingRuns, ListRuns, LineRuns, PageRuns, InputRuns, AnswersRun, RequestRun, ReferenceRuns,
         HuntRuns

(* A password is made as it was told: rolled words are those of the groups *)
(* that fit, in their order and with no part of the computer's randomness, *)
(* as many passwords could have come out as its strength tells, weak ones  *)
(* are told to be weak, and none stays on a screen in the steps.           *)
THEOREM PasswordsAreMadeAsTold == PartsSpec => []MadeAsTold
<1> DEFINE Inv == running = "making" => MakingInv
<1>1. PartsInit => Inv
  BY MakingBegins DEF PartsInit
<1>2. Inv /\ [PartsNext]_partsVars => Inv'
  <2> SUFFICES ASSUME MakingInv, running = "making", [PartsNext]_partsVars PROVE MakingInv'
    BY PartStays
  <2>1. CASE Making!Next
    BY <2>1, MakingKeepsTypes, MakingKeepsStages, MakingKeepsRolls, MakingKeepsCount,
       MakingKeepsPrivate DEF MakingInv
  <2>2. CASE UNCHANGED makeVars
    BY <2>2 DEF makeVars, MakingInv, MakingTypes, MakingStages, RolledInOrder, AllRolled,
       OnPrivateScreen, Making!Told, Making!LeavesNoTrace
  <2>3. QED
    BY <2>1, <2>2, OnlyMakingMakes
<1>3. Inv => MadeAsTold
  BY MakingToldTruly DEF MadeAsTold
<1>4. QED
  BY <1>1, <1>2, <1>3, PTL DEF PartsSpec

-----------------------------------------------------------------------------
(* The long operations of a page.                                          *)

PageRequest ==
  /\ request \in [kind : Page!Kinds, reference : {"none", "detect", "length", "wallet", "sixteen"}, stated : Lengths \cup {Detect},
                  asks : BOOLEAN]
  /\ request.asks => request.kind = "check" /\ request.reference = "detect"

PageTypes ==
  /\ PageRequest
  /\ truth \in [container : Lengths, passing : SUBSET (Shorts \cup Page!Candidates),
                own : Lengths \cup {0}, sixteen : BOOLEAN]
  /\ fault \in [from : Nat, large : BOOLEAN] /\ done \in Nat
  /\ operation \in {"begin", "starting", "searching", "rounds", "verifying", "comparing",
                    "asking", "ended"}

(* What is true of an operation that has begun.                            *)
PageTruth ==
  operation # "begin" =>
    /\ request.kind \in {"decrypt", "check"} => Page!Possible(truth)
    /\ request.kind = "searchDecoy" => fault.from = Page!Never
    /\ request.kind \in {"searchDecoy", "searchWallet"} => truth.passing \subseteq Page!Candidates

(* How far it is.  From a comparison on the build was right, as far as it  *)
(* shows.                                                                  *)
PageStages ==
  /\ operation \in {"begin", "starting"} => done = 0 /\ posted = {}
  /\ operation \notin {"asking", "ended"} => told = Page!Nothing
  /\ operation \in {"starting", "rounds", "verifying"} => request.kind # "searchDecoy"
  /\ operation = "rounds" => done < Page!Calls(request.kind)
  /\ operation \in {"comparing", "asking"} =>
       request.kind = "check" /\ given.word = "state" /\ Page!KnownAnswer(done + 1)

(* The candidates heard of, and none of those compared matched.            *)
PageSearches ==
  /\ operation = "searching" =>
       /\ request.kind = "searchDecoy" /\ done \in {0, 1} /\ posted = 1 .. done
       /\ done = 1 => 1 \notin truth.passing
  /\ operation = "rounds" /\ request.kind = "searchWallet" =>
       /\ posted = IF done = 0 THEN {} ELSE IF done < 3 THEN {1} ELSE {1, 2}
       /\ done >= 2 /\ ~Page!WrongIn(done) => 1 \notin truth.passing

(* What the library gives comes of what is true, where no round was wrong. *)
GivenOf(what) ==
  CASE request.kind = "encrypt" -> what.word \in {"sealed", "VERIFICATION_FAILED"}
    [] request.kind = "selfTest" -> done = 4 /\ what = Page!Tested
    [] request.kind = "decrypt" ->
         \E checks \in SUBSET Shorts :
           what = Page!Decrypted(checks) /\ (~Page!WrongIn(done) => checks = truth.passing)
    [] request.kind = "check" ->
         /\ what.word = "state"
         /\ ~Page!WrongIn(done) => what = Page!Says("state", {truth.own}, truth.passing)
    [] request.kind = "searchWallet" ->
         /\ what.word \in {"found", "not found"}
         /\ ~Page!WrongIn(done) =>
              IF what.word = "found"
              THEN \E first \in truth.passing :
                     /\ what.names = {first} /\ \A other \in truth.passing : first <= other
                     /\ posted = 1 .. first
              ELSE truth.passing = {} /\ posted = Page!Candidates
PageGives ==
  operation \in {"verifying", "comparing", "asking"} =>
    given \in {Page!Refusal("IMPOSSIBLE"), Page!Refusal("ROUND_FAILED")} \/ GivenOf(given)

PageInv == PageTypes /\ PageTruth /\ PageStages /\ PageSearches /\ PageGives /\ Page!ToldIsEarned

LEMMA PageBegins == Page!Init => PageInv
<1> SUFFICES ASSUME Page!Init PROVE PageInv
  OBVIOUS
<1>1. PageTypes
  BY LengthsAssumption DEF Page!Init, PageTypes, PageRequest, Page!Asks, Page!Kinds, Lengths, Detect, Page!Never, Page!Detect
<1>2. PageTruth /\ PageStages /\ PageSearches /\ PageGives
  BY DEF Page!Init, PageTruth, PageStages, PageSearches, PageGives
<1>3. Page!ToldIsEarned
  BY DEF Page!Init, Page!ToldIsEarned, Page!RoundsWereRight, Page!LengthIsNamed, Page!ChecksAreTrue,
     Page!SearchesAreTrue, Page!Trusted, Page!OfThePhrase, Page!Nothing, Page!Says
<1>4. QED
  BY <1>1, <1>2, <1>3 DEF PageInv

(* What no answer of a phrase is, is told of nothing.                      *)
LEMMA ToldOfNothing ==
  ASSUME PageTypes, told.word \notin Page!OfThePhrase \cup {"passed", "wrong"}
  PROVE  Page!ToldIsEarned
  BY DEF Page!ToldIsEarned, Page!RoundsWereRight, Page!LengthIsNamed, Page!ChecksAreTrue,
     Page!SearchesAreTrue, Page!Trusted

LEMMA RequestsAre ==
  ASSUME NEW r \in Page!Requests
  PROVE  /\ r \in [kind : Page!Kinds, reference : {"none", "detect", "length", "wallet", "sixteen"},
                    stated : Lengths \cup {Detect}, asks : BOOLEAN]
         /\ r.asks => r.kind = "check" /\ r.reference = "detect"
<1>1. CASE r \in Page!ByLength("decrypt") \cup Page!ByLength("check")
  <2>1. PICK kind \in {"decrypt", "check"} :
          \/ r = Page!Asks(kind, "detect", Page!Detect, FALSE)
          \/ \E words \in Page!Lengths : r = Page!Asks(kind, "length", words, FALSE)
    BY <1>1 DEF Page!ByLength
  <2>2. CASE r = Page!Asks(kind, "detect", Page!Detect, FALSE)
    BY <2>2 DEF Page!Asks, Page!Kinds, Detect, Page!Detect
  <2>3. CASE \E words \in Page!Lengths : r = Page!Asks(kind, "length", words, FALSE)
    BY <2>3 DEF Page!Asks, Page!Kinds, Lengths, Page!Lengths
  <2>4. QED
    BY <2>1, <2>2, <2>3
<1>2. CASE \E reference_ \in {"wallet", "sixteen"} :
             r = Page!Asks("check", reference_, Page!Detect, FALSE)
  BY <1>2 DEF Page!Asks, Page!Kinds, Detect, Page!Detect
<1>3. CASE r = Page!Asks("check", "detect", Page!Detect, TRUE)
  BY <1>3 DEF Page!Asks, Page!Kinds, Detect, Page!Detect
<1>4. CASE \E kind \in Page!Kinds \ {"decrypt", "check"} :
             r = Page!Asks(kind, "none", Page!Detect, FALSE)
  BY <1>4 DEF Page!Asks, Page!Kinds, Detect, Page!Detect
<1>5. QED
  BY <1>1, <1>2, <1>3, <1>4 DEF Page!Requests

LEMMA TruthsAre ==
  ASSUME NEW kind \in Page!Kinds, NEW true \in Page!Truths(kind)
  PROVE  /\ true \in [container : Lengths, passing : SUBSET (Shorts \cup Page!Candidates),
                      own : Lengths \cup {0}, sixteen : BOOLEAN]
         /\ kind \in {"searchDecoy", "searchWallet"} => true.passing \subseteq Page!Candidates
<1>1. CASE kind \in {"decrypt", "check"}
  <2> PICK container_ \in Lengths, checks \in SUBSET Shorts,
           own_ \in Lengths \cup {0}, sixteen_ \in BOOLEAN :
        true = [container |-> container_, passing |-> checks, own |-> own_, sixteen |-> sixteen_]
    BY <1>1 DEF Page!Truths, Lengths, Page!Lengths
  <2> QED
    BY <1>1 DEF Lengths
<1>2. CASE kind \notin {"decrypt", "check"}
  <2>1. PICK matching \in IF kind \in {"searchDecoy", "searchWallet"}
                          THEN SUBSET Page!Candidates ELSE {{}} :
          true = [container |-> Full, passing |-> matching, own |-> 0, sixteen |-> FALSE]
    BY <1>2 DEF Page!Truths
  <2>2. QED
    BY <1>2, <2>1 DEF Lengths
<1>3. QED
  BY <1>1, <1>2

LEMMA PageAsks == PageInv /\ Page!Begins => PageInv'
<1> SUFFICES ASSUME PageInv, Page!Begins PROVE PageInv'
  OBVIOUS
<1> DEFINE kind == request'.kind
<1>1. /\ operation = "begin" /\ request' \in Page!Requests /\ truth' \in Page!Truths(kind)
      /\ kind \in {"decrypt", "check"} => Page!Possible(truth')
      /\ operation' = IF kind = "searchDecoy" THEN "searching" ELSE "starting"
      /\ UNCHANGED <<done, given, posted, told>>
  BY DEF Page!Begins
<1>2. fault' \in [from : Nat, large : BOOLEAN] /\ (Page!Calls(kind) = 0 => fault'.from = Page!Never)
  <2>1. PICK from \in 0 .. Page!Calls(kind) + 1 \cup {Page!Never}, large \in BOOLEAN :
          /\ Page!Calls(kind) = 0 => from = Page!Never
          /\ fault' = [from |-> from, large |-> large]
    BY DEF Page!Begins
  <2>2. Page!Calls(kind) \in Nat /\ Page!Never \in Nat
    BY DEF Page!Calls, Page!Rounds, Page!Never
  <2>3. QED
    BY <2>1, <2>2
<1>3. PageTypes' /\ PageTruth'
  <2>1. PageRequest' /\ kind \in Page!Kinds
    BY <1>1, RequestsAre DEF PageRequest
  <2>2. truth' \in [container : Lengths, passing : SUBSET (Shorts \cup Page!Candidates),
                    own : Lengths \cup {0}, sixteen : BOOLEAN]
        /\ (kind \in {"searchDecoy", "searchWallet"} => truth'.passing \subseteq Page!Candidates)
    BY <1>1, <2>1, TruthsAre
  <2>3. kind = "searchDecoy" => Page!Calls(kind) = 0
    BY DEF Page!Calls
  <2>4. QED
    BY <1>1, <1>2, <2>1, <2>2, <2>3 DEF PageInv, PageTypes, PageTruth, Page!Possible, Page!Candidates, Page!Never
<1>4. (PageStages /\ PageSearches /\ PageGives)'
  BY <1>1 DEF PageInv, PageTypes, PageStages, PageSearches, PageGives
<1>5. Page!ToldIsEarned'
  <2>1. told'.word \notin Page!OfThePhrase \cup {"passed", "wrong"}
    <3>1. told' = Page!Nothing
      BY <1>1 DEF PageInv, PageStages
    <3>2. QED
      BY <3>1 DEF Page!Nothing, Page!Says, Page!OfThePhrase
  <2>2. QED
    BY <1>3, <2>1, ToldOfNothing DEF Page!ToldIsEarned, Page!RoundsWereRight, Page!LengthIsNamed, Page!ChecksAreTrue,
     Page!SearchesAreTrue, Page!Trusted
<1>6. QED
  BY <1>3, <1>4, <1>5 DEF PageInv

(* A refusal is told of no phrase, also that of a build found wrong.       *)
LEMMA PageIsRefused ==
  ASSUME PageInv, operation # "begin",
         NEW code \in {"INVALID_REQUEST", "SELF_CHECK_FAILED", "IMPOSSIBLE", "ROUND_FAILED"},
         Page!Ends(Page!Refusal(code)), UNCHANGED <<done, given, posted>>
  PROVE  PageInv'
<1>1. /\ told' = Page!Says(code, {}, {}) /\ operation' = "ended"
      /\ UNCHANGED <<request, truth, fault, done, given, posted>>
  BY DEF Page!Ends, Page!Refusal
<1>2. PageTypes'
  BY <1>1 DEF PageInv, PageTypes, PageRequest
<1>3. (PageTruth /\ PageStages /\ PageSearches /\ PageGives)'
  BY <1>1 DEF PageInv, PageTruth, PageStages, PageSearches, PageGives, Page!Possible
<1>4. told'.word \notin Page!OfThePhrase \cup {"passed", "wrong"}
  BY <1>1 DEF Page!Says, Page!OfThePhrase
<1>5. Page!ToldIsEarned'
  BY <1>4 DEF Page!ToldIsEarned, Page!RoundsWereRight, Page!LengthIsNamed, Page!ChecksAreTrue,
     Page!SearchesAreTrue, Page!Trusted
<1>6. QED
  BY <1>2, <1>3, <1>5 DEF PageInv

LEMMA PageRefuses == PageInv /\ Page!Refuses => PageInv'
  BY PageIsRefused DEF Page!Refuses

(* What is told stays as it is, where nothing new is.                      *)
LEMMA ToldStays ==
  ASSUME PageInv, UNCHANGED <<request, truth, fault, told>>, told = Page!Nothing
  PROVE  Page!ToldIsEarned'
<1>1. told'.word \notin Page!OfThePhrase \cup {"passed", "wrong"}
  BY DEF Page!Nothing, Page!Says, Page!OfThePhrase
<1>2. QED
  BY <1>1 DEF Page!ToldIsEarned, Page!RoundsWereRight, Page!LengthIsNamed, Page!ChecksAreTrue,
     Page!SearchesAreTrue, Page!Trusted

LEMMA PageTakesMemory == PageInv /\ Page!TakesMemory => PageInv'
<1> SUFFICES ASSUME PageInv, Page!TakesMemory PROVE PageInv'
  OBVIOUS
<1>1. CASE Page!KnownAnswer(0)
  <2>1. /\ operation = "starting" /\ operation' = "rounds"
        /\ UNCHANGED <<request, truth, fault, done, given, posted, told>>
    BY <1>1 DEF Page!TakesMemory
  <2>2. done < Page!Calls(request.kind)
    BY <2>1 DEF PageInv, PageTypes, PageRequest, PageStages, Page!Calls, Page!Kinds, Page!Rounds
  <2>3. PageTypes' /\ PageTruth' /\ PageStages' /\ PageGives'
    BY <2>1, <2>2 DEF PageInv, PageTypes, PageRequest, PageTruth, PageStages, PageGives, Page!Possible,
       Page!Calls
  <2>4. PageSearches'
    BY <2>1 DEF PageInv, PageTypes, PageStages, PageSearches
  <2>5. QED
    BY <2>1, <2>3, <2>4, ToldStays DEF PageInv, PageStages
<1>2. CASE ~Page!KnownAnswer(0)
  BY <1>2, PageIsRefused DEF Page!TakesMemory
<1>3. QED
  BY <1>1, <1>2

(* The library ends with a result or a refusal.                            *)
LEMMA PageConcludes ==
  ASSUME PageInv, operation = "rounds", NEW what, Page!Concludes(what),
         UNCHANGED <<request, truth, fault, told>>, done' \in Nat,
         what \in {Page!Refusal("IMPOSSIBLE"), Page!Refusal("ROUND_FAILED")} \/ GivenOf(what)'
  PROVE  PageInv'
<1>1. operation' = "verifying" /\ given' = what
  BY DEF Page!Concludes
<1>2. PageTypes' /\ PageTruth' /\ PageStages' /\ PageSearches'
  BY <1>1 DEF PageInv, PageTypes, PageRequest, PageTruth, PageStages, PageSearches, Page!Possible
<1>3. PageGives'
  BY <1>1 DEF PageGives, GivenOf
<1>4. Page!ToldIsEarned'
  BY ToldStays DEF PageInv, PageStages
<1>5. QED
  BY <1>2, <1>3, <1>4 DEF PageInv

LEMMA PageLibraryRefuses == PageInv /\ Page!LibraryRefuses => PageInv'
  BY PageConcludes DEF Page!LibraryRefuses, PageInv, PageTypes
LEMMA PageRoundFails == PageInv /\ Page!RoundFails => PageInv'
  BY PageConcludes DEF Page!RoundFails, PageInv, PageTypes

(* A round of the middle.                                                  *)
LEMMA PageGoesOn ==
  ASSUME PageInv, operation = "rounds", UNCHANGED <<request, truth, fault, told, operation, given>>,
         done' \in Nat, done' < Page!Calls(request.kind),
         request.kind = "searchWallet" => PageSearches'
  PROVE  PageInv'
<1>1. PageTypes' /\ PageTruth' /\ PageStages' /\ PageGives'
  BY DEF PageInv, PageTypes, PageRequest, PageTruth, PageStages, PageGives, Page!Possible, Page!Calls
<1>2. PageSearches'
  BY DEF PageInv, PageSearches
<1>3. Page!ToldIsEarned'
  BY ToldStays DEF PageInv, PageStages
<1>4. QED
  BY <1>1, <1>2, <1>3 DEF PageInv

LEMMA PageEncrypts ==
  ASSUME PageInv, Page!Round, request.kind = "encrypt"
  PROVE  PageInv'
<1>1. /\ operation = "rounds" /\ done' = done + 1 /\ UNCHANGED <<request, truth, fault, told>>
      /\ IF done' = Page!Calls("encrypt") THEN Page!Concludes(Page!Sealed) ELSE UNCHANGED <<operation, given>>
  BY DEF Page!Round
<1>2. done \in Nat /\ done' \in Nat /\ done < 4 /\ Page!Calls("encrypt") = 4
  BY <1>1 DEF PageInv, PageTypes, PageStages, Page!Calls, Page!Rounds
<1>3. GivenOf(Page!Sealed)'
  BY <1>1 DEF GivenOf, Page!Sealed, Page!Says, Page!Refusal
<1>4. CASE done' = 4
  <2>1. Page!Sealed' = Page!Sealed
    BY <1>1 DEF Page!Sealed, Page!WrongIn
  <2>2. QED
    BY <1>1, <1>2, <1>3, <1>4, <2>1, PageConcludes
<1>5. CASE done' # 4
  <2>1. done' < Page!Calls(request.kind)
    BY <1>1, <1>2, <1>5
  <2>2. QED
    BY <1>1, <1>2, <1>5, <2>1, PageGoesOn
<1>6. QED
  BY <1>4, <1>5

LEMMA PageTests ==
  ASSUME PageInv, Page!Round, request.kind = "selfTest"
  PROVE  PageInv'
<1>1. /\ operation = "rounds" /\ done' = done + 1 /\ UNCHANGED <<request, truth, fault, told>>
      /\ IF done' # Page!Calls("selfTest") THEN UNCHANGED <<operation, given>> ELSE Page!Concludes(Page!Tested)
  BY DEF Page!Round
<1>2. done \in Nat /\ done' \in Nat /\ done < 4 /\ Page!Calls("selfTest") = 4
  BY <1>1 DEF PageInv, PageTypes, PageStages, Page!Calls, Page!Rounds
<1>3. CASE done' = 4
  <2>1. Page!Tested' = Page!Tested
    BY <1>1 DEF Page!Tested, Page!WrongIn
  <2>2. GivenOf(Page!Tested)'
    BY <1>1, <1>3, <2>1 DEF GivenOf
  <2>3. QED
    BY <1>1, <1>2, <1>3, <2>1, <2>2, PageConcludes
<1>4. CASE done' # 4
  <2>1. done' < Page!Calls(request.kind)
    BY <1>1, <1>2, <1>4
  <2>2. QED
    BY <1>1, <1>2, <1>4, <2>1, PageGoesOn
<1>5. QED
  BY <1>3, <1>4

(* A recovery: chance where a round was wrong, the truth elsewhere.        *)
LEMMA PageRecovers ==
  ASSUME PageInv, Page!Round, request.kind \in {"decrypt", "check"}
  PROVE  PageInv'
<1>1. /\ operation = "rounds" /\ done' = done + 1 /\ UNCHANGED <<request, truth, fault, told>>
      /\ IF done' # Page!Calls(request.kind) THEN UNCHANGED <<operation, given>>
         ELSE \E state \in Page!Recovered :
                Page!Concludes(IF request.kind = "decrypt" THEN Page!Decrypted(state.beside) ELSE state)
  BY DEF Page!Round
<1>2. done \in Nat /\ done' \in Nat /\ done < 2 /\ Page!Calls(request.kind) = 2
  BY <1>1 DEF PageInv, PageTypes, PageStages, Page!Calls, Page!Rounds
<1>3. CASE done' # 2
  <2>1. done' < Page!Calls(request.kind)
    BY <1>1, <1>2, <1>3
  <2>2. QED
    BY <1>1, <1>2, <1>3, <2>1, PageGoesOn
<1>4. CASE done' = 2
  <2>1. PICK state \in Page!Recovered :
          Page!Concludes(IF request.kind = "decrypt" THEN Page!Decrypted(state.beside) ELSE state)
    BY <1>1, <1>2, <1>4
  <2>2. /\ state.word = "state" /\ state.beside \in SUBSET Shorts
        /\ ~Page!WrongIn(done)' => state = Page!Says("state", {truth.own}, truth.passing)
    <3>1. Page!WrongIn(done)' <=> Page!WrongIn(done + 1)
      BY <1>1 DEF Page!WrongIn
    <3>2. truth.passing \in SUBSET Shorts /\ Page!BuiltInCheckLengths(truth.container) \subseteq Shorts
      BY <1>1 DEF PageInv, PageTruth, Page!Possible, Page!BuiltInCheckLengths
    <3>3. CASE Page!WrongIn(done + 1)
      <4>1. PICK checks \in SUBSET Page!BuiltInCheckLengths(truth.container) :
              state = Page!Says("state", {0}, checks)
        BY <3>3 DEF Page!Recovered
      <4>2. QED
        BY <3>1, <3>2, <3>3, <4>1 DEF Page!Says
    <3>4. CASE ~Page!WrongIn(done + 1)
      BY <3>2, <3>4 DEF Page!Recovered, Page!Says
    <3>5. QED
      BY <3>3, <3>4
  <2>3. CASE request.kind = "decrypt"
    <3>1. GivenOf(Page!Decrypted(state.beside))'
      <4>1. Page!Decrypted(state.beside)' = Page!Decrypted(state.beside)
        BY <1>1 DEF Page!Decrypted
      <4>2. ~Page!WrongIn(done)' => state.beside = truth.passing
        BY <2>2 DEF Page!Says
      <4>3. request'.kind = "decrypt" /\ truth' = truth
        BY <1>1, <2>3
      <4>4. QED
        BY <2>2, <4>1, <4>2, <4>3 DEF GivenOf
    <3>2. Page!Decrypted(state.beside)' = Page!Decrypted(state.beside)
      BY <1>1 DEF Page!Decrypted
    <3>3. QED
      BY <1>1, <1>2, <2>1, <2>3, <3>1, <3>2, PageConcludes
  <2>4. CASE request.kind = "check"
    <3>1. GivenOf(state)'
      BY <1>1, <2>2, <2>4 DEF GivenOf
    <3>2. QED
      BY <1>1, <1>2, <2>1, <2>4, <3>1, PageConcludes
  <2>5. QED
    BY <2>3, <2>4
<1>5. QED
  BY <1>3, <1>4

LEMMA HalvesAre ==
  /\ 0 \div 2 = 0 /\ 1 \div 2 = 0 /\ 2 \div 2 = 1 /\ 3 \div 2 = 1 /\ 4 \div 2 = 2
  /\ 1 % 2 = 1 /\ 2 % 2 = 0 /\ 3 % 2 = 1 /\ 4 % 2 = 0
  OBVIOUS

(* A candidate of a search with Argon2, whose two rounds are a recovery.   *)
LEMMA PageSearchesWallet ==
  ASSUME PageInv, Page!Round, request.kind = "searchWallet"
  PROVE  PageInv'
<1>1. /\ operation = "rounds" /\ done' = done + 1 /\ UNCHANGED <<request, truth, fault, told>>
      /\ posted' = posted \cup {1 + done \div Page!Rounds}
      /\ IF done' % Page!Rounds # 0 THEN UNCHANGED <<operation, given>>
         ELSE \E match \in Page!Matches(done' \div Page!Rounds) :
                IF match THEN Page!Concludes(Page!Says("found", {done' \div Page!Rounds}, {}))
                ELSE IF done' = Page!Calls("searchWallet") THEN Page!Concludes(Page!Says("not found", {}, {}))
                ELSE UNCHANGED <<operation, given>>
  BY DEF Page!Round
<1>2. operation = "rounds" /\ done' = done + 1 /\ UNCHANGED <<request, truth, fault, told>>
  BY <1>1
<1>3. done \in {0, 1, 2, 3} /\ Page!Calls("searchWallet") = 4 /\ fault.from \in Nat
  BY <1>2 DEF PageInv, PageTypes, PageStages, Page!Calls, Page!Rounds
<1>4. /\ posted = IF done = 0 THEN {} ELSE IF done < 3 THEN {1} ELSE {1, 2}
      /\ done >= 2 /\ ~Page!WrongIn(done) => 1 \notin truth.passing
      /\ truth.passing \subseteq {1, 2}
  BY <1>2, <1>3 DEF PageInv, PageTruth, PageSearches, Page!Candidates, Page!Count
<1>5. ASSUME done \in {0, 2} PROVE PageInv'
  <2>1. /\ UNCHANGED <<operation, given>>
        /\ posted' = posted \cup {IF done = 0 THEN 1 ELSE 2}
    <3>1. CASE done = 0
      <4>1. done' = 1 /\ done \div Page!Rounds = 0 /\ done' % Page!Rounds # 0
        BY <1>2, <3>1, HalvesAre DEF Page!Rounds
      <4>2. QED
        BY <1>1, <3>1, <4>1
    <3>2. CASE done = 2
      <4>1. done' = 3 /\ done \div Page!Rounds = 1 /\ done' % Page!Rounds # 0
        BY <1>2, <3>2, HalvesAre DEF Page!Rounds
      <4>2. QED
        BY <1>1, <3>2, <4>1
    <3>3. QED
      BY <1>5, <3>1, <3>2
  <2>2. done' \in {1, 3} /\ done' < Page!Calls(request.kind)
    BY <1>2, <1>3, <1>5
  <2>3. posted' = IF done' < 3 THEN {1} ELSE {1, 2}
    BY <1>2, <1>4, <1>5, <2>1
  <2>4. done' >= 2 /\ ~Page!WrongIn(done)' => 1 \notin truth.passing
    BY <1>2, <1>3, <1>4, <1>5 DEF Page!WrongIn
  <2>5. PageSearches'
    BY <1>2, <2>1, <2>2, <2>3, <2>4 DEF PageSearches
  <2>6. QED
    BY <1>2, <2>1, <2>2, <2>5, PageGoesOn
<1>6. ASSUME NEW candidate \in {1, 2}, done = 2 * candidate - 1 PROVE PageInv'
  <2>1. done' = 2 * candidate /\ done' \in Nat
    BY <1>2, <1>6
  <2>2. done \div Page!Rounds = candidate - 1 /\ done' \div Page!Rounds = candidate /\ done' % Page!Rounds = 0
    BY <1>6, <2>1, HalvesAre DEF Page!Rounds
  <2>3. posted' = 1 .. candidate
    <3>1. posted' = posted \cup {1 + (candidate - 1)}
      BY <1>1, <2>2
    <3>2. CASE candidate = 1
      BY <1>4, <1>6, <3>1, <3>2
    <3>3. CASE candidate = 2
      BY <1>4, <1>6, <3>1, <3>3
    <3>4. QED
      BY <1>6, <3>2, <3>3
  <2>4. /\ TRUE \in Page!Matches(candidate) /\ ~Page!WrongIn(done)' => candidate \in truth.passing
        /\ FALSE \in Page!Matches(candidate) /\ ~Page!WrongIn(done)' => candidate \notin truth.passing
    <3>1. ~Page!WrongIn(done)' => Page!Matches(candidate) = {candidate \in truth.passing}
      BY <1>2 DEF Page!Matches, Page!WrongIn
    <3>2. QED
      BY <3>1, Zenon
  <2>5. ~Page!WrongIn(done)' /\ candidate = 2 => 1 \notin truth.passing
    BY <1>2, <1>3, <1>4, <1>6 DEF Page!WrongIn
  <2>6. CASE TRUE \in Page!Matches(candidate) /\ Page!Concludes(Page!Says("found", {candidate}, {}))
    <3>1. ASSUME ~Page!WrongIn(done)'
          PROVE  candidate \in truth.passing /\ \A other \in truth.passing : candidate <= other
      BY <1>4, <1>6, <2>4, <2>5, <2>6, <3>1
    <3>2. GivenOf(Page!Says("found", {candidate}, {}))'
      BY <1>2, <2>3, <3>1 DEF GivenOf, Page!Says
    <3>3. QED
      BY <1>2, <2>1, <2>6, <3>2, PageConcludes
  <2>7. CASE /\ FALSE \in Page!Matches(candidate) /\ candidate = 2
             /\ Page!Concludes(Page!Says("not found", {}, {}))
    <3>1. ~Page!WrongIn(done)' => truth.passing = {}
      BY <1>4, <2>4, <2>5, <2>7
    <3>2. GivenOf(Page!Says("not found", {}, {}))'
      BY <1>2, <2>3, <2>7, <3>1 DEF GivenOf, Page!Says, Page!Candidates, Page!Count
    <3>3. QED
      BY <1>2, <2>1, <2>7, <3>2, PageConcludes
  <2>8. CASE FALSE \in Page!Matches(candidate) /\ candidate = 1 /\ UNCHANGED <<operation, given>>
    <3>1. done' = 2 /\ done' < Page!Calls(request.kind)
      BY <1>3, <2>1, <2>8
    <3>2. posted' = {1}
      BY <2>3, <2>8
    <3>3. ~Page!WrongIn(done)' => 1 \notin truth.passing
      BY <2>4, <2>8
    <3>4. PageSearches'
      BY <1>2, <2>8, <3>1, <3>2, <3>3 DEF PageSearches
    <3>5. QED
      BY <1>2, <2>1, <2>8, <3>1, <3>4, PageGoesOn
  <2>9. \/ TRUE \in Page!Matches(candidate) /\ Page!Concludes(Page!Says("found", {candidate}, {}))
        \/ /\ FALSE \in Page!Matches(candidate) /\ done' = Page!Calls("searchWallet")
           /\ Page!Concludes(Page!Says("not found", {}, {}))
        \/ /\ FALSE \in Page!Matches(candidate) /\ done' # Page!Calls("searchWallet")
           /\ UNCHANGED <<operation, given>>
    <3>1. PICK match \in Page!Matches(candidate) :
            IF match THEN Page!Concludes(Page!Says("found", {candidate}, {}))
            ELSE IF done' = Page!Calls("searchWallet") THEN Page!Concludes(Page!Says("not found", {}, {}))
            ELSE UNCHANGED <<operation, given>>
      BY <1>1, <2>2
    <3>2. match \in BOOLEAN
      <4>1. Page!Matches(candidate) \subseteq BOOLEAN
        BY Zenon DEF Page!Matches
      <4>2. QED
        BY <3>1, <4>1
    <3>3. match = TRUE \/ match = FALSE
      BY <3>2, Zenon
    <3>4. QED
      BY <3>1, <3>3, Zenon
  <2>10. (done' = Page!Calls("searchWallet") <=> candidate = 2) /\ (candidate # 2 => candidate = 1)
    BY <1>3, <1>6, <2>1
  <2>11. QED
    BY <2>6, <2>7, <2>8, <2>9, <2>10, Zenon
<1>7. done = 1 \/ done = 3 => \E candidate \in {1, 2} : done = 2 * candidate - 1
  OBVIOUS
<1>8. QED
  BY <1>3, <1>5, <1>6, <1>7

LEMMA PageRounds == PageInv /\ Page!Round => PageInv'
<1>1. PageInv /\ Page!Round => request.kind \in {"encrypt", "selfTest", "decrypt", "check", "searchWallet"}
  BY DEF PageInv, PageTypes, PageRequest, PageStages, Page!Round, Page!Kinds, Page!Calls
<1>2. QED
  BY <1>1, PageEncrypts, PageTests, PageRecovers, PageSearchesWallet

(* A stated length, or none, of which the readings are named.              *)
LEMMA ReadingsAre ==
  ASSUME NEW container_ \in Lengths, NEW checks \in SUBSET Shorts, NEW stated_ \in Lengths \cup {Detect},
         container_ # Full => checks = {},
         NEW own_ \in Page!EveryReading(container_, checks),
         NEW names, names = Page!ReadingsOf(container_, checks, stated_)
  PROVE  IF names = {} THEN own_ = Full /\ stated_ # Full /\ stated_ \in Shorts
         ELSE \/ own_ \in names \cup UNION {checks \ {words} : words \in names}
              \/ own_ = Full /\ stated_ # Full /\ names \subseteq checks
<1>1. CASE container_ # Full
  <2>1. names = {container_} /\ own_ = container_
    BY <1>1, LengthsAssumption DEF Page!ReadingsOf, Page!EveryReading
  <2>2. QED
    BY <2>1
<1>2. CASE container_ = Full
  <2>1. own_ \in checks \cup {Full}
    BY <1>2, LengthsAssumption DEF Page!ReadingsOf, Page!EveryReading, Page!Single
  <2>2. CASE stated_ \in checks
    <3>1. names = {stated_} /\ stated_ # Full
      BY <1>2, <2>2, LengthsAssumption DEF Page!ReadingsOf
    <3>2. QED
      BY <2>1, <2>2, <3>1
  <2>3. CASE stated_ \notin checks /\ stated_ # Full /\ Page!Single(checks)
    <3>1. names = checks /\ names # {}
      BY <1>2, <2>3 DEF Page!ReadingsOf, Page!Single
    <3>2. QED
      BY <2>1, <2>3, <3>1
  <2>4. CASE stated_ \notin checks /\ ~(stated_ # Full /\ Page!Single(checks)) /\ stated_ \in Shorts /\ checks = {}
    <3>1. names = {} /\ stated_ # Full
      BY <1>2, <2>4, LengthsAssumption DEF Page!ReadingsOf
    <3>2. QED
      BY <2>1, <2>4, <3>1
  <2>5. CASE stated_ \notin checks /\ ~(stated_ # Full /\ Page!Single(checks)) /\ ~(stated_ \in Shorts /\ checks = {})
    <3>1. names = checks \cup {Full}
      BY <1>2, <2>5 DEF Page!ReadingsOf
    <3>2. QED
      BY <2>1, <3>1
  <2>6. QED
    BY <2>2, <2>3, <2>4, <2>5
<1>3. QED
  BY <1>1, <1>2

(* What is told of a recovery with the rounds of the right build.          *)
LEMMA RecoveryIsNamed ==
  ASSUME PageInv, request.kind = "decrypt", operation # "begin", truth.own # 0,
         NEW answer_, answer_ = Page!Decrypted(truth.passing)
  PROVE  \/ truth.own \in answer_.names \cup answer_.beside
         \/ /\ truth.own = Full /\ request.stated # Full
            /\ IF answer_.word = "recovered" THEN answer_.names \subseteq truth.passing
               ELSE request.stated \in Shorts
<1> DEFINE readings == Page!ReadingsOf(truth.container, truth.passing, request.stated)
<1>1. /\ truth.container \in Lengths /\ truth.passing \in SUBSET Shorts
      /\ request.stated \in Lengths \cup {Detect}
      /\ truth.container # Full => truth.passing = {}
      /\ truth.own \in Page!EveryReading(truth.container, truth.passing)
  BY DEF PageInv, PageTypes, PageRequest, PageTruth, Page!Possible, Page!BuiltInCheckLengths
<1>2. IF readings = {} THEN truth.own = Full /\ request.stated # Full /\ request.stated \in Shorts
      ELSE \/ truth.own \in readings \cup UNION {truth.passing \ {words} : words \in readings}
           \/ truth.own = Full /\ request.stated # Full /\ readings \subseteq truth.passing
  BY <1>1, ReadingsAre
<1>3. CASE readings = {}
  BY <1>2, <1>3 DEF Page!Decrypted, Page!Refusal, Page!Says
<1>4. CASE readings # {}
  <2>1. answer_.word = "recovered" /\ answer_.names = readings
        /\ answer_.beside = UNION {truth.passing \ {words} : words \in readings}
    BY <1>4 DEF Page!Decrypted, Page!Says
  <2>2. QED
    BY <1>2, <1>4, <2>1
<1>5. QED
  BY <1>3, <1>4

LEMMA TestedIs == Page!Tested.word \in {"passed", "wrong"}
  BY DEF Page!Tested, Page!Says

(* A known answer is right only of a build whose rounds were.              *)
LEMMA KnownAnswerTells ==
  ASSUME PageTypes, Page!KnownAnswer(done + 1)
  PROVE  ~fault.large => ~Page!WrongIn(done)
  BY DEF PageTypes, Page!KnownAnswer, Page!WrongIn

LEMMA DecryptedIs ==
  ASSUME NEW checks PROVE Page!Decrypted(checks).word \in {"recovered", "VERIFIER_MISMATCH"}
  BY DEF Page!Decrypted, Page!Says, Page!Refusal

(* What was given and the rounds it rests on stay.                         *)
LEMMA GivenStays ==
  ASSUME GivenOf(given), UNCHANGED <<request, truth, fault, done, given, posted>>
  PROVE  GivenOf(given)'
<1>1. /\ Page!WrongIn(done)' = Page!WrongIn(done) /\ Page!Tested' = Page!Tested
      /\ \A checks \in SUBSET Shorts : Page!Decrypted(checks)' = Page!Decrypted(checks)
  BY DEF Page!WrongIn, Page!Tested, Page!Decrypted
<1>2. QED
  BY <1>1 DEF GivenOf

(* After the known answer, the outcome is told.                            *)
LEMMA PageTellsGiven ==
  ASSUME PageInv, operation = "verifying", Page!KnownAnswer(done + 1), given.word # "state",
         Page!Ends(given), UNCHANGED <<done, given, posted>>
  PROVE  PageInv'
<1>1. /\ told' = given /\ operation' = "ended"
      /\ UNCHANGED <<request, truth, fault, done, given, posted>>
  BY DEF Page!Ends
<1>2. CASE given \in {Page!Refusal("IMPOSSIBLE"), Page!Refusal("ROUND_FAILED")}
  BY <1>2, PageIsRefused
<1>3. CASE GivenOf(given)
  <2>1. /\ Page!WrongIn(done) => fault.large
        /\ Page!WrongIn(done)' <=> Page!WrongIn(done)
    BY <1>1 DEF PageInv, PageTypes, Page!KnownAnswer, Page!WrongIn
  <2>2. request.kind \in {"encrypt", "selfTest", "decrypt", "searchWallet"}
    BY <1>3 DEF PageInv, PageTypes, PageRequest, PageStages, Page!Kinds, GivenOf
  <2>3. Page!RoundsWereRight'
    <3>1. CASE request.kind = "selfTest"
      <4>1. done = 4 /\ given = Page!Tested
        BY <1>3, <3>1 DEF GivenOf
      <4>2. CASE Page!WrongIn(done)
        <5>1. given = Page!Says("wrong", {fault.from}, {})
          BY <4>1, <4>2 DEF Page!Tested, Page!Rounds, Page!WrongIn
        <5>2. QED
          BY <1>1, <2>1, <4>2, <5>1 DEF Page!RoundsWereRight, Page!Trusted, Page!OfThePhrase, Page!Says
      <4>3. CASE ~Page!WrongIn(done)
        <5>1. given = Page!Says("passed", {}, {})
          BY <4>1, <4>3 DEF Page!Tested, Page!Rounds, Page!WrongIn
        <5>2. QED
          BY <1>1, <2>1, <4>3, <5>1 DEF Page!RoundsWereRight, Page!Trusted, Page!OfThePhrase, Page!Says
      <4>4. QED
        BY <4>2, <4>3
    <3>2. CASE request.kind # "selfTest"
      <4>1. given.word \notin {"passed", "wrong"}
        <5>1. CASE request.kind = "decrypt"
          BY <1>3, <5>1, DecryptedIs DEF GivenOf
        <5>2. CASE request.kind \in {"encrypt", "searchWallet"}
          BY <1>3, <5>2 DEF GivenOf
        <5>3. QED
          BY <2>2, <3>2, <5>1, <5>2
      <4>2. QED
        BY <1>1, <2>1, <4>1 DEF Page!RoundsWereRight, Page!Trusted
    <3>3. QED
      BY <3>1, <3>2
  <2>4. ~fault.large => ~Page!WrongIn(done)
    BY <2>1
  <2>5. Page!LengthIsNamed'
    <3>1. CASE request.kind = "decrypt" /\ truth.own # 0 /\ ~fault.large
      <4>1. given = Page!Decrypted(truth.passing)
        BY <1>3, <2>4, <3>1 DEF GivenOf
      <4>2. \/ truth.own \in given.names \cup given.beside
            \/ /\ truth.own = Full /\ request.stated # Full
               /\ IF given.word = "recovered" THEN given.names \subseteq truth.passing
                  ELSE request.stated \in Shorts
        BY <3>1, <4>1, RecoveryIsNamed
      <4>3. QED
        BY <1>1, <4>2 DEF Page!LengthIsNamed
    <3>2. CASE ~(request.kind = "decrypt" /\ truth.own # 0 /\ ~fault.large)
      BY <1>1, <3>2 DEF Page!LengthIsNamed, Page!Trusted
    <3>3. QED
      BY <3>1, <3>2
  <2>6. Page!SearchesAreTrue'
    BY <1>1, <1>3, <2>2, <2>4 DEF Page!SearchesAreTrue, Page!Trusted, GivenOf
  <2>7. Page!ChecksAreTrue'
    BY <1>1, <2>2 DEF Page!ChecksAreTrue
  <2>8. PageTypes' /\ PageTruth' /\ PageStages' /\ PageSearches' /\ PageGives'
    BY <1>1 DEF PageInv, PageTypes, PageRequest, PageTruth, PageStages, PageSearches, PageGives, Page!Possible
  <2>9. QED
    BY <2>3, <2>5, <2>6, <2>7, <2>8 DEF PageInv, Page!ToldIsEarned
<1>4. QED
  BY <1>2, <1>3 DEF PageInv, PageGives

(* A check compares what was recovered, once the build is trusted.         *)
LEMMA PageVerifies == PageInv /\ Page!Verifies => PageInv'
<1> SUFFICES ASSUME PageInv, Page!Verifies PROVE PageInv'
  OBVIOUS
<1>1. operation = "verifying" /\ UNCHANGED <<done, given, posted>>
  BY DEF Page!Verifies
<1>2. CASE ~Page!KnownAnswer(done + 1)
  BY <1>1, <1>2, PageIsRefused DEF Page!Verifies
<1>3. CASE Page!KnownAnswer(done + 1) /\ given.word # "state"
  BY <1>1, <1>3, PageTellsGiven DEF Page!Verifies
<1>4. CASE Page!KnownAnswer(done + 1) /\ given.word = "state"
  <2>1. operation' = "comparing" /\ UNCHANGED <<request, truth, fault, told>>
    BY <1>4 DEF Page!Verifies
  <2>2. request.kind = "check"
    <3>1. GivenOf(given)
      BY <1>1, <1>4 DEF PageInv, PageGives, Page!Refusal, Page!Says
    <3>2. request.kind \in {"encrypt", "selfTest", "decrypt", "check", "searchWallet"}
      BY <1>1 DEF PageInv, PageTypes, PageRequest, PageStages, Page!Kinds
    <3>3. request.kind # "decrypt"
      BY <1>4, <3>1, DecryptedIs DEF GivenOf
    <3>4. request.kind # "selfTest"
      BY <1>4, <3>1, TestedIs DEF GivenOf
    <3>5. request.kind \notin {"encrypt", "searchWallet"}
      BY <1>4, <3>1 DEF GivenOf
    <3>6. QED
      BY <3>2, <3>3, <3>4, <3>5
  <2>3. Page!KnownAnswer(done + 1)'
    BY <1>1, <1>4, <2>1 DEF Page!KnownAnswer, Page!WrongIn
  <2>4. PageTypes' /\ PageTruth' /\ PageStages' /\ PageSearches' /\ PageGives'
    <3>1. given' \in {Page!Refusal("IMPOSSIBLE"), Page!Refusal("ROUND_FAILED")} \/ GivenOf(given)'
      BY <1>1, <2>1, GivenStays DEF PageInv, PageGives
    <3>2. PageTypes' /\ PageTruth' /\ PageSearches'
      BY <1>1, <2>1 DEF PageInv, PageTypes, PageRequest, PageTruth, PageSearches, Page!Possible
    <3>3. PageStages'
      BY <1>1, <1>4, <2>1, <2>2, <2>3 DEF PageInv, PageStages
    <3>4. QED
      BY <3>1, <3>2, <3>3 DEF PageGives
  <2>5. QED
    BY <1>1, <2>1, <2>4, ToldStays DEF PageInv, PageStages
<1>5. QED
  BY <1>2, <1>3, <1>4

(* What a comparison says of the recovery of a check.                      *)
LEMMA ComparisonsAre ==
  ASSUME PageInv, operation \in {"comparing", "asking"}, ~fault.large,
         NEW own_ \in given.names, NEW reference_,
         NEW result, result = Page!Compared(given.beside, own_, reference_)
  PROVE  /\ result.word \in {"matches", "does not match", "not verified"}
         /\ result.beside = given.beside /\ given.beside = truth.passing
         /\ result.word = "matches" => truth.passing # {} \/ truth.own # 0
         /\ result.word # "matches" /\ reference_ # "wallet" => truth.passing = {}
<1>1. given = Page!Says("state", {truth.own}, truth.passing)
  <2>1. ~Page!WrongIn(done)
    BY DEF PageInv, PageTypes, PageStages, Page!KnownAnswer, Page!WrongIn
  <2>2. GivenOf(given) /\ request.kind = "check"
    BY DEF PageInv, PageStages, PageGives, Page!Refusal, Page!Says
  <2>3. QED
    BY <2>1, <2>2 DEF GivenOf
<1>2. own_ = truth.own /\ given.beside = truth.passing
  BY <1>1 DEF Page!Says
<1>3. 0 \notin Page!EveryReading(truth.container, truth.passing)
  <2>1. truth.container \in Lengths /\ truth.passing \subseteq Shorts
    BY DEF PageInv, PageTypes, PageStages, PageTruth, Page!Possible, Page!BuiltInCheckLengths
  <2>2. 0 \notin Lengths
    BY LengthsAssumption DEF Lengths
  <2>3. Page!EveryReading(truth.container, truth.passing) \subseteq Lengths
    BY <2>1 DEF Page!EveryReading, Page!ReadingsOf, Lengths
  <2>4. QED
    BY <2>2, <2>3
<1>4. QED
  BY <1>2, <1>3 DEF Page!Compared, Page!Says

LEMMA StateIsGiven ==
  ASSUME PageInv, operation \in {"comparing", "asking"}
  PROVE  /\ request.kind = "check" /\ given.word = "state" /\ Page!KnownAnswer(done + 1)
         /\ GivenOf(given)
<1>1. request.kind = "check" /\ given.word = "state" /\ Page!KnownAnswer(done + 1)
  BY DEF PageInv, PageStages
<1>2. GivenOf(given)
  BY <1>1 DEF PageInv, PageGives, Page!Refusal, Page!Says
<1>3. QED
  BY <1>1, <1>2

(* What is told of the comparison of a check.                              *)
LEMMA ComparisonIsTold ==
  ASSUME PageInv, operation \in {"comparing", "asking"}, operation' \in {"asking", "ended"},
         UNCHANGED <<request, truth, fault, done, given, posted>>,
         told'.word \in {"matches", "does not match", "not verified", "noLength"},
         ~fault.large => /\ told'.word = "noLength" => truth.passing = {} /\ ~truth.sixteen
                         /\ told'.word = "matches" => truth.passing # {} \/ truth.own # 0
  PROVE  PageInv'
<1>1. request.kind = "check" /\ given.word = "state" /\ Page!KnownAnswer(done + 1)
  BY DEF PageInv, PageStages
<1>2. PageTypes' /\ PageTruth' /\ PageStages' /\ PageSearches' /\ PageGives'
  <2>1. Page!KnownAnswer(done + 1)'
    BY <1>1 DEF Page!KnownAnswer, Page!WrongIn
  <2>2. PageGives'
    <3>1. GivenOf(given)'
      BY StateIsGiven, GivenStays
    <3>2. QED
      BY <3>1 DEF PageGives
  <2>3. PageTypes' /\ PageTruth' /\ PageSearches'
    BY DEF PageInv, PageTypes, PageRequest, PageTruth, PageSearches, Page!Possible
  <2>4. PageStages'
    BY <1>1, <2>1 DEF PageInv, PageStages
  <2>5. QED
    BY <2>2, <2>3, <2>4
<1>3. Page!RoundsWereRight'
  <2>1. ~fault.large => ~Page!WrongIn(done)
    BY <1>1, KnownAnswerTells DEF PageInv
  <2>2. QED
    BY <2>1 DEF Page!RoundsWereRight, Page!Trusted, Page!WrongIn
<1>4. Page!LengthIsNamed' /\ Page!ChecksAreTrue' /\ Page!SearchesAreTrue'
  BY <1>1 DEF Page!LengthIsNamed, Page!ChecksAreTrue, Page!SearchesAreTrue, Page!Trusted
<1>5. QED
  BY <1>2, <1>3, <1>4 DEF PageInv, Page!ToldIsEarned

LEMMA PageCompares == PageInv /\ Page!Compares => PageInv'
<1> SUFFICES ASSUME PageInv, Page!Compares PROVE PageInv'
  OBVIOUS
<1>1. operation = "comparing" /\ UNCHANGED <<request, truth, fault, done, given, posted>>
  BY DEF Page!Compares
<1>2. PICK own_ \in given.names :
        IF Page!EndsCheck(Page!Compared(given.beside, own_, request.reference))
        THEN told' = Page!Compared(given.beside, own_, request.reference) /\ operation' = "ended"
        ELSE told' = Page!Says("noLength", {}, given.beside) /\ operation' = "asking"
  BY DEF Page!Compares
<1> DEFINE result == Page!Compared(given.beside, own_, request.reference)
<1>3. result.word \in {"matches", "does not match", "not verified"} /\ result.beside = given.beside
  BY DEF Page!Compared, Page!Says
<1>4. ASSUME ~fault.large
      PROVE  /\ given.beside = truth.passing
             /\ result.word = "matches" => truth.passing # {} \/ truth.own # 0
             /\ result.word # "matches" /\ request.reference # "wallet" => truth.passing = {}
  <2>1. operation \in {"comparing", "asking"} /\ own_ \in given.names
    BY <1>1, <1>2
  <2> DEFINE asked == request.reference
  <2> HIDE DEF asked
  <2>2. result = Page!Compared(given.beside, own_, asked)
    BY DEF asked
  <2> HIDE DEF result
  <2>3. /\ given.beside = truth.passing
        /\ result.word = "matches" => truth.passing # {} \/ truth.own # 0
        /\ result.word # "matches" /\ asked # "wallet" => truth.passing = {}
    BY <1>4, <2>1, <2>2, ComparisonsAre, Zenon
  <2>4. QED
    BY <2>3 DEF asked
<1>5. CASE Page!EndsCheck(result)
  BY <1>1, <1>2, <1>3, <1>4, <1>5, ComparisonIsTold
<1>6. CASE ~Page!EndsCheck(result)
  <2>1. request.asks /\ result.word # "matches" /\ ~Page!Sixteen(given.beside)
    BY <1>3, <1>6 DEF Page!EndsCheck
  <2>2. request.reference = "detect"
    BY <2>1 DEF PageInv, PageTypes, PageRequest
  <2>3. ~fault.large => truth.passing = {} /\ ~truth.sixteen
    BY <1>4, <2>1, <2>2 DEF Page!Sixteen, Page!Single
  <2>4. told'.word = "noLength" /\ operation' = "asking"
    BY <1>2, <1>6 DEF Page!Says
  <2>5. QED
    BY <1>1, <2>3, <2>4, ComparisonIsTold
<1>7. QED
  BY <1>5, <1>6

LEMMA PageAnswers == PageInv /\ Page!Answers => PageInv'
<1> SUFFICES ASSUME PageInv, Page!Answers PROVE PageInv'
  OBVIOUS
<1>1. /\ operation = "asking" /\ operation' = "ended"
      /\ UNCHANGED <<request, truth, fault, done, given, posted>>
  BY DEF Page!Answers
<1>2. PICK reference_ \in {"detect", "length", "wallet", "sixteen"}, own_ \in given.names :
        told' = Page!Compared(given.beside, own_, reference_)
  BY DEF Page!Answers
<1>3. told'.word \in {"matches", "does not match", "not verified"}
  BY <1>2 DEF Page!Compared, Page!Says
<1>4. ~fault.large /\ told'.word = "matches" => truth.passing # {} \/ truth.own # 0
  BY <1>1, <1>2, ComparisonsAre
<1>5. QED
  BY <1>1, <1>3, <1>4, ComparisonIsTold

(* A candidate without Argon2: those heard of are counted.                 *)
LEMMA CandidatesAreCounted ==
  ASSUME NEW d \in {0, 1}, NEW e, e = d + 1, NEW news, news = 1 .. d,
         NEW matching \in SUBSET {1, 2}, d = 1 => 1 \notin matching
  PROVE  /\ e \in {1, 2} /\ e \in Nat /\ news \cup {e} = 1 .. e
         /\ \A other \in matching : e <= other
         /\ e \notin matching => (e = 2 => matching = {}) /\ (e # 2 => e = 1 /\ 1 \notin matching)
         /\ \A from : from = 100 => ~(from <= e)
<1>1. CASE d = 0
  BY <1>1
<1>2. CASE d = 1
  BY <1>2
<1>3. QED
  BY <1>1, <1>2

(* A search ends with the candidate, or with the last one.                 *)
LEMMA DecoyIsTold ==
  ASSUME PageInv, request.kind = "searchDecoy", operation # "begin", done' \in Nat, operation' = "ended",
         UNCHANGED <<request, truth, fault, given>>, ~Page!WrongIn(done)',
         NEW word \in {"found", "not found"}, NEW names, told' = Page!Says(word, names, {}),
         IF word = "found"
         THEN \E first \in truth.passing :
                names = {first} /\ (\A other \in truth.passing : first <= other) /\ posted' = 1 .. first
         ELSE truth.passing = {} /\ posted' = Page!Candidates
  PROVE  PageInv'
<1>1. PageTypes' /\ PageTruth'
  BY DEF PageInv, PageTypes, PageRequest, PageTruth, Page!Possible
<1>2. PageStages' /\ PageSearches' /\ PageGives'
  BY DEF PageStages, PageSearches, PageGives
<1>3. told'.word = word /\ told'.names = names
  BY DEF Page!Says
<1>4. Page!RoundsWereRight'
  BY <1>3 DEF Page!RoundsWereRight, Page!Trusted
<1>5. Page!SearchesAreTrue'
  BY <1>3 DEF Page!SearchesAreTrue
<1>6. Page!LengthIsNamed' /\ Page!ChecksAreTrue'
  BY DEF Page!LengthIsNamed, Page!ChecksAreTrue
<1>7. QED
  BY <1>1, <1>2, <1>4, <1>5, <1>6 DEF PageInv, Page!ToldIsEarned

(* A candidate without Argon2, and its report.                             *)
LEMMA PageSearchesDecoy == PageInv /\ Page!Searches => PageInv'
<1> SUFFICES ASSUME PageInv, Page!Searches PROVE PageInv'
  OBVIOUS
<1>1. /\ operation = "searching" /\ done' = done + 1 /\ posted' = posted \cup {done'} /\ given' = given
      /\ IF done' \in truth.passing THEN Page!Ends(Page!Says("found", {done'}, {}))
         ELSE IF done' = 2 THEN Page!Ends(Page!Says("not found", {}, {}))
         ELSE UNCHANGED <<operation, request, truth, fault, told>>
  BY DEF Page!Searches, Page!Count
<1>2. /\ request.kind = "searchDecoy" /\ done \in {0, 1} /\ posted = 1 .. done
      /\ done = 1 => 1 \notin truth.passing
  BY <1>1 DEF PageInv, PageSearches
<1>3. fault.from = 100 /\ truth.passing \in SUBSET {1, 2}
  <2>1. fault.from = Page!Never /\ truth.passing \subseteq Page!Candidates
    BY <1>1, <1>2 DEF PageInv, PageTruth
  <2>2. QED
    BY <2>1 DEF Page!Never, Page!Candidates, Page!Count
<1>4. /\ done' \in {1, 2} /\ done' \in Nat /\ posted' = 1 .. done'
      /\ \A other \in truth.passing : done' <= other
      /\ done' \notin truth.passing =>
           (done' = 2 => truth.passing = {}) /\ (done' # 2 => done' = 1 /\ 1 \notin truth.passing)
      /\ \A from : from = 100 => ~(from <= done')
  <2>1. done' = done + 1 /\ posted' = posted \cup {done'}
    BY <1>1
  <2> HIDE DEF PageInv
  <2>2. QED
    BY <1>2, <1>3, <2>1, CandidatesAreCounted
<1>5. UNCHANGED fault => ~Page!WrongIn(done)'
  BY <1>3, <1>4 DEF Page!WrongIn
<1>6. CASE done' \in truth.passing
  <2>1. told' = Page!Says("found", {done'}, {}) /\ operation' = "ended" /\ UNCHANGED <<request, truth, fault, given>>
    BY <1>1, <1>6 DEF Page!Ends
  <2>2. QED
    BY <1>1, <1>2, <1>4, <1>5, <1>6, <2>1, DecoyIsTold
<1>7. CASE done' \notin truth.passing /\ done' = 2
  <2>1. told' = Page!Says("not found", {}, {}) /\ operation' = "ended" /\ UNCHANGED <<request, truth, fault, given>>
    BY <1>1, <1>7 DEF Page!Ends
  <2>2. posted' = Page!Candidates /\ truth.passing = {}
    BY <1>4, <1>7 DEF Page!Candidates, Page!Count
  <2>3. QED
    BY <1>1, <1>2, <1>4, <1>5, <2>1, <2>2, DecoyIsTold
<1>8. CASE done' \notin truth.passing /\ done' # 2
  <2>1. UNCHANGED <<operation, request, truth, fault, told, given>>
    BY <1>1, <1>8
  <2>2. done' = 1 /\ 1 \notin truth.passing
    BY <1>4, <1>8
  <2>3. PageTypes' /\ PageTruth'
    BY <1>4, <2>1 DEF PageInv, PageTypes, PageRequest, PageTruth, Page!Possible
  <2>4. PageSearches'
    BY <1>1, <1>2, <1>4, <2>1, <2>2 DEF PageSearches
  <2>5. PageStages' /\ PageGives'
    BY <1>1, <2>1 DEF PageInv, PageStages, PageGives
  <2>6. QED
    BY <1>1, <2>1, <2>3, <2>4, <2>5, ToldStays DEF PageInv, PageStages
<1>9. QED
  BY <1>6, <1>7, <1>8

LEMMA OnlyPageRuns ==
  [PartsNext]_partsVars /\ running = "page" => Page!Next \/ UNCHANGED pageVars
  BY DEF PartsNext, partsVars, OthersStay, RekeyRuns, SearchRuns, DrawRuns, EntryRuns, WordsRun,
         MakingRuns, ListRuns, LineRuns, PageRuns, InputRuns, AnswersRun, RequestRun, ReferenceRuns,
         HuntRuns

LEMMA PageStutters == PageInv /\ UNCHANGED pageVars => PageInv'
<1> SUFFICES ASSUME PageInv, UNCHANGED pageVars PROVE PageInv'
  OBVIOUS
<1>1. UNCHANGED <<operation, request, truth, fault, done, given, posted, told>>
  BY DEF pageVars
<1>2. PageTypes' /\ PageTruth'
  BY <1>1 DEF PageInv, PageTypes, PageRequest, PageTruth, Page!Possible
<1>3. PageStages' /\ PageSearches'
  BY <1>1 DEF PageInv, PageStages, PageSearches, Page!KnownAnswer, Page!WrongIn
<1>4. PageGives'
  BY <1>1, GivenStays DEF PageInv, PageGives
<1>5. Page!ToldIsEarned'
  BY <1>1 DEF PageInv, Page!ToldIsEarned, Page!RoundsWereRight, Page!LengthIsNamed, Page!ChecksAreTrue,
     Page!SearchesAreTrue, Page!Trusted, Page!WrongIn
<1>6. QED
  BY <1>2, <1>3, <1>4, <1>5 DEF PageInv

LEMMA PageKeeps == PageInv /\ Page!Next => PageInv'
  BY PageAsks, PageRefuses, PageTakesMemory, PageLibraryRefuses, PageRoundFails, PageRounds,
     PageVerifies, PageCompares, PageAnswers, PageSearchesDecoy DEF Page!Next

(* What a page is told of its phrase is true: no answer, question or       *)
(* refusal rests on a round that the browser's build computed wrong, a     *)
(* recovery names the length of the owner's phrase, a check matches only   *)
(* the true recovery, and a search names the first candidate that matches. *)
THEOREM PagesAreToldTheTruth == PartsSpec => []ToldOnlyIfEarned
<1> DEFINE Inv == running = "page" => PageInv
<1>1. PartsInit => Inv
  BY PageBegins DEF PartsInit
<1>2. Inv /\ [PartsNext]_partsVars => Inv'
  <2> SUFFICES ASSUME PageInv, running = "page", [PartsNext]_partsVars PROVE PageInv'
    BY PartStays
  <2>1. CASE Page!Next
    BY <2>1, PageKeeps
  <2>2. CASE UNCHANGED pageVars
    BY <2>2, PageStutters
  <2>3. QED
    BY <2>1, <2>2, OnlyPageRuns
<1>3. Inv => ToldOnlyIfEarned
  BY DEF PageInv, ToldOnlyIfEarned
<1>4. QED
  BY <1>1, <1>2, <1>3, PTL DEF PartsSpec

-----------------------------------------------------------------------------
(* The search for missing words.                                         *)

(* Numbers, some of which there are, have a least.                         *)
Lesser == {pair \in Nat \X Nat : pair[1] < pair[2]}

LEMMA HasLeast ==
  ASSUME NEW T \in SUBSET Nat, T # {}
  PROVE  \E x \in T : \A y \in T : x <= y
<1>1. IsWellFoundedOn(Lesser, Nat)
  BY NatLessThanWellFounded DEF OpToRel, Lesser
<1>2. PICK x \in T : \A y \in T : ~(<<y, x>> \in Lesser)
  BY <1>1, WFMin
<1>3. ASSUME NEW y \in T PROVE x <= y
  <2>1. x \in Nat /\ y \in Nat
    OBVIOUS
  <2>2. ~(y < x)
    BY <1>2, <2>1 DEF Lesser
  <2>3. QED
    BY <2>1, <2>2
<1>4. QED
  BY <1>3

(* The candidates of a search for missing words.                           *)

HuntKnows ==
  /\ written \in [Hunt!Places -> Hunt!Typed \cup {Hunt!None}]
  /\ Hunt!Cardinality(Hunt!MissingPlaces) \in 1 .. 2

(* The module counts as everywhere.                                        *)
LEMMA HuntCount == \A S : Hunt!Cardinality(S) = Cardinality(S)
  BY DEF Hunt!Cardinality, Cardinality

(* One or two numbers, in their order.                                     *)
LEMMA OneOrTwo ==
  ASSUME NEW S \in SUBSET Nat, IsFiniteSet(S), Cardinality(S) \in 1 .. 2
  PROVE  \/ Cardinality(S) = 1 /\ \E x \in S : S = {x}
         \/ Cardinality(S) = 2 /\ \E x, y \in S : x < y /\ S = {x, y}
<1>1. S # {}
  BY FS_EmptySet
<1>2. PICK x \in S : TRUE
  BY <1>1
<1> DEFINE R == S \ {x}
<1>3. IsFiniteSet(R) /\ Cardinality(R) = Cardinality(S) - 1
  BY <1>2, FS_RemoveElement
<1>4. S = R \cup {x} /\ x \notin R /\ R \in SUBSET Nat
  BY <1>2
<1> HIDE DEF R
<1>5. CASE Cardinality(S) = 1
  <2>1. R = {}
    BY <1>3, <1>5, FS_EmptySet
  <2>2. QED
    BY <1>2, <1>4, <1>5, <2>1
<1>6. CASE Cardinality(S) = 2
  <2>1. Cardinality(R) = 1
    BY <1>3, <1>6
  <2>2. PICK y : R = {y}
    BY <1>3, <2>1, FS_Singleton
  <2>3. S = {x, y} /\ x # y /\ x \in Nat /\ y \in Nat
    BY <1>2, <1>4, <2>2
  <2>4. x < y \/ y < x
    BY <2>3
  <2>5. CASE x < y
    BY <1>6, <2>3, <2>5
  <2>6. CASE y < x
    <3>1. S = {y, x} /\ y \in S /\ x \in S
      BY <2>3
    <3>2. QED
      BY <1>6, <2>6, <3>1
  <2>7. QED
    BY <2>4, <2>5, <2>6
<1>7. QED
  BY <1>5, <1>6

(* The missing words, in their order.                                      *)
InOrder(s) == \A i, j \in DOMAIN s : i < j => s[i] < s[j]

(* A sequence in order of one or two numbers has each of them.             *)
LEMMA OrderedIs ==
  ASSUME NEW S \in SUBSET Nat, NEW n \in {1, 2}, NEW s \in [1 .. n -> S], InOrder(s),
         n = 1 => \E x \in S : S = {x},
         n = 2 => \E x, y \in S : S = {x, y}
  PROVE  /\ \A x \in S : \E at_ \in DOMAIN s : s[at_] = x
         /\ \A i, j \in DOMAIN s : s[i] = s[j] => i = j
<1>1. CASE n = 1
  <2>1. 1 .. n = {1}
    BY <1>1
  <2>2. QED
    BY <1>1, <2>1
<1>2. CASE n = 2
  <2>1. 1 .. n = {1, 2} /\ DOMAIN s = {1, 2}
    BY <1>2
  <2>2. s[1] < s[2] /\ s[1] \in S /\ s[2] \in S /\ s[1] \in Nat /\ s[2] \in Nat
    BY <2>1 DEF InOrder
  <2>3. s[1] # s[2]
    BY <2>2
  <2>4. S = {s[1], s[2]}
    BY <1>2, <2>2, <2>3
  <2>5. QED
    BY <2>1, <2>3, <2>4
<1>3. QED
  BY <1>1, <1>2

(* The missing words are the places marked so, each once, in order.        *)
LEMMA MissingIs ==
  ASSUME HuntKnows
  PROVE  /\ Len(Hunt!Missing) \in {1, 2} /\ DOMAIN Hunt!Missing = 1 .. Len(Hunt!Missing)
         /\ \A at_ \in DOMAIN Hunt!Missing :
              Hunt!Missing[at_] \in Hunt!Places /\ written[Hunt!Missing[at_]] = Hunt!None
         /\ \A place_ \in Hunt!Places : written[place_] = Hunt!None =>
              \E at_ \in DOMAIN Hunt!Missing : Hunt!Missing[at_] = place_
         /\ \A i, j \in DOMAIN Hunt!Missing : Hunt!Missing[i] = Hunt!Missing[j] => i = j
<1> DEFINE S == Hunt!MissingPlaces  P == Hunt!Places  n == Cardinality(S)  s == Hunt!Missing
<1>1. S \subseteq P /\ S = {place_ \in P : written[place_] = Hunt!None}
  BY DEF Hunt!MissingPlaces
<1>2. IsFiniteSet(P) /\ P \subseteq Nat
  <2>1. PhraseWords \in Int
    BY HuntAssumption
  <2>2. QED
    BY <2>1, FS_Interval DEF Hunt!Places
<1>3. n \in 1 .. 2
  BY HuntCount DEF HuntKnows
<1> HIDE DEF S, P
<1>4. S \in SUBSET Nat /\ IsFiniteSet(S)
  BY <1>1, <1>2, FS_Subset
<1>5. \/ n = 1 /\ \E x \in S : S = {x}
      \/ n = 2 /\ \E x, y \in S : x < y /\ S = {x, y}
  BY <1>3, <1>4, OneOrTwo
<1>6. \E t \in [1 .. n -> S] : InOrder(t)
  <2>1. CASE n = 1
    <3>1. PICK x \in S : S = {x}
      BY <1>5, <2>1
    <3>2. [i \in 1 .. 1 |-> x] \in [1 .. n -> S] /\ InOrder([i \in 1 .. 1 |-> x])
      BY <2>1, <3>1 DEF InOrder
    <3>3. QED
      BY <3>2
  <2>2. CASE n = 2
    <3>1. PICK x \in S, y \in S : x < y /\ S = {x, y}
      BY <1>5, <2>2
    <3> DEFINE t == [i \in 1 .. 2 |-> IF i = 1 THEN x ELSE y]
    <3>2. t \in [1 .. n -> S]
      BY <2>2, <3>1
    <3>3. InOrder(t)
      BY <1>4, <3>1 DEF InOrder
    <3>4. QED
      BY <3>2, <3>3
  <2>3. QED
    BY <1>5, <2>1, <2>2
<1>7. s = CHOOSE t \in [1 .. n -> S] : InOrder(t)
  BY HuntCount DEF Hunt!Missing, InOrder, S
<1>8. s \in [1 .. n -> S] /\ InOrder(s)
  BY <1>6, <1>7
<1> HIDE DEF s, n
<1>9. n \in {1, 2}
  BY <1>3
<1>10. Len(s) = n /\ DOMAIN s = 1 .. n
  BY <1>8, <1>9
<1>11. /\ \A x \in S : \E at_ \in DOMAIN s : s[at_] = x
       /\ \A i, j \in DOMAIN s : s[i] = s[j] => i = j
  <2>1. (n = 1 => \E x \in S : S = {x}) /\ (n = 2 => \E x, y \in S : S = {x, y})
    BY <1>5
  <2>2. QED
    BY <1>4, <1>8, <1>9, <2>1, OrderedIs
<1>12. \A at_ \in DOMAIN s : s[at_] \in P /\ written[s[at_]] = Hunt!None
  BY <1>1, <1>8
<1>13. \A place_ \in P : written[place_] = Hunt!None => \E at_ \in DOMAIN s : s[at_] = place_
  BY <1>1, <1>11
<1>14. QED
  BY <1>9, <1>10, <1>11, <1>12, <1>13 DEF s, P

Vectors == [DOMAIN Hunt!Missing -> Hunt!Numbers]

(* The words of the list are numbers from 0 on, and an unknown word is none*)
(* of them.                                                                *)
LEMMA WordsAreNumbers ==
  /\ Hunt!Numbers \subseteq Nat /\ Hunt!Typed \subseteq Hunt!Numbers /\ 0 \in Hunt!Numbers
  /\ Hunt!None \notin Hunt!Numbers
  BY HuntAssumption DEF Hunt!Numbers, Hunt!Typed, Hunt!None

(* What a candidate is, word by word, and that every phrase is one.        *)
LEMMA ContainerIs ==
  ASSUME HuntKnows, NEW v \in Vectors
  PROVE  /\ Hunt!Container(v) \in [Hunt!Places -> Hunt!Numbers]
         /\ \A place_ \in Hunt!Places : written[place_] \in {Hunt!None, Hunt!Container(v)[place_]}
         /\ \A at_ \in DOMAIN Hunt!Missing : Hunt!Container(v)[Hunt!Missing[at_]] = v[at_]
<1> DEFINE s == Hunt!Missing  c == Hunt!Container(v)
           Index(p) == CHOOSE at_ \in DOMAIN s : s[at_] = p
<1>1. c = [p \in Hunt!Places |-> IF written[p] # Hunt!None THEN written[p] ELSE v[Index(p)]]
  BY DEF Hunt!Container
<1>2. /\ \A at_ \in DOMAIN s : s[at_] \in Hunt!Places /\ written[s[at_]] = Hunt!None
      /\ \A p \in Hunt!Places : written[p] = Hunt!None => \E at_ \in DOMAIN s : s[at_] = p
      /\ \A i, j \in DOMAIN s : s[i] = s[j] => i = j
  BY MissingIs
<1>3. \A p \in Hunt!Places : written[p] = Hunt!None => Index(p) \in DOMAIN s /\ s[Index(p)] = p
  BY <1>2
<1>4. v \in [DOMAIN s -> Hunt!Numbers]
  BY DEF Vectors
<1>5. \A p \in Hunt!Places : written[p] \in Hunt!Numbers \cup {Hunt!None}
  BY WordsAreNumbers DEF HuntKnows
<1> HIDE DEF s, c, Index
<1>6. c \in [Hunt!Places -> Hunt!Numbers]
  BY <1>1, <1>3, <1>4, <1>5
<1>7. \A p \in Hunt!Places : written[p] \in {Hunt!None, c[p]}
  BY <1>1
<1>8. \A at_ \in DOMAIN s : c[s[at_]] = v[at_]
  <2> SUFFICES ASSUME NEW at_ \in DOMAIN s PROVE c[s[at_]] = v[at_]
    OBVIOUS
  <2>1. c[s[at_]] = v[Index(s[at_])]
    BY <1>1, <1>2
  <2>2. Index(s[at_]) = at_
    BY <1>2, <1>3
  <2>3. QED
    BY <2>1, <2>2
<1>9. QED
  BY <1>6, <1>7, <1>8 DEF s, c

(* Every phrase with the words typed is what some vector makes of them.    *)
LEMMA ContainsEvery ==
  ASSUME HuntKnows, NEW words \in [Hunt!Places -> Hunt!Numbers],
         \A p \in Hunt!Places : written[p] \in {Hunt!None, words[p]}
  PROVE  \E v \in Vectors : Hunt!Container(v) = words
<1> DEFINE s == Hunt!Missing  v == [at_ \in DOMAIN s |-> words[s[at_]]]  c == Hunt!Container(v)
<1>1. /\ \A at_ \in DOMAIN s : s[at_] \in Hunt!Places /\ written[s[at_]] = Hunt!None
      /\ \A p \in Hunt!Places : written[p] = Hunt!None => \E at_ \in DOMAIN s : s[at_] = p
  BY MissingIs
<1>2. v \in Vectors
  BY <1>1 DEF Vectors
<1>3. /\ c \in [Hunt!Places -> Hunt!Numbers]
      /\ \A p \in Hunt!Places : written[p] \in {Hunt!None, c[p]}
      /\ \A at_ \in DOMAIN s : c[s[at_]] = v[at_]
  BY <1>2, ContainerIs
<1>4. ASSUME NEW p \in Hunt!Places PROVE c[p] = words[p]
  <2> HIDE DEF c, s
  <2>1. CASE written[p] = Hunt!None
    <3>1. PICK at_ \in DOMAIN s : s[at_] = p
      BY <1>1, <2>1
    <3>2. QED
      BY <1>3, <3>1
  <2>2. CASE written[p] # Hunt!None
    BY <1>3, <2>2
  <2>3. QED
    BY <2>1, <2>2
<1> HIDE DEF v, c
<1>5. c = words
  BY <1>3, <1>4
<1>6. QED
  BY <1>2, <1>5 DEF c

(* The odometer: which values come before which.                           *)
Before(v, w) == \E i \in DOMAIN w : v[i] < w[i] /\ \A k \in DOMAIN w : k < i => v[k] = w[k]

(* Two vectors that differ have a first place where they do.               *)
LEMMA FirstDiffers ==
  ASSUME NEW n \in Nat, NEW v \in [1 .. n -> Hunt!Numbers], NEW w \in [1 .. n -> Hunt!Numbers],
         v # w
  PROVE  \E i \in 1 .. n : v[i] # w[i] /\ \A k \in 1 .. n : k < i => v[k] = w[k]
<1> DEFINE T == {k \in 1 .. n : v[k] # w[k]}
<1>1. T \in SUBSET Nat /\ T # {}
  <2>1. \E k \in 1 .. n : v[k] # w[k]
    OBVIOUS
  <2>2. QED
    BY <2>1
<1>2. PICK i \in T : \A k \in T : i <= k
  <2> HIDE DEF T
  <2>1. QED
    BY <1>1, HasLeast
<1>3. i \in 1 .. n /\ v[i] # w[i]
  OBVIOUS
<1>4. \A k \in 1 .. n : k < i => v[k] = w[k]
  <2> SUFFICES ASSUME NEW k \in 1 .. n, k < i, v[k] # w[k] PROVE FALSE
    OBVIOUS
  <2>1. k \in T
    OBVIOUS
  <2>2. i <= k
    BY <1>2, <2>1
  <2>3. QED
    BY <1>3, <2>2
<1>5. QED
  BY <1>3, <1>4

(* Places, some of which there are, have a last.                           *)
LEMMA HasGreatest ==
  ASSUME NEW n \in Nat, NEW T \in SUBSET (1 .. n), T # {}
  PROVE  Hunt!Max(T) \in T /\ \A y \in T : y <= Hunt!Max(T)
<1> DEFINE R == {k \in 0 .. n : n - k \in T}
<1>1. R \in SUBSET Nat
  OBVIOUS
<1>2. R # {}
  <2>1. PICK x \in T : TRUE
    OBVIOUS
  <2>2. n - x \in 0 .. n /\ n - (n - x) = x
    BY <2>1
  <2>3. QED
    BY <2>1, <2>2
<1>3. PICK k \in R : \A j \in R : k <= j
  <2> HIDE DEF R
  <2>1. QED
    BY <1>1, <1>2, HasLeast
<1>4. n - k \in T
  OBVIOUS
<1>5. ASSUME NEW y \in T PROVE n - k >= y
  <2>1. n - y \in 0 .. n /\ n - (n - y) = y
    OBVIOUS
  <2>2. n - y \in R
    BY <2>1
  <2>3. k <= n - y /\ k \in Nat
    BY <1>3, <2>2
  <2>4. QED
    BY <2>1, <2>3
<1>6. Hunt!Max(T) = CHOOSE x \in T : \A y \in T : x >= y
  BY DEF Hunt!Max
<1>7. \E x \in T : \A y \in T : x >= y
  BY <1>4, <1>5
<1>8. Hunt!Max(T) \in T /\ \A y \in T : Hunt!Max(T) >= y
  BY <1>6, <1>7
<1>9. QED
  BY <1>8

(* A step of the odometer: a word goes on, those before it stay, and those *)
(* after it, which are at their last, begin again.                         *)
LEMMA AdvanceIs ==
  ASSUME NEW n \in Nat, NEW w \in [1 .. n -> Hunt!Numbers], ~Hunt!IsLast(w),
         NEW a, a = Hunt!Advance(w)
  PROVE  /\ a \in [1 .. n -> Hunt!Numbers]
         /\ \E g \in 1 .. n :
              /\ a[g] = w[g] + 1
              /\ \A k \in 1 .. n : k < g => a[k] = w[k]
              /\ \A k \in 1 .. n : k > g => a[k] = 0 /\ w[k] + 1 \notin Hunt!Numbers
<1> DEFINE T == {i \in 1 .. n : w[i] + 1 \in Hunt!Numbers}  g == Hunt!Max(T)
<1>1. DOMAIN w = 1 .. n
  OBVIOUS
<1>2. T \in SUBSET (1 .. n) /\ T # {}
  BY <1>1 DEF Hunt!IsLast
<1>3. g \in T /\ \A y \in T : y <= g
  <2> HIDE DEF T
  <2>1. QED
    BY <1>2, HasGreatest
<1>4. g \in 1 .. n /\ w[g] + 1 \in Hunt!Numbers
  BY <1>3
<1>5. a = [i \in 1 .. n |-> CASE i < g -> w[i] [] i = g -> w[i] + 1 [] OTHER -> 0]
  BY <1>1 DEF Hunt!Advance
<1>6. \A k \in 1 .. n : k > g => w[k] + 1 \notin Hunt!Numbers
  <2> SUFFICES ASSUME NEW k \in 1 .. n, k > g, w[k] + 1 \in Hunt!Numbers PROVE FALSE
    OBVIOUS
  <2>1. k <= g
    BY <1>3
  <2>2. QED
    BY <1>4, <2>1
<1> HIDE DEF g, T
<1>7. \A k \in 1 .. n : a[k] = IF k < g THEN w[k] ELSE IF k = g THEN w[k] + 1 ELSE 0
  BY <1>4, <1>5
<1>8. a = [i \in 1 .. n |-> a[i]]
  BY <1>5
<1>9. \A k \in 1 .. n : a[k] \in Hunt!Numbers
  BY <1>4, <1>7, WordsAreNumbers
<1>10. a \in [1 .. n -> Hunt!Numbers]
  BY <1>8, <1>9
<1>11. a[g] = w[g] + 1 /\ (\A k \in 1 .. n : k < g => a[k] = w[k]) /\ (\A k \in 1 .. n : k > g => a[k] = 0)
  BY <1>4, <1>7
<1>12. QED
  BY <1>4, <1>6, <1>10, <1>11

(* A number without a successor is the last.                               *)
LEMMA LastNumber == \A x \in Hunt!Numbers, y \in Hunt!Numbers : y + 1 \notin Hunt!Numbers /\ x # y => x < y
  BY HuntAssumption DEF Hunt!Numbers

(* No vector is before itself.                                             *)
LEMMA NotBeforeItself == ASSUME NEW n \in Nat, NEW w \in [1 .. n -> Hunt!Numbers] PROVE ~Before(w, w)
<1>1. \A i \in DOMAIN w : w[i] \in Nat
  BY WordsAreNumbers
<1>2. \A i \in DOMAIN w : ~(w[i] < w[i])
  BY <1>1
<1>3. QED
  BY <1>2 DEF Before

(* No vector is before the first tried.                                    *)
LEMMA NoneIsBefore ==
  ASSUME NEW n \in Nat, NEW v \in [1 .. n -> Hunt!Numbers] PROVE ~Before(v, [i \in 1 .. n |-> 0])
<1>1. \A i \in 1 .. n : v[i] \in Nat
  BY WordsAreNumbers
<1>2. \A i \in 1 .. n : ~(v[i] < 0)
  BY <1>1
<1>3. QED
  BY <1>2 DEF Before

(* Every vector is before the last one, but that one.                      *)
LEMMA AllUpToLast ==
  ASSUME NEW n \in Nat, NEW v \in [1 .. n -> Hunt!Numbers], NEW w \in [1 .. n -> Hunt!Numbers],
         Hunt!IsLast(w)
  PROVE  Before(v, w) \/ v = w
<1> SUFFICES ASSUME v # w PROVE Before(v, w)
  OBVIOUS
<1>2. PICK i \in 1 .. n : v[i] # w[i] /\ \A k \in 1 .. n : k < i => v[k] = w[k]
  BY FirstDiffers
<1>3. w[i] + 1 \notin Hunt!Numbers
  BY <1>2 DEF Hunt!IsLast
<1>4. v[i] < w[i]
  BY <1>2, <1>3, LastNumber
<1>5. QED
  BY <1>2, <1>4 DEF Before

(* The vectors before the next are those before this one, and this one.    *)
LEMMA AdvancedCovers ==
  ASSUME NEW n \in Nat, NEW v \in [1 .. n -> Hunt!Numbers], NEW w \in [1 .. n -> Hunt!Numbers],
         ~Hunt!IsLast(w)
  PROVE  Before(v, Hunt!Advance(w)) <=> Before(v, w) \/ v = w
<1> DEFINE a == Hunt!Advance(w)
<1>1. a \in [1 .. n -> Hunt!Numbers]
  BY AdvanceIs
<1>2. PICK g \in 1 .. n :
        /\ a[g] = w[g] + 1
        /\ \A k \in 1 .. n : k < g => a[k] = w[k]
        /\ \A k \in 1 .. n : k > g => a[k] = 0 /\ w[k] + 1 \notin Hunt!Numbers
  BY AdvanceIs
<1> HIDE DEF a
<1>3. \A k \in 1 .. n : v[k] \in Nat /\ w[k] \in Nat /\ a[k] \in Nat
  BY <1>1, WordsAreNumbers
<1>4. DOMAIN w = 1 .. n /\ DOMAIN a = 1 .. n
  BY <1>1
<1>5. ASSUME Before(v, w) PROVE Before(v, a)
  <2>1. PICK i \in 1 .. n : v[i] < w[i] /\ \A k \in 1 .. n : k < i => v[k] = w[k]
    BY <1>4, <1>5 DEF Before
  <2>2. CASE i < g
    <3>1. v[i] < a[i]
      BY <1>2, <2>1, <2>2
    <3>2. \A k \in 1 .. n : k < i => v[k] = a[k]
      BY <1>2, <2>1, <2>2
    <3>3. QED
      BY <1>4, <3>1, <3>2 DEF Before
  <2>3. CASE i = g
    <3>1. v[g] < a[g]
      BY <1>2, <1>3, <2>1, <2>3
    <3>2. \A k \in 1 .. n : k < g => v[k] = a[k]
      BY <1>2, <2>1, <2>3
    <3>3. QED
      BY <1>4, <3>1, <3>2 DEF Before
  <2>4. CASE i > g
    <3>1. v[g] = w[g] /\ \A k \in 1 .. n : k < g => v[k] = a[k]
      BY <1>2, <2>1, <2>4
    <3>2. v[g] < a[g]
      BY <1>2, <1>3, <3>1
    <3>3. QED
      BY <1>4, <3>1, <3>2 DEF Before
  <2>5. QED
    BY <2>2, <2>3, <2>4
<1>6. ASSUME v = w PROVE Before(v, a)
  <2>1. v[g] < a[g] /\ \A k \in 1 .. n : k < g => v[k] = a[k]
    BY <1>2, <1>3, <1>6
  <2>2. QED
    BY <1>4, <2>1 DEF Before
<1>7. ASSUME Before(v, a), v # w PROVE Before(v, w)
  <2>1. PICK i \in 1 .. n : v[i] < a[i] /\ \A k \in 1 .. n : k < i => v[k] = a[k]
    BY <1>4, <1>7 DEF Before
  <2>2. i <= g
    <3>1. i > g => a[i] = 0
      BY <1>2
    <3>2. QED
      BY <1>3, <2>1, <3>1
  <2>3. CASE i < g
    <3>1. v[i] < w[i] /\ \A k \in 1 .. n : k < i => v[k] = w[k]
      BY <1>2, <2>1, <2>3
    <3>2. QED
      BY <1>4, <3>1 DEF Before
  <2>4. CASE i = g /\ v[g] # w[g]
    <3> DEFINE x == v[g]  y == w[g]
    <3>0. v[g] < a[g] /\ a[g] = w[g] + 1 /\ v[g] # w[g] /\ \A k \in 1 .. n : k < g => v[k] = a[k]
      BY <1>2, <2>1, <2>4
    <3>4. x \in Nat /\ y \in Nat /\ x < y + 1 /\ x # y
      BY <1>3, <3>0
    <3> HIDE DEF x, y
    <3>3. x < y
      BY <3>4
    <3>1. v[g] < w[g] /\ \A k \in 1 .. n : k < g => v[k] = w[k]
      BY <1>2, <3>0, <3>3 DEF x, y
    <3>2. QED
      BY <1>4, <3>1 DEF Before
  <2>5. CASE i = g /\ v[g] = w[g]
    <3>1. \A k \in 1 .. n : k < g => v[k] = w[k]
      BY <1>2, <2>1, <2>5
    <3>4. PICK j \in 1 .. n : v[j] # w[j] /\ \A k \in 1 .. n : k < j => v[k] = w[k]
      BY <1>7, FirstDiffers
    <3>5. j > g
      BY <2>5, <3>1, <3>4
    <3>6. v[j] < w[j]
      BY <1>2, <3>4, <3>5, LastNumber
    <3>7. QED
      BY <1>4, <3>4, <3>6 DEF Before
  <2>6. QED
    BY <2>2, <2>3, <2>4, <2>5
<1>8. QED
  BY <1>5, <1>6, <1>7 DEF a

(* The candidates listed of the values tried: each that passes, once.      *)
Passing == {v \in Vectors : Hunt!PassesChecksum(Hunt!Container(v))}
Tried(w) == {v \in Vectors : Before(v, w)}

ListsAll(c, P) ==
  /\ c \in Seq(P)
  /\ \A v \in P : \E i \in DOMAIN c : c[i] = v
  /\ \A i, j \in DOMAIN c : c[i] = c[j] => i = j

(* A list of all of P, with one more at its end, is one of all of P and    *)
(* that one.                                                               *)
LEMMA ListsOneMore ==
  ASSUME NEW P, NEW c, ListsAll(c, P), NEW x, x \notin P
  PROVE  ListsAll(Append(c, x), P \cup {x})
<1> DEFINE Q == P \cup {x}  d == Append(c, x)
<1>1. c \in Seq(P) /\ Len(c) \in Nat /\ DOMAIN c = 1 .. Len(c)
  BY DEF ListsAll
<1>2. \A i \in DOMAIN c : c[i] \in P
  BY <1>1
<1>3. c \in Seq(Q) /\ x \in Q
  BY <1>1, <1>2
<1> HIDE DEF Q
<1>4. d \in Seq(Q) /\ Len(d) = Len(c) + 1 /\ DOMAIN d = 1 .. Len(d)
  BY <1>3
<1>5. (\A i \in 1 .. Len(c) : d[i] = c[i]) /\ d[Len(c) + 1] = x
  BY <1>3
<1> HIDE DEF d
<1>6. \A v \in Q : \E i \in DOMAIN d : d[i] = v
  <2> SUFFICES ASSUME NEW v \in Q PROVE \E i \in DOMAIN d : d[i] = v
    OBVIOUS
  <2>1. CASE v = x
    BY <1>1, <1>4, <1>5, <2>1
  <2>2. CASE v # x
    <3>1. v \in P
      BY <2>2 DEF Q
    <3>2. PICK i \in DOMAIN c : c[i] = v
      BY <3>1 DEF ListsAll
    <3>3. i \in 1 .. Len(c) /\ i \in DOMAIN d
      BY <1>1, <1>4
    <3>4. QED
      BY <1>5, <3>2, <3>3
  <2>3. QED
    BY <2>1, <2>2
<1>7. ASSUME NEW i \in DOMAIN d, NEW j \in DOMAIN d, d[i] = d[j] PROVE i = j
  <2>1. (i \in 1 .. Len(c) \/ i = Len(c) + 1) /\ (j \in 1 .. Len(c) \/ j = Len(c) + 1)
    BY <1>1, <1>4
  <2>2. CASE i \in 1 .. Len(c) /\ j \in 1 .. Len(c)
    <3>1. c[i] = c[j]
      BY <1>5, <1>7, <2>2
    <3>2. QED
      BY <1>1, <2>2, <3>1 DEF ListsAll
  <2>3. CASE i \in 1 .. Len(c) /\ j = Len(c) + 1
    BY <1>1, <1>2, <1>5, <1>7, <2>3
  <2>4. CASE i = Len(c) + 1 /\ j \in 1 .. Len(c)
    BY <1>1, <1>2, <1>5, <1>7, <2>4
  <2>5. CASE i = Len(c) + 1 /\ j = Len(c) + 1
    BY <2>5
  <2>6. QED
    BY <2>1, <2>2, <2>3, <2>4, <2>5
<1>8. ListsAll(d, Q)
  BY <1>4, <1>6, <1>7 DEF ListsAll
<1>9. QED
  BY <1>8 DEF d, Q

(* What is listed while values are tried, and when they all were.          *)
CandidatesAre ==
  /\ hunt # "begin" => HuntKnows
  /\ hunt = "begin" => possible = <<>>
  /\ hunt = "trying" => numbers \in Vectors /\ ListsAll(possible, Tried(numbers) \cap Passing)
  /\ hunt \notin {"begin", "trying"} => ListsAll(possible, Passing)

(* Nothing tried, nothing listed.                                          *)
LEMMA ListsNone == ListsAll(<<>>, {})
  BY DEF ListsAll

(* The first vector is tried when the words are typed.                     *)
LEMMA HuntBegins ==
  ASSUME CandidatesAre, Hunt!Begins
  PROVE  CandidatesAre'
<1>1. hunt = "begin" /\ hunt' = "trying" /\ possible' = possible /\ possible = <<>>
  BY DEF Hunt!Begins, CandidatesAre
<1>2. HuntKnows'
  <2>1. written' \in [Hunt!Places -> Hunt!Typed \cup {Hunt!None}]
        /\ Hunt!Cardinality({p \in Hunt!Places : written'[p] = Hunt!None}) \in 1 .. 2
    BY DEF Hunt!Begins, Hunt!MaxMissingForDecoy
  <2>2. Hunt!MissingPlaces' = {p \in Hunt!Places : written'[p] = Hunt!None}
    BY DEF Hunt!MissingPlaces
  <2>3. QED
    BY <2>1, <2>2 DEF HuntKnows
<1>3. numbers' = [i \in DOMAIN Hunt!Missing' |-> 0]
  BY DEF Hunt!Begins
<1>4. numbers' \in Vectors'
  BY <1>3, WordsAreNumbers DEF Vectors
<1>5. Tried(numbers)' = {}
  <2>1. PICK n \in Nat : DOMAIN Hunt!Missing' = 1 .. n
    <3>1. (Len(Hunt!Missing) \in {1, 2} /\ DOMAIN Hunt!Missing = 1 .. Len(Hunt!Missing))'
      BY <1>2, MissingIs, PTL
    <3>2. QED
      BY <3>1
  <2>2. \A v \in Vectors' : v \in [1 .. n -> Hunt!Numbers]
    BY <2>1 DEF Vectors
  <2>3. numbers' = [i \in 1 .. n |-> 0]
    BY <1>3, <2>1
  <2>4. \A v \in Vectors' : ~Before(v, numbers')
    BY <2>2, <2>3, NoneIsBefore
  <2>5. QED
    BY <2>4 DEF Tried
<1>6. ListsAll(possible', Tried(numbers)' \cap Passing')
  BY <1>1, <1>5, ListsNone
<1>7. QED
  BY <1>1, <1>2, <1>4, <1>6 DEF CandidatesAre

(* What was typed decides the vectors and their phrases.                   *)
LEMMA WrittenStays ==
  ASSUME written' = written
  PROVE  /\ Hunt!Missing' = Hunt!Missing /\ Vectors' = Vectors /\ Passing' = Passing
         /\ (HuntKnows' <=> HuntKnows) /\ Hunt!MissingPlaces' = Hunt!MissingPlaces
<1>1. Hunt!MissingPlaces' = Hunt!MissingPlaces
  BY DEF Hunt!MissingPlaces
<1>2. Hunt!Missing' = Hunt!Missing
  BY <1>1 DEF Hunt!Missing
<1>3. Vectors' = Vectors
  BY <1>2 DEF Vectors
<1>4. Passing' = Passing
  BY <1>2, <1>3 DEF Passing, Hunt!Container
<1>5. HuntKnows' <=> HuntKnows
  BY <1>1 DEF HuntKnows
<1>6. QED
  BY <1>1, <1>2, <1>3, <1>4, <1>5

(* A vector that was tried is a candidate if it passes, and no other is.   *)
LEMMA HuntTries ==
  ASSUME CandidatesAre, Hunt!Tries
  PROVE  CandidatesAre'
<1>1. /\ hunt = "trying" /\ written' = written
      /\ possible' = IF Hunt!PassesChecksum(Hunt!Container(numbers)) THEN Append(possible, numbers)
                     ELSE possible
      /\ Hunt!IsLast(numbers) => hunt' = "listed"
      /\ ~Hunt!IsLast(numbers) => hunt' = "trying" /\ numbers' = Hunt!Advance(numbers)
  BY DEF Hunt!Tries
<1>2. /\ Hunt!Missing' = Hunt!Missing /\ Vectors' = Vectors /\ Passing' = Passing
      /\ (HuntKnows' <=> HuntKnows)
  BY <1>1, WrittenStays
<1>3. HuntKnows /\ numbers \in Vectors /\ ListsAll(possible, Tried(numbers) \cap Passing)
  BY <1>1 DEF CandidatesAre
<1>4. PICK n \in Nat : DOMAIN Hunt!Missing = 1 .. n
  BY <1>3, MissingIs
<1>5. Vectors = [1 .. n -> Hunt!Numbers]
  BY <1>4 DEF Vectors
<1> DEFINE P == Tried(numbers) \cap Passing  Q == (Tried(numbers) \cup {numbers}) \cap Passing
<1>6. numbers \notin P
  <2>1. ~Before(numbers, numbers)
    BY <1>3, <1>5, NotBeforeItself
  <2>2. QED
    BY <2>1 DEF Tried
<1>7. ListsAll(possible', Q)
  <2>1. CASE numbers \in Passing
    <3>1. Q = P \cup {numbers}
      BY <2>1
    <3>2. possible' = Append(possible, numbers)
      BY <1>1, <2>1 DEF Passing
    <3>3. ListsAll(Append(possible, numbers), P \cup {numbers})
      BY <1>3, <1>6, ListsOneMore
    <3>4. QED
      BY <3>1, <3>2, <3>3
  <2>2. CASE numbers \notin Passing
    <3>1. Q = P
      BY <2>2
    <3>2. possible' = possible
      BY <1>1, <1>3, <2>2 DEF Passing
    <3>3. QED
      BY <1>3, <3>1, <3>2
  <2>3. QED
    BY <2>1, <2>2
<1>8. CASE Hunt!IsLast(numbers)
  <2>1. \A v \in Vectors : Before(v, numbers) \/ v = numbers
    BY <1>3, <1>5, <1>8, AllUpToLast
  <2>2. Q = Passing
    BY <2>1 DEF Tried, Passing
  <2>3. QED
    BY <1>1, <1>2, <1>3, <1>7, <1>8, <2>2 DEF CandidatesAre
<1>9. CASE ~Hunt!IsLast(numbers)
  <2>1. numbers' \in Vectors
    BY <1>1, <1>3, <1>5, <1>9, AdvanceIs
  <2>2. \A v \in Vectors : Before(v, numbers') <=> Before(v, numbers) \/ v = numbers
    BY <1>1, <1>3, <1>5, <1>9, AdvancedCovers
  <2>3. Tried(numbers)' = Tried(numbers) \cup {numbers}
    BY <1>2, <1>3, <2>2 DEF Tried
  <2>4. ListsAll(possible', Tried(numbers)' \cap Passing')
    BY <1>2, <1>7, <2>3
  <2>5. QED
    BY <1>1, <1>2, <1>3, <1>9, <2>1, <2>4 DEF CandidatesAre
<1>10. QED
  BY <1>8, <1>9

(* The list stays once it is there.                                        *)
LEMMA ListStays ==
  ASSUME CandidatesAre, hunt \notin {"begin", "trying"}, hunt' \notin {"begin", "trying"},
         UNCHANGED <<written, possible>>
  PROVE  CandidatesAre'
  BY WrittenStays DEF CandidatesAre

(* All phrases with the words typed that pass the checksum.                *)
LEMMA EachIsListed ==
  ASSUME CandidatesAre
  PROVE  Hunt!ListsEach
<1> SUFFICES ASSUME hunt \notin {"begin", "trying"}
             PROVE  /\ {Hunt!Container(possible[i]) : i \in DOMAIN possible} =
                         {words \in [Hunt!Places -> Hunt!Numbers] :
                            /\ Hunt!PassesChecksum(words)
                            /\ \A p \in Hunt!Places : written[p] \in {Hunt!None, words[p]}}
                    /\ Hunt!IsInjective(possible)
  BY DEF Hunt!ListsEach
<1>1. HuntKnows /\ ListsAll(possible, Passing)
  BY DEF CandidatesAre
<1> DEFINE L == {Hunt!Container(possible[i]) : i \in DOMAIN possible}
           R == {words \in [Hunt!Places -> Hunt!Numbers] :
                   /\ Hunt!PassesChecksum(words)
                   /\ \A p \in Hunt!Places : written[p] \in {Hunt!None, words[p]}}
<1>2. ASSUME NEW c \in L PROVE c \in R
  <2>1. PICK i \in DOMAIN possible : c = Hunt!Container(possible[i])
    OBVIOUS
  <2>2. possible[i] \in Passing
    BY <1>1 DEF ListsAll
  <2>3. possible[i] \in Vectors /\ Hunt!PassesChecksum(c)
    BY <2>1, <2>2 DEF Passing
  <2>4. c \in [Hunt!Places -> Hunt!Numbers] /\ \A p \in Hunt!Places : written[p] \in {Hunt!None, c[p]}
    BY <1>1, <2>1, <2>3, ContainerIs
  <2>5. QED
    BY <2>3, <2>4
<1>3. ASSUME NEW words \in R PROVE words \in L
  <2>1. PICK v \in Vectors : Hunt!Container(v) = words
    BY <1>1, ContainsEvery
  <2>2. v \in Passing
    BY <2>1 DEF Passing
  <2>3. PICK i \in DOMAIN possible : possible[i] = v
    BY <1>1, <2>2 DEF ListsAll
  <2>4. QED
    BY <2>1, <2>3
<1>4. Hunt!IsInjective(possible)
  BY <1>1 DEF Hunt!IsInjective, ListsAll
<1>5. QED
  BY <1>2, <1>3, <1>4

(* What a search was asked for, how long it takes, and what it finds.      *)
Early == {"begin", "trying", "listed"}
ByRecovery == {"starts", "declined", "recovering", "missed", "use"}
AtOnce == {"gap", "number", "states", "comparing", "refused", "missed", "use"}
Long == {"recovering", "missed", "use"}

Chances == {"passes", "fails"}
SeeksIs(r, k, wallets) ==
  IF k = "checks"
  THEN r \in [kind : {"checks"}, wallet : wallets, passphrase : {"its", "another"}, chance : Chances,
              check : {"built-in", "drawn"}]
  ELSE \/ r \in [kind : {"fingerprint"}, wallet : wallets, passphrase : Hunt!Passphrases,
                 chance : Chances]
       \/ r \in [kind : {"address"}, wallet : wallets, passphrase : Hunt!Passphrases,
                 chance : {"fails"}, place : Hunt!AddressPlaces,
                 path : Hunt!AddressPlaces \cup {<<>>}, limits : {Hunt!DefaultLimits}]

HuntAsks ==
  /\ hunt \in Early => knows = "nothing"
  /\ hunt \notin Early => SeeksIs(seeks, knows, Hunt!Phrases)
  /\ \/ knows = "nothing" /\ hunt \in Early
     \/ knows = "container" /\ hunt \in AtOnce
     \/ knows \in {"original", "checks"} /\ hunt \in ByRecovery /\ Len(Hunt!Missing) = 1

HuntWaits ==
  /\ recoveries \in Nat /\ progress = IF hunter = "tool" THEN recoveries ELSE 0
  /\ hunt \notin Long \/ knows = "container" => recoveries = 0 /\ opens = "none"
  /\ hunt \in Long /\ knows # "container" =>
       /\ foretold = Len(possible) /\ opens \in {"right", "wrong"} /\ recoveries <= foretold
       /\ hunt = "missed" => recoveries = foretold
       /\ scope = IF seeks.kind = "address" THEN Hunt!DefaultLimits ELSE <<>>
       /\ hunt # "use" => \A i \in 1 .. recoveries : ~Hunt!SearchWallet(i)

IsTheirs(i) == \/ Hunt!Container(possible[i]) = seeks.wallet
               \/ seeks.chance = "passes" /\ Hunt!Container(possible[i]) = Hunt!Container(possible[1])

HuntFinds ==
  /\ hit = Hunt!NotFound \/ (hunt = "use" /\ \E i \in DOMAIN possible : hit = Hunt!Found(i) /\ IsTheirs(i))
  /\ knows = "container" /\ hunt \in {"comparing", "missed"} =>
       scope = IF seeks.kind = "address" THEN Hunt!DecoyAddressLimits(gap) ELSE <<>>
  /\ knows = "container" /\ hunt = "missed" => Hunt!SearchDecoy = {}

HuntInv == CandidatesAre /\ HuntAsks /\ HuntWaits /\ HuntFinds

(* A search that has not begun.                                            *)
LEMMA HuntStarts == Hunt!Init => HuntInv
  BY DEF Hunt!Init, HuntInv, CandidatesAre, HuntAsks, HuntWaits, HuntFinds, Early, Long

(* The candidates and the reference stay, and what is compared with them.  *)
LEMMA ComparedStays ==
  ASSUME UNCHANGED <<written, possible>>
  PROVE  /\ Hunt!Missing' = Hunt!Missing /\ Hunt!Phrases' = Hunt!Phrases
         /\ Hunt!TwoMissing' = Hunt!TwoMissing
         /\ \A v : Hunt!Container(v)' = Hunt!Container(v)
         /\ seeks' = seeks => \A i : Hunt!Found(i)' = Hunt!Found(i) /\ IsTheirs(i)' = IsTheirs(i)
         /\ seeks' = seeks /\ gap' = gap => Hunt!SearchDecoy' = Hunt!SearchDecoy
         /\ gap' = gap => Hunt!DecoyAddressLimits(gap)' = Hunt!DecoyAddressLimits(gap)
         /\ UNCHANGED <<seeks, knows, opens>> => \A i : Hunt!SearchWallet(i)' = Hunt!SearchWallet(i)
<1>1. Hunt!Missing' = Hunt!Missing
  BY WrittenStays
<1>2. \A v : Hunt!Container(v)' = Hunt!Container(v)
  BY <1>1 DEF Hunt!Container
<1>3. Hunt!Phrases' = Hunt!Phrases
  BY <1>2 DEF Hunt!Phrases
<1>4. Hunt!TwoMissing' = Hunt!TwoMissing
  BY <1>1 DEF Hunt!TwoMissing
<1>5. ASSUME seeks' = seeks PROVE \A i : Hunt!Found(i)' = Hunt!Found(i) /\ IsTheirs(i)' = IsTheirs(i)
  BY <1>1, <1>2, <1>5 DEF Hunt!Found, Hunt!FoundAt, IsTheirs
<1>6. ASSUME gap' = gap PROVE Hunt!DecoyAddressLimits(gap)' = Hunt!DecoyAddressLimits(gap)
  BY <1>4, <1>6 DEF Hunt!DecoyAddressLimits
<1>7. \A w, r : Hunt!CompareUntil(w, r)' = Hunt!CompareUntil(w, r)
  BY <1>2 DEF Hunt!CompareUntil
<1>8. ASSUME seeks' = seeks, gap' = gap PROVE Hunt!SearchDecoy' = Hunt!SearchDecoy
  BY <1>2, <1>6, <1>7, <1>8 DEF Hunt!SearchDecoy, Hunt!DecoyReference
<1>9. ASSUME UNCHANGED <<seeks, knows, opens>>
      PROVE  \A i : Hunt!SearchWallet(i)' = Hunt!SearchWallet(i)
  BY <1>2, <1>7, <1>9 DEF Hunt!SearchWallet, Hunt!OwnCheckPasses, Hunt!WithoutPassphrase
<1>10. QED
  BY <1>1, <1>2, <1>3, <1>4, <1>5, <1>6, <1>8, <1>9

(* No step of the list loses what holds.                                   *)
LEMMA HuntLists ==
  ASSUME HuntInv, Hunt!Begins \/ Hunt!Tries
  PROVE  HuntInv'
<1>1. CandidatesAre'
  BY HuntBegins, HuntTries DEF HuntInv
<1>2. /\ hunt \in Early /\ hunt' \in Early
      /\ UNCHANGED <<hunter, knows, seeks, gap, scope, foretold, recoveries, progress, opens, hit>>
  BY DEF Hunt!Begins, Hunt!Tries, Early
<1>3. HuntAsks'
  BY <1>2 DEF HuntInv, HuntAsks
<1>4. HuntWaits'
  BY <1>2 DEF HuntInv, HuntWaits, Early, Long
<1>5. HuntFinds'
  BY <1>2 DEF HuntInv, HuntAsks, HuntFinds, Early
<1>6. QED
  BY <1>1, <1>3, <1>4, <1>5 DEF HuntInv

(* Where two words are not missing, one is.                                *)
LEMMA OneIsMissing == ASSUME HuntKnows, ~Hunt!TwoMissing PROVE Len(Hunt!Missing) = 1
  BY MissingIs DEF Hunt!TwoMissing, Hunt!MaxMissingForWallet

(* What is known of the wallet, and typed for it.                          *)
LEMMA HuntReads ==
  ASSUME HuntInv, Hunt!Reads
  PROVE  HuntInv'
<1>1. /\ hunt = "listed"
      /\ knows' \in {"container", "original", "checks"} /\ (knows' # "container" => ~Hunt!TwoMissing)
      /\ seeks' \in IF knows' = "checks" THEN Hunt!OwnChecks ELSE Hunt!Addresses(hunter') \cup Hunt!Fingerprints
      /\ knows' # "container" => hunt' = "starts"
      /\ knows' = "container" => hunt' \in {"states", "gap"}
      /\ UNCHANGED <<written, numbers, possible, scope, foretold, recoveries, progress, opens, hit>>
  BY DEF Hunt!Reads
<1>2. Hunt!Phrases' = Hunt!Phrases /\ Hunt!Missing' = Hunt!Missing
  BY <1>1, ComparedStays
<1>3. CandidatesAre'
  BY <1>1, ListStays DEF HuntInv
<1>4. knows' # "container" => Len(Hunt!Missing) = 1
  BY <1>1, OneIsMissing DEF HuntInv, CandidatesAre
<1>5. SeeksIs(seeks', knows', Hunt!Phrases)
  <2>1. CASE knows' = "checks"
    BY <1>1, <2>1 DEF SeeksIs, Hunt!OwnChecks, Chances
  <2>2. CASE knows' # "checks" /\ seeks' \in Hunt!Fingerprints
    BY <2>2 DEF SeeksIs, Hunt!Fingerprints, Chances
  <2>3. CASE knows' # "checks" /\ seeks' \in Hunt!Addresses(hunter')
    BY <2>3 DEF SeeksIs, Hunt!Addresses
  <2>4. QED
    BY <1>1, <2>1, <2>2, <2>3
<1>6. HuntAsks'
  BY <1>1, <1>2, <1>4, <1>5 DEF HuntAsks, Early, AtOnce, ByRecovery
<1>7. recoveries = 0 /\ progress = 0 /\ opens = "none" /\ hit = Hunt!NotFound
  BY <1>1 DEF HuntInv, HuntWaits, HuntFinds, Long
<1>8. HuntWaits'
  BY <1>1, <1>7 DEF HuntWaits, Long
<1>9. HuntFinds'
  BY <1>1, <1>7 DEF HuntFinds
<1>10. QED
  BY <1>3, <1>6, <1>8, <1>9 DEF HuntInv

(* The gap of the decoy search.                                            *)
LEMMA HuntGaps ==
  ASSUME HuntInv, Hunt!AsksScanGap \/ Hunt!ReadsOwnGap \/ Hunt!States
  PROVE  HuntInv'
<1>1. /\ hunt \in {"gap", "number", "states"} /\ hunt' \in {"states", "number", "refused", "comparing"}
      /\ hunt' = "comparing" => gap' = gap /\ scope' = IF seeks.kind = "address"
                                                       THEN Hunt!DecoyAddressLimits(gap) ELSE <<>>
      /\ UNCHANGED <<written, numbers, possible, hunter, knows, seeks, foretold, recoveries, progress,
                     opens, hit>>
  BY DEF Hunt!AsksScanGap, Hunt!ReadsOwnGap, Hunt!States
<1>2. /\ Hunt!Phrases' = Hunt!Phrases /\ Hunt!Missing' = Hunt!Missing
      /\ gap' = gap => Hunt!DecoyAddressLimits(gap)' = Hunt!DecoyAddressLimits(gap)
  BY <1>1, ComparedStays
<1>3. CandidatesAre'
  BY <1>1, ListStays DEF HuntInv
<1>4. knows = "container" /\ SeeksIs(seeks, knows, Hunt!Phrases)
  BY <1>1 DEF HuntInv, HuntAsks, Early, ByRecovery
<1>5. HuntAsks'
  BY <1>1, <1>2, <1>4 DEF HuntAsks, Early, AtOnce
<1>6. HuntWaits'
  BY <1>1, <1>4 DEF HuntInv, HuntWaits, Long
<1>7. HuntFinds'
  BY <1>1, <1>2, <1>4 DEF HuntInv, HuntFinds
<1>8. QED
  BY <1>3, <1>5, <1>6, <1>7 DEF HuntInv

(* What a comparison accepts is the wallet's, or a chance.                 *)
LEMMA AcceptsTheirs ==
  ASSUME NEW r, NEW words, Hunt!CompareUntil(words, r), r.kind = "address" => r.chance = "fails"
  PROVE  words = r.wallet \/ (r.chance = "passes" /\ words = Hunt!Container(possible[1]))
  BY DEF Hunt!CompareUntil, Hunt!IsWallet

(* What a decoy search looks for is of the three kinds.                    *)
LEMMA DecoyReferenceIs ==
  ASSUME NEW r, NEW k \in {"container", "original"}, NEW l, SeeksIs(r, k, Hunt!Phrases),
         NEW d, d = Hunt!DecoyReference(r, l)
  PROVE  /\ d.kind = r.kind /\ d.wallet = r.wallet /\ d.passphrase = r.passphrase /\ d.chance = r.chance
         /\ r.kind = "address" => /\ d.place = r.place /\ d.path = r.path
                                  /\ r.path = <<>> => d.limits = l
  BY DEF Hunt!DecoyReference, SeeksIs

(* The least of some numbers is one of them.                               *)
LEMMA LeastOf ==
  ASSUME NEW T \in SUBSET Nat, T # {}
  PROVE  Hunt!Min(T) \in T
<1>1. \E x \in T : \A y \in T : x <= y
  BY HasLeast
<1>2. Hunt!Min(T) = CHOOSE x \in T : \A y \in T : x <= y
  BY DEF Hunt!Min
<1>3. QED
  BY <1>1, <1>2

(* From the list on, the candidates have numbers.                          *)
LEMMA PossibleIs ==
  ASSUME CandidatesAre, hunt \notin Early
  PROVE  DOMAIN possible = 1 .. Len(possible) /\ Len(possible) \in Nat
  BY DEF CandidatesAre, ListsAll, Early

(* The candidates are compared at once, as containers.                     *)
LEMMA HuntCompares ==
  ASSUME HuntInv, Hunt!CompareWithDecoy
  PROVE  HuntInv'
<1>1. /\ hunt = "comparing" /\ hunt' \in {"missed", "use"}
      /\ hunt' = "missed" => Hunt!SearchDecoy = {} /\ hit' = hit
      /\ hunt' = "use" => Hunt!SearchDecoy # {} /\ hit' = Hunt!Found(Hunt!Min(Hunt!SearchDecoy))
      /\ UNCHANGED <<written, numbers, possible, hunter, knows, seeks, gap, scope, foretold, recoveries,
                     progress, opens>>
  BY DEF Hunt!CompareWithDecoy
<1>2. /\ Hunt!Phrases' = Hunt!Phrases /\ Hunt!Missing' = Hunt!Missing
      /\ \A i : Hunt!Found(i)' = Hunt!Found(i) /\ IsTheirs(i)' = IsTheirs(i)
      /\ Hunt!SearchDecoy' = Hunt!SearchDecoy
      /\ Hunt!DecoyAddressLimits(gap)' = Hunt!DecoyAddressLimits(gap)
  BY <1>1, ComparedStays
<1>3. CandidatesAre'
  BY <1>1, ListStays DEF HuntInv
<1>4. knows = "container" /\ SeeksIs(seeks, knows, Hunt!Phrases)
  BY <1>1 DEF HuntInv, HuntAsks, Early, ByRecovery
<1>5. HuntAsks'
  BY <1>1, <1>2, <1>4 DEF HuntAsks, Early, AtOnce
<1>6. HuntWaits'
  BY <1>1, <1>4 DEF HuntInv, HuntWaits, Long
<1>7. hunt' = "use" => \E i \in DOMAIN possible : hit' = Hunt!Found(i) /\ IsTheirs(i)
  <2> SUFFICES ASSUME hunt' = "use" PROVE \E i \in DOMAIN possible : hit' = Hunt!Found(i) /\ IsTheirs(i)
    OBVIOUS
  <2> DEFINE D == Hunt!SearchDecoy  i == Hunt!Min(D)
             r == Hunt!DecoyReference(seeks, Hunt!DecoyAddressLimits(gap))
  <2>1. D = {j \in DOMAIN possible : Hunt!CompareUntil(Hunt!Container(possible[j]), r)}
    BY DEF Hunt!SearchDecoy
  <2>2. D \in SUBSET Nat /\ D # {}
    BY <1>1, <2>1, PossibleIs DEF HuntInv, Early
  <2>3. i \in D
    <3> HIDE DEF D
    <3>1. QED
      BY <2>2, LeastOf
  <2>4. i \in DOMAIN possible /\ Hunt!CompareUntil(Hunt!Container(possible[i]), r)
    BY <2>1, <2>3
  <2>5. r.kind = seeks.kind /\ r.wallet = seeks.wallet /\ r.chance = seeks.chance
    BY <1>4, DecoyReferenceIs
  <2>6. seeks.kind = "address" => seeks.chance = "fails"
    BY <1>4 DEF SeeksIs
  <2> HIDE DEF r, i
  <2>7. IsTheirs(i)
    BY <2>4, <2>5, <2>6, AcceptsTheirs DEF IsTheirs
  <2>8. hit' = Hunt!Found(i)
    BY <1>1 DEF i
  <2>9. QED
    BY <2>4, <2>7, <2>8
<1>8. HuntFinds'
  <2>1. hit = Hunt!NotFound
    BY <1>1 DEF HuntInv, HuntFinds
  <2>2. scope = IF seeks.kind = "address" THEN Hunt!DecoyAddressLimits(gap) ELSE <<>>
    BY <1>1, <1>4 DEF HuntInv, HuntFinds
  <2>3. QED
    BY <1>1, <1>2, <1>7, <2>1, <2>2 DEF HuntFinds
<1>9. QED
  BY <1>3, <1>5, <1>6, <1>8 DEF HuntInv

(* A search by recoveries, that was foretold.                              *)
LEMMA HuntStartsLong ==
  ASSUME HuntInv, Hunt!StartsLong
  PROVE  HuntInv'
<1>1. /\ hunt = "starts" /\ foretold' = Len(possible)
      /\ scope' = IF seeks.kind = "address" THEN Hunt!DefaultLimits ELSE <<>>
      /\ \/ hunt' = "declined" /\ opens' = opens
         \/ hunt' = "recovering" /\ opens' \in {"right", "wrong"}
      /\ UNCHANGED <<written, numbers, possible, hunter, knows, seeks, gap, recoveries, progress, hit>>
  BY DEF Hunt!StartsLong
<1>2. Hunt!Phrases' = Hunt!Phrases /\ Hunt!Missing' = Hunt!Missing
  BY <1>1, ComparedStays
<1>3. CandidatesAre'
  BY <1>1, ListStays DEF HuntInv
<1>4. knows \in {"original", "checks"} /\ SeeksIs(seeks, knows, Hunt!Phrases) /\ Len(Hunt!Missing) = 1
  BY <1>1 DEF HuntInv, HuntAsks, Early, AtOnce
<1>5. HuntAsks'
  BY <1>1, <1>2, <1>4 DEF HuntAsks, Early, ByRecovery
<1>6. HuntWaits'
  <2>1. recoveries = 0 /\ opens = "none" /\ progress = 0
    BY <1>1 DEF HuntInv, HuntWaits, Long
  <2>2. Len(possible) \in Nat
    BY <1>1, PossibleIs DEF HuntInv, Early
  <2>3. /\ recoveries' = 0 /\ progress' = IF hunter' = "tool" THEN 0 ELSE 0
        /\ foretold' = Len(possible)' /\ 0 <= Len(possible)
        /\ \A i : i \notin 1 .. 0
    BY <1>1, <2>1, <2>2
  <2>4. CASE hunt' = "declined"
    BY <1>1, <2>1, <2>3, <2>4 DEF HuntWaits, Long
  <2>5. CASE hunt' = "recovering"
    <3>1. opens' \in {"right", "wrong"} /\ seeks' = seeks /\ foretold' = Len(possible)
      BY <1>1, <2>5
    <3>2. recoveries' <= foretold' /\ recoveries' \in Nat /\ hunt' # "missed" /\ hunt' # "use"
      BY <2>3, <2>5, <3>1
    <3>3. \A i \in 1 .. recoveries' : ~Hunt!SearchWallet(i)'
      BY <2>3
    <3>4. QED
      BY <1>1, <1>4, <2>3, <2>5, <3>1, <3>2, <3>3 DEF HuntWaits, Long
  <2>6. QED
    BY <1>1, <2>4, <2>5
<1>7. HuntFinds'
  <2>1. hit = Hunt!NotFound
    BY <1>1 DEF HuntInv, HuntFinds
  <2>2. QED
    BY <1>1, <1>4, <2>1 DEF HuntFinds
<1>8. QED
  BY <1>3, <1>5, <1>6, <1>7 DEF HuntInv

(* What a recovery matches is the wallet's, or a chance.                   *)
LEMMA RecoveryFindsTheirs ==
  ASSUME NEW k, k = knows, k \in {"original", "checks"}, SeeksIs(seeks, k, Hunt!Phrases), NEW i,
         Hunt!SearchWallet(i)
  PROVE  IsTheirs(i)
<1>1. CASE k = "checks"
  BY <1>1 DEF Hunt!SearchWallet, Hunt!OwnCheckPasses, IsTheirs
<1>2. CASE k = "original" /\ seeks.chance = "passes" /\ i = 1
  BY <1>2 DEF IsTheirs
<1>3. CASE k = "original" /\ ~(seeks.chance = "passes" /\ i = 1)
  <2> DEFINE words == Hunt!Container(possible[i])  q == Hunt!WithoutPassphrase
  <2>1. Hunt!CompareUntil(words, seeks) \/ Hunt!CompareUntil(words, q)
    BY <1>3 DEF Hunt!SearchWallet
  <2>2. q.kind = seeks.kind /\ q.wallet = seeks.wallet /\ q.chance = seeks.chance
    BY <1>3 DEF Hunt!WithoutPassphrase, SeeksIs
  <2>3. seeks.kind = "address" => seeks.chance = "fails"
    BY <1>3 DEF SeeksIs
  <2> HIDE DEF q
  <2>4. CASE Hunt!CompareUntil(words, seeks)
    BY <2>3, <2>4, AcceptsTheirs DEF IsTheirs
  <2>5. CASE Hunt!CompareUntil(words, q)
    <3>1. words = q.wallet \/ (q.chance = "passes" /\ words = Hunt!Container(possible[1]))
      BY <2>2, <2>3, <2>5, AcceptsTheirs
    <3>2. QED
      BY <2>2, <3>1 DEF IsTheirs
  <2>6. QED
    BY <2>1, <2>4, <2>5
<1>4. QED
  BY <1>1, <1>2, <1>3

(* One recovery after the other, until one is the wallet or none is left.  *)
LEMMA HuntRunsLong ==
  ASSUME HuntInv, Hunt!RunLong
  PROVE  HuntInv'
<1>1. /\ hunt = "recovering"
      /\ UNCHANGED <<written, numbers, possible, hunter, knows, seeks, gap, scope, foretold, opens>>
      /\ recoveries = Len(possible) => hunt' = "missed" /\ UNCHANGED <<recoveries, progress, hit>>
      /\ recoveries # Len(possible) =>
           /\ recoveries' = recoveries + 1
           /\ progress' = IF hunter = "tool" THEN progress + 1 ELSE progress
           /\ Hunt!SearchWallet(recoveries') => hunt' = "use" /\ hit' = Hunt!Found(recoveries')
           /\ ~Hunt!SearchWallet(recoveries') => hunt' = hunt /\ hit' = hit
  BY DEF Hunt!RunLong
<1>2. /\ Hunt!Phrases' = Hunt!Phrases /\ Hunt!Missing' = Hunt!Missing
      /\ \A i : Hunt!Found(i)' = Hunt!Found(i) /\ IsTheirs(i)' = IsTheirs(i)
      /\ \A i : Hunt!SearchWallet(i)' = Hunt!SearchWallet(i)
  BY <1>1, ComparedStays
<1>3. hunt' \in {"recovering", "missed", "use"}
  BY <1>1
<1>4. CandidatesAre'
  BY <1>1, <1>3, ListStays DEF HuntInv
<1>5. knows \in {"original", "checks"} /\ SeeksIs(seeks, knows, Hunt!Phrases) /\ Len(Hunt!Missing) = 1
  BY <1>1 DEF HuntInv, HuntAsks, Early, AtOnce
<1>6. HuntAsks'
  BY <1>1, <1>2, <1>3, <1>5 DEF HuntAsks, Early, ByRecovery
<1>7. /\ recoveries \in Nat /\ progress = IF hunter = "tool" THEN recoveries ELSE 0
      /\ foretold = Len(possible) /\ opens \in {"right", "wrong"} /\ recoveries <= foretold
      /\ scope = IF seeks.kind = "address" THEN Hunt!DefaultLimits ELSE <<>>
      /\ \A i \in 1 .. recoveries : ~Hunt!SearchWallet(i)
  BY <1>1, <1>5 DEF HuntInv, HuntWaits, Long
<1>8. DOMAIN possible = 1 .. Len(possible) /\ Len(possible) \in Nat
  BY <1>1, PossibleIs DEF HuntInv, Early
<1>9. hit = Hunt!NotFound
  BY <1>1 DEF HuntInv, HuntFinds
<1>10. CASE recoveries = Len(possible)
  <2>1. HuntWaits'
    BY <1>1, <1>2, <1>5, <1>7, <1>10 DEF HuntWaits, Long
  <2>2. HuntFinds'
    BY <1>1, <1>5, <1>9, <1>10 DEF HuntFinds
  <2>3. QED
    BY <1>4, <1>6, <2>1, <2>2 DEF HuntInv
<1>11. CASE recoveries # Len(possible)
  <2>1. /\ recoveries' = recoveries + 1 /\ recoveries' \in 1 .. Len(possible)
        /\ progress' = IF hunter = "tool" THEN recoveries' ELSE 0
    BY <1>1, <1>7, <1>8, <1>11
  <2>2. hunt' \in {"recovering", "use"}
    BY <1>1, <1>11
  <2>3. hunt' # "use" => \A i \in 1 .. recoveries' : ~Hunt!SearchWallet(i)
    <3>1. hunt' # "use" => ~Hunt!SearchWallet(recoveries')
      BY <1>1, <1>11
    <3>2. \A i \in 1 .. recoveries' : i \in 1 .. recoveries \/ i = recoveries'
      BY <1>7, <2>1
    <3>3. QED
      BY <1>7, <3>1, <3>2
  <2>4. HuntWaits'
    <3>1. recoveries' \in Nat /\ recoveries' <= Len(possible)
      BY <1>8, <2>1
    <3>2. QED
      BY <1>1, <1>2, <1>5, <1>7, <2>1, <2>2, <2>3, <3>1 DEF HuntWaits, Long
  <2>5. hunt' = "use" => hit' = Hunt!Found(recoveries') /\ IsTheirs(recoveries')
    <3> SUFFICES ASSUME hunt' = "use" PROVE hit' = Hunt!Found(recoveries') /\ IsTheirs(recoveries')
      OBVIOUS
    <3>1. Hunt!SearchWallet(recoveries')
      BY <1>1, <1>11
    <3>2. QED
      BY <1>1, <1>5, <1>11, <3>1, RecoveryFindsTheirs
  <2>6. hunt' # "use" => hit' = hit
    BY <1>1, <1>11
  <2>7. HuntFinds'
    <3>1. \/ hit' = Hunt!NotFound
          \/ hunt' = "use" /\ \E i \in DOMAIN possible : hit' = Hunt!Found(i) /\ IsTheirs(i)
      BY <1>8, <1>9, <2>1, <2>5, <2>6
    <3>2. QED
      BY <1>1, <1>2, <1>5, <3>1 DEF HuntFinds
  <2>8. QED
    BY <1>4, <1>6, <2>4, <2>7 DEF HuntInv
<1>12. QED
  BY <1>10, <1>11

(* Every step of a search, and every other step, keeps the invariant.      *)
LEMMA HuntKeeps == HuntInv /\ Hunt!Next => HuntInv'
  BY HuntLists, HuntReads, HuntGaps, HuntCompares, HuntStartsLong, HuntRunsLong DEF Hunt!Next

LEMMA HuntStutters == HuntInv /\ UNCHANGED huntVars => HuntInv'
<1> SUFFICES ASSUME HuntInv, UNCHANGED huntVars PROVE HuntInv'
  OBVIOUS
<1>1. UNCHANGED <<hunt, written, numbers, possible, hunter, knows, seeks, gap, scope, foretold,
                  recoveries, progress, opens, hit>>
  BY DEF huntVars
<1>2. /\ Hunt!Missing' = Hunt!Missing /\ Hunt!Phrases' = Hunt!Phrases
      /\ Vectors' = Vectors /\ Passing' = Passing /\ (HuntKnows' <=> HuntKnows)
      /\ \A i : Hunt!Found(i)' = Hunt!Found(i) /\ IsTheirs(i)' = IsTheirs(i)
      /\ Hunt!SearchDecoy' = Hunt!SearchDecoy
      /\ Hunt!DecoyAddressLimits(gap)' = Hunt!DecoyAddressLimits(gap)
      /\ \A i : Hunt!SearchWallet(i)' = Hunt!SearchWallet(i)
  BY <1>1, ComparedStays, WrittenStays
<1>3. Tried(numbers)' = Tried(numbers)
  BY <1>1, <1>2 DEF Tried
<1>4. CandidatesAre'
  BY <1>1, <1>2, <1>3 DEF HuntInv, CandidatesAre
<1>5. HuntAsks'
  BY <1>1, <1>2 DEF HuntInv, HuntAsks
<1>6. HuntWaits'
  BY <1>1, <1>2 DEF HuntInv, HuntWaits
<1>7. HuntFinds'
  BY <1>1, <1>2 DEF HuntInv, HuntFinds
<1>8. QED
  BY <1>4, <1>5, <1>6, <1>7 DEF HuntInv

-----------------------------------------------------------------------------

(* A candidate that was found is the wallet, or passed by chance.          *)
LEMMA FoundIs == HuntInv => Hunt!FoundIsTheirs
<1> SUFFICES ASSUME HuntInv, hit.container # <<>>
             PROVE  /\ \/ hit.container = seeks.wallet
                       \/ seeks.chance = "passes" /\ hit.container = Hunt!Container(possible[1])
                    /\ hit.words = {<<p, hit.container[p]>> : p \in {q \in Hunt!Places : written[q] = Hunt!None}}
                    /\ \A p \in Hunt!Places : written[p] \in {Hunt!None, hit.container[p]}
  BY DEF Hunt!FoundIsTheirs
<1>1. PICK i \in DOMAIN possible : hunt = "use" /\ hit = Hunt!Found(i) /\ IsTheirs(i)
  BY DEF HuntInv, HuntFinds, Hunt!NotFound
<1> DEFINE c == Hunt!Container(possible[i])
<1>2. hit.container = c /\ hit.words = {<<Hunt!Missing[k], possible[i][k]>> : k \in DOMAIN Hunt!Missing}
  BY <1>1 DEF Hunt!Found, Hunt!FoundAt
<1>3. HuntKnows /\ possible[i] \in Vectors
  BY <1>1 DEF HuntInv, CandidatesAre, ListsAll, Passing
<1>4. /\ \A p \in Hunt!Places : written[p] \in {Hunt!None, c[p]}
      /\ \A k \in DOMAIN Hunt!Missing : c[Hunt!Missing[k]] = possible[i][k]
  BY <1>3, ContainerIs
<1>5. /\ \A k \in DOMAIN Hunt!Missing : Hunt!Missing[k] \in Hunt!Places /\ written[Hunt!Missing[k]] = Hunt!None
      /\ \A p \in Hunt!Places : written[p] = Hunt!None => \E k \in DOMAIN Hunt!Missing : Hunt!Missing[k] = p
  BY <1>3, MissingIs
<1> HIDE DEF c
<1> DEFINE W == {<<Hunt!Missing[k], possible[i][k]>> : k \in DOMAIN Hunt!Missing}
           V == {<<p, c[p]>> : p \in {q \in Hunt!Places : written[q] = Hunt!None}}
<1>6. ASSUME NEW x \in W PROVE x \in V
  <2>1. PICK k \in DOMAIN Hunt!Missing : x = <<Hunt!Missing[k], possible[i][k]>>
    OBVIOUS
  <2>2. x = <<Hunt!Missing[k], c[Hunt!Missing[k]]>>
    BY <1>4, <2>1
  <2>3. QED
    BY <1>5, <2>2
<1>7. ASSUME NEW x \in V PROVE x \in W
  <2>1. PICK p \in Hunt!Places : written[p] = Hunt!None /\ x = <<p, c[p]>>
    OBVIOUS
  <2>2. PICK k \in DOMAIN Hunt!Missing : Hunt!Missing[k] = p
    BY <1>5, <2>1
  <2>3. x = <<Hunt!Missing[k], possible[i][k]>>
    BY <1>4, <2>1, <2>2
  <2>4. QED
    BY <2>3
<1>8. W = V
  BY <1>6, <1>7
<1>9. QED
  BY <1>1, <1>2, <1>4, <1>8 DEF IsTheirs, c

(* No more recoveries than were said, and all of them when none matched.   *)
LEMMA WaitIs == HuntInv => Hunt!WaitsAsTold
<1> SUFFICES ASSUME HuntInv PROVE Hunt!WaitsAsTold
  OBVIOUS
<1>1. ASSUME recoveries > 0 PROVE Len(Hunt!Missing) = 1 /\ recoveries <= foretold /\ opens # "none"
  <2>1. hunt \in Long /\ knows # "container"
    BY <1>1 DEF HuntInv, HuntWaits
  <2>2. recoveries <= foretold /\ opens # "none"
    BY <2>1 DEF HuntInv, HuntWaits
  <2>3. Len(Hunt!Missing) = 1
    BY <2>1 DEF HuntInv, HuntAsks, Early, Long
  <2>4. QED
    BY <2>2, <2>3
<1>2. hunter = "tool" => progress = recoveries
  BY DEF HuntInv, HuntWaits
<1>3. hunt = "missed" /\ knows # "container" => recoveries = foretold
  BY DEF HuntInv, HuntWaits, Long
<1>4. QED
  BY <1>1, <1>2, <1>3 DEF Hunt!WaitsAsTold

(* A wallet that a search missed is one of the candidates, and none of     *)
(* them matched.                                                           *)
LEMMA WalletIsPossible ==
  ASSUME HuntInv, hunt = "missed", seeks.wallet # <<>>
  PROVE  \E i \in DOMAIN possible : Hunt!Container(possible[i]) = seeks.wallet
<1>1. SeeksIs(seeks, knows, Hunt!Phrases)
  BY DEF HuntInv, HuntAsks, Early
<1>2. seeks.wallet \in Hunt!Phrases
  BY <1>1 DEF SeeksIs
<1>3. QED
  BY <1>2 DEF Hunt!Phrases

(* An address missed where containers were compared lies beyond the limits *)
(* of the search.                                                          *)
LEMMA MissedAtOnce ==
  ASSUME HuntInv, hunt = "missed", seeks.wallet # <<>>, knows = "container", seeks.passphrase = "its"
  PROVE  /\ seeks.kind = "address"
         /\ IF seeks.path # <<>> THEN seeks.place # seeks.path
            ELSE /\ ~Hunt!Within(seeks.place, scope)
                 /\ Hunt!TwoMissing => ~Hunt!Within(seeks.place, Hunt!FirstAccount(gap))
<1> DEFINE l == Hunt!DecoyAddressLimits(gap)  r == Hunt!DecoyReference(seeks, l)
<1>1. PICK i \in DOMAIN possible : Hunt!Container(possible[i]) = seeks.wallet
  BY WalletIsPossible
<1>2. SeeksIs(seeks, knows, Hunt!Phrases) /\ seeks.kind \in {"address", "fingerprint"}
  BY DEF HuntInv, HuntAsks, Early, SeeksIs
<1>3. /\ r.kind = seeks.kind /\ r.wallet = seeks.wallet /\ r.passphrase = seeks.passphrase
      /\ seeks.kind = "address" => /\ r.place = seeks.place /\ r.path = seeks.path
                                   /\ seeks.path = <<>> => r.limits = l
  BY <1>2, DecoyReferenceIs
<1>4. ~Hunt!CompareUntil(seeks.wallet, r)
  BY <1>1 DEF HuntInv, HuntFinds, Hunt!SearchDecoy
<1>5. scope = IF seeks.kind = "address" THEN l ELSE <<>>
  BY DEF HuntInv, HuntFinds
<1>6. Hunt!TwoMissing => l = Hunt!FirstAccount(gap)
  BY DEF Hunt!DecoyAddressLimits
<1> HIDE DEF l, r
<1>7. Hunt!IsWallet(seeks.wallet, r)
  BY <1>3 DEF Hunt!IsWallet
<1>8. seeks.kind = "address"
  <2> SUFFICES ASSUME seeks.kind = "fingerprint" PROVE FALSE
    BY <1>2
  <2>1. QED
    BY <1>3, <1>4, <1>7 DEF Hunt!CompareUntil
<1>9. ~Hunt!LooksAt(r)
  BY <1>3, <1>4, <1>7, <1>8 DEF Hunt!CompareUntil
<1>10. CASE seeks.path # <<>>
  BY <1>3, <1>8, <1>9, <1>10 DEF Hunt!LooksAt
<1>11. CASE seeks.path = <<>>
  <2>1. ~Hunt!Within(seeks.place, l)
    BY <1>3, <1>8, <1>9, <1>11 DEF Hunt!LooksAt
  <2>2. QED
    BY <1>5, <1>6, <1>8, <1>11, <2>1
<1>12. QED
  BY <1>8, <1>10, <1>11

(* A wallet missed by recoveries was a candidate that was searched, and not*)
(* found in it.                                                            *)
LEMMA MissedByRecovery ==
  ASSUME HuntInv, hunt = "missed", seeks.wallet # <<>>, knows # "container", opens # "wrong"
  PROVE  \E i : /\ Hunt!Container(possible[i]) = seeks.wallet /\ ~Hunt!SearchWallet(i)
                /\ opens = "right" /\ knows \in {"original", "checks"}
                /\ Len(Hunt!Missing) = 1
                /\ scope = IF seeks.kind = "address" THEN Hunt!DefaultLimits ELSE <<>>
<1>1. PICK i \in DOMAIN possible : Hunt!Container(possible[i]) = seeks.wallet
  BY WalletIsPossible
<1>2. DOMAIN possible = 1 .. Len(possible)
  BY PossibleIs DEF HuntInv, Early
<1>3. /\ recoveries = Len(possible) /\ opens \in {"right", "wrong"}
      /\ scope = IF seeks.kind = "address" THEN Hunt!DefaultLimits ELSE <<>>
      /\ \A j \in 1 .. recoveries : ~Hunt!SearchWallet(j)
  BY DEF HuntInv, HuntWaits, Long
<1>4. knows \in {"original", "checks"} /\ Len(Hunt!Missing) = 1
  BY DEF HuntInv, HuntAsks, Early
<1>5. QED
  BY <1>1, <1>2, <1>3, <1>4

(* A wallet that was missed is not where it was searched.                  *)
LEMMA MissedIs == HuntInv => Hunt!MissedIsElsewhere
<1> SUFFICES ASSUME HuntInv, hunt = "missed", seeks.wallet # <<>>, opens # "wrong", Hunt!IsTyped
             PROVE  CASE seeks.kind = "address" ->
                           IF seeks.path # <<>> THEN seeks.place # seeks.path
                           ELSE /\ ~Hunt!Within(seeks.place, scope)
                                /\ Hunt!TwoMissing => ~Hunt!Within(seeks.place, Hunt!FirstAccount(gap))
                      [] OTHER -> FALSE
  BY DEF Hunt!MissedIsElsewhere
<1>1. CASE knows = "container"
  <2>1. seeks.passphrase = "its"
    BY <1>1 DEF Hunt!IsTyped
  <2>2. QED
    BY <1>1, <2>1, MissedAtOnce
<1>2. CASE knows = "original"
  <2>1. PICK i : /\ Hunt!Container(possible[i]) = seeks.wallet /\ ~Hunt!SearchWallet(i) /\ opens = "right"
                 /\ Len(Hunt!Missing) = 1
                 /\ scope = IF seeks.kind = "address" THEN Hunt!DefaultLimits ELSE <<>>
    BY <1>2, MissedByRecovery
  <2>2. SeeksIs(seeks, "original", Hunt!Phrases) /\ seeks.passphrase \in {"its", "needless"}
    BY <1>2 DEF HuntInv, HuntAsks, Early, Hunt!IsTyped, SeeksIs, Hunt!Passphrases
  <2> DEFINE q == IF seeks.passphrase = "needless" THEN Hunt!WithoutPassphrase ELSE seeks
  <2>3. /\ q.passphrase = "its" /\ q.wallet = seeks.wallet /\ q.kind = seeks.kind
        /\ seeks.kind = "address" => q.place = seeks.place /\ q.path = seeks.path /\ q.limits = Hunt!DefaultLimits
    BY <2>2 DEF SeeksIs, Hunt!WithoutPassphrase
  <2>4. ~Hunt!CompareUntil(seeks.wallet, q)
    BY <1>2, <2>1 DEF Hunt!SearchWallet
  <2>5. seeks.kind \in {"address", "fingerprint"}
    BY <2>2 DEF SeeksIs
  <2>6. ~Hunt!TwoMissing
    BY <2>1 DEF Hunt!TwoMissing, Hunt!MaxMissingForWallet
  <2> HIDE DEF q
  <2>7. Hunt!IsWallet(seeks.wallet, q)
    BY <2>3 DEF Hunt!IsWallet
  <2>8. seeks.kind = "address"
    <3> SUFFICES ASSUME seeks.kind = "fingerprint" PROVE FALSE
      BY <2>5
    <3>1. QED
      BY <2>3, <2>4, <2>7 DEF Hunt!CompareUntil
  <2>9. ~Hunt!LooksAt(q)
    BY <2>3, <2>4, <2>7, <2>8 DEF Hunt!CompareUntil
  <2>10. QED
    BY <2>1, <2>3, <2>6, <2>8, <2>9 DEF Hunt!LooksAt
<1>3. CASE knows = "checks"
  <2>1. PICK i : Hunt!Container(possible[i]) = seeks.wallet /\ ~Hunt!SearchWallet(i) /\ opens = "right"
    BY <1>3, MissedByRecovery
  <2>2. seeks.check = "built-in" \/ seeks.passphrase = "its"
    BY <1>3 DEF Hunt!IsTyped
  <2>3. Hunt!SearchWallet(i)
    BY <1>3, <2>1, <2>2 DEF Hunt!SearchWallet, Hunt!OwnCheckPasses
  <2>4. QED
    BY <2>1, <2>3
<1>4. knows \in {"container", "original", "checks"}
  BY DEF HuntInv, HuntAsks, Early
<1>5. QED
  BY <1>1, <1>2, <1>3, <1>4

(* The parts of the property together.                                     *)
LEMMA HuntTells == HuntInv => Hunt!SearchIsSound
  BY EachIsListed, FoundIs, MissedIs, WaitIs DEF HuntInv, Hunt!SearchIsSound

(* While a search runs, no other part does.                                *)
LEMMA OnlyHuntRuns ==
  [PartsNext]_partsVars /\ running = "hunt" => Hunt!Next \/ UNCHANGED huntVars
  BY DEF PartsNext, partsVars, OthersStay, RekeyRuns, SearchRuns, DrawRuns, EntryRuns, WordsRun,
         MakingRuns, ListRuns, LineRuns, PageRuns, InputRuns, AnswersRun, RequestRun, ReferenceRuns,
         HuntRuns

(* The candidates of a search are every phrase with the words typed that   *)
(* passes the checksum, each once, for lists and phrases of any length;    *)
(* what is found is the wallet's, or passed a check of few bits by chance; *)
(* a wallet that was missed lies beyond what was said to be searched, or   *)
(* something typed for it is not its own; and a person waits for no more   *)
(* recoveries than were said.                                              *)
THEOREM MissingWordsAreFound == PartsSpec => []WordsAreFound
<1> DEFINE Inv == running = "hunt" => HuntInv
<1>1. PartsInit => Inv
  BY HuntStarts DEF PartsInit
<1>2. Inv /\ [PartsNext]_partsVars => Inv'
  <2> SUFFICES ASSUME HuntInv, running = "hunt", [PartsNext]_partsVars PROVE HuntInv'
    BY PartStays
  <2>1. CASE Hunt!Next
    BY <2>1, HuntKeeps
  <2>2. CASE UNCHANGED huntVars
    BY <2>2, HuntStutters
  <2>3. QED
    BY <2>1, <2>2, OnlyHuntRuns
<1>3. Inv => WordsAreFound
  BY HuntTells DEF WordsAreFound
<1>4. QED
  BY <1>1, <1>2, <1>3, PTL DEF PartsSpec
=============================================================================
