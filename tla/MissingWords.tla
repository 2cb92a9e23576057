---------------------------- MODULE MissingWords ----------------------------
(***************************************************************************)
(* One search for the words of a container phrase that are typed as ?: the *)
(* candidates that the BIP39 checksum leaves, how far an address is looked *)
(* for, and what each candidate is compared with (src/search.rs, the       *)
(* comparison of src/rehearsal.rs), as the command line tool asks for it   *)
(* (src/bin/mhfe/container_search.rs) or a page calls it.                  *)
(*                                                                         *)
(* The candidates are compared in turn here; CandidateSearch has the       *)
(* threads that share them.                                                *)
(***************************************************************************)
EXTENDS Integers, Sequences, SequencesExt, FiniteSetsExt

CONSTANTS
  PhraseWords,      \* of a container phrase, 24
  ListWords,        \* LIST_SIZE
  TypedWords,       \* of the list, those that are typed
  MostGap,          \* SearchLimits::MOST
  DecoyGap,         \* DECOY_SCAN_GAP
  LongGap,          \* the other that is offered
  DefaultAccounts,  \* SearchLimits::default
  DefaultIndexes

VARIABLES
  hunt,        \* the step of the search
  phrase,      \* ContainerSearch.words, with None for a word that is missing
  values,      \* the numbers tried in the places of the missing words
  candidates,  \* ContainerSearch.candidates
  front,       \* "tool" or "page"
  known,       \* the wallet the person knows, "container" or "original", or "checks"
  reference,   \* the reference, of which wallet it is, and what passes by chance
  gap,         \* the scan gap, None until it is known
  stated,      \* the scope said before the work, <<>> where there is none
  promised,    \* the recoveries said before the work
  done,        \* candidates recovered
  shown,       \* lines of progress
  password,    \* the container password that was typed
  found        \* the candidate that matched

vars == <<hunt, phrase, values, candidates, front, known, reference, gap, stated, promised, done,
          shown, password, found>>

None     == -1
Numbers  == 0 .. ListWords - 1
Typed    == 0 .. TypedWords - 1
Places   == 1 .. PhraseWords
ScanGaps == {DecoyGap, LongGap}
MaxMissingForDecoy  == 2
MaxMissingForWallet == 1
NotFound == [container |-> <<>>, words |-> <<>>, path |-> <<>>]

-----------------------------------------------------------------------------
(* The candidates.                                                         *)

(* The missing words in their order.                                       *)
MissingPlaces == {place \in Places : phrase[place] = None}
Missing == CHOOSE places \in [1 .. Cardinality(MissingPlaces) -> MissingPlaces] :
             \A i, j \in DOMAIN places : i < j => places[i] < places[j]
TwoMissing == Len(Missing) > MaxMissingForWallet

(* ContainerSearch::container.                                             *)
Container(numbers) ==
  [place \in Places |-> IF phrase[place] # None THEN phrase[place]
                        ELSE numbers[CHOOSE at \in DOMAIN Missing : Missing[at] = place]]

(* passes_checksum: a sum stands for the hash that the last word carries.  *)
PassesChecksum(words) == (words[1] * words[2] + words[1] + 2 * words[3]) % 3 # 0

IsLast(numbers) == \A at \in DOMAIN numbers : numbers[at] + 1 \notin Numbers

(* The next combination, the last missing word fastest: what stands after  *)
(* the word that goes on begins again.                                     *)
AdvanceSlip(numbers) ==
  LET goesOn == Max({at \in DOMAIN numbers : numbers[at] + 1 \in Numbers})
  IN [numbers EXCEPT ![goesOn] = @ + 1]
Advance(numbers) ==
  LET goesOn == Max({at \in DOMAIN numbers : numbers[at] + 1 \in Numbers})
  IN [at \in DOMAIN numbers |-> CASE at < goesOn -> numbers[at] [] at = goesOn -> numbers[at] + 1
                                  [] OTHER -> 0]

(* ContainerSearch::new, of words that it takes.                           *)
Begins ==
  /\ hunt = "begin" /\ hunt' = "trying"
  /\ phrase' \in {words \in [Places -> Typed \cup {None}] :
                    Cardinality({at \in Places : words[at] = None}) \in 1 .. MaxMissingForDecoy}
  /\ values' = [at \in DOMAIN Missing' |-> 0]
  /\ UNCHANGED <<candidates, front, known, reference, gap, stated, promised, done, shown,
                 password, found>>

Tries ==
  /\ hunt = "trying"
  /\ candidates' = IF PassesChecksum(Container(values)) THEN Append(candidates, values)
                   ELSE candidates
  /\ IF IsLast(values) THEN hunt' = "listed" /\ values' = <<>>
     ELSE values' = Advance(values) /\ UNCHANGED hunt
  /\ UNCHANGED <<phrase, front, known, reference, gap, stated, promised, done, shown, password,
                 found>>

-----------------------------------------------------------------------------
(* What tells the candidates apart.                                        *)

(* SearchLimits: the accounts, and the addresses of each.                  *)
DefaultLimits == [accounts |-> DefaultAccounts, indexes |-> DefaultIndexes]
FirstAccount(n) == [accounts |-> 1, indexes |-> n]
IsPossible(limits) == {limits.accounts, limits.indexes} \subseteq 1 .. MostGap
Within(place, limits) == place.account < limits.accounts /\ place.index < limits.indexes

(* The wallet of a candidate, or <<>> for another's; whether the passphrase*)
(* typed is that wallet's, or "needless" where that wallet has none; of a  *)
(* short check, whether the first candidate passes it by chance; of an     *)
(* address, where it is and the one path given for it.                     *)
AddressPlaces == [account : 0 .. DefaultAccounts - 1, index : 0 .. DefaultIndexes]
Passphrases == {"its", "another", "needless"}
Phrases == {Container(candidates[i]) : i \in DOMAIN candidates} \cup {<<>>}
Addresses(asker) ==
  {address \in [kind : {"address"}, wallet : Phrases, passphrase : Passphrases, chance : {"fails"},
                place : AddressPlaces, path : AddressPlaces \cup {<<>>},
                limits : {DefaultLimits}] :
     IF asker = "tool" THEN address.path = <<>>
     ELSE address.path \in {<<>>, address.place, [account |-> 0, index |-> 0]}}
Fingerprints ==
  [kind : {"fingerprint"}, wallet : Phrases, passphrase : Passphrases, chance : {"passes", "fails"}]

(* The phrase has a built-in check if short, or one only if it was drawn   *)
(* to pass it with its passphrase: "its".                                  *)
OwnChecks == [kind : {"checks"}, wallet : Phrases, passphrase : {"its", "another"},
              chance : {"passes", "fails"}, check : {"built-in", "drawn"}]

(* --scan-gap is one that a search can cover; a page's number may be any.  *)
OptionGaps == 1 .. MostGap

(* What is known, and the reference.                                       *)
Reads ==
  /\ hunt = "listed" /\ front' \in {"tool", "page"}
  /\ known' \in IF TwoMissing THEN {"container"}
                ELSE {"container", "original", "checks"}
  /\ reference' \in IF known' = "checks" THEN OwnChecks
                    ELSE Addresses(front') \cup Fingerprints
  /\ IF known' # "container" THEN gap' = None /\ hunt' = "starts"
     ELSE \/ gap' \in (IF front' = "tool" THEN OptionGaps ELSE 0 .. MostGap + 1) /\ hunt' = "states"
          \/ /\ front' = "tool"
             /\ IF TwoMissing /\ reference'.kind = "address" THEN gap' = None /\ hunt' = "gap"
                ELSE gap' = DecoyGap /\ hunt' = "states"
  /\ UNCHANGED <<phrase, values, candidates, stated, promised, done, shown, password, found>>

(* ask_scan_gap, and read_own_gap, which asks again for another number.    *)
AsksScanGap ==
  /\ hunt = "gap"
  /\ \/ gap' \in ScanGaps /\ hunt' = "states"
     \/ hunt' = "number" /\ UNCHANGED gap
  /\ UNCHANGED <<phrase, values, candidates, front, known, reference, stated, promised, done,
                 shown, password, found>>

ReadsOwnGap ==
  /\ hunt = "number"
  /\ \E number \in 0 .. MostGap + 1 :
       IF number \in 1 .. MostGap THEN gap' = number /\ hunt' = "states"
       ELSE UNCHANGED <<gap, hunt>>
  /\ UNCHANGED <<phrase, values, candidates, front, known, reference, stated, promised, done,
                 shown, password, found>>

-----------------------------------------------------------------------------
(* The container's own wallet.                                             *)

(* decoy_address_limits, a number that no search covers being refused.     *)
DecoyAddressLimits(n) == IF TwoMissing THEN FirstAccount(n) ELSE DefaultLimits

(* show_search, for an address.                                            *)
States ==
  /\ hunt = "states"
  /\ IF ~IsPossible(DecoyAddressLimits(gap)) THEN hunt' = "refused" /\ UNCHANGED stated
     ELSE /\ hunt' = "comparing"
          /\ stated' = IF reference.kind = "address" THEN DecoyAddressLimits(gap) ELSE <<>>
  /\ UNCHANGED <<phrase, values, candidates, front, known, reference, gap, promised, done, shown,
                 password, found>>

(* compare_until: whether a phrase matches; `compared` is the reference as *)
(* it is compared.                                                         *)
IsWallet(words, compared) == compared.passphrase = "its" /\ compared.wallet = words
LooksAt(compared) ==
  IF compared.path # <<>> THEN compared.place = compared.path
  ELSE Within(compared.place, compared.limits)
CompareUntil(words, compared) ==
  CASE compared.kind = "address" -> IsWallet(words, compared) /\ LooksAt(compared)
    [] compared.kind = "fingerprint" ->
         IsWallet(words, compared) \/ (compared.chance = "passes" /\ words = Container(candidates[1]))
    [] OTHER -> FALSE

(* decoy_reference: an address without a path within `limits`.             *)
DecoyReferenceSlip(compared, limits) == compared
DecoyReference(compared, limits) ==
  IF compared.kind = "address" /\ compared.path = <<>>
  THEN [compared EXCEPT !.limits = limits] ELSE compared

(* ContainerSearch::found: the missing words, by their positions from 1.   *)
FoundAtSlip(i) == {<<Missing[at] - 1, candidates[i][at]>> : at \in DOMAIN Missing}
FoundAt(i) == {<<Missing[at], candidates[i][at]>> : at \in DOMAIN Missing}
Found(i) ==
  [container |-> Container(candidates[i]), words |-> FoundAt(i),
   path |-> IF reference.kind = "address" THEN reference.place ELSE <<>>]

SearchDecoy ==
  LET compared == DecoyReference(reference, DecoyAddressLimits(gap))
  IN {i \in DOMAIN candidates : CompareUntil(Container(candidates[i]), compared)}

CompareWithDecoy ==
  /\ hunt = "comparing"
  /\ IF SearchDecoy = {} THEN hunt' = "missed" /\ UNCHANGED found
     ELSE hunt' = "use" /\ found' = Found(Min(SearchDecoy))
  /\ UNCHANGED <<phrase, values, candidates, front, known, reference, gap, stated, promised, done,
                 shown, password>>

-----------------------------------------------------------------------------
(* The original wallet and the phrase's own checks: a recovery each.       *)

(* starts_long_search, told how many; then read_password.  A page asks     *)
(* before it calls.                                                        *)
StartsLong ==
  /\ hunt = "starts" /\ promised' = Len(candidates)
  /\ stated' = IF reference.kind = "address" THEN DefaultLimits ELSE <<>>
  /\ \/ hunt' = "declined" /\ UNCHANGED password
     \/ hunt' = "recovering" /\ password' \in {"right", "wrong"}
  /\ UNCHANGED <<phrase, values, candidates, front, known, reference, gap, done, shown, found>>

(* evidence_of: the built-in check of a short original, or with the        *)
(* passphrase the 16-bit check of a phrase drawn to pass it.               *)
OwnCheckPasses(i) ==
  \/ /\ password = "right" /\ reference.wallet = Container(candidates[i])
     /\ reference.check = "built-in" \/ reference.passphrase = "its"
  \/ reference.chance = "passes" /\ i = 1

(* search_wallet: an address or a fingerprint is compared with the wallet  *)
(* of the passphrase, then with the one without.                           *)
WithoutPassphrase ==
  IF reference.passphrase = "needless" THEN [reference EXCEPT !.passphrase = "its"] ELSE reference
SearchWallet(i) ==
  IF known = "checks" THEN OwnCheckPasses(i)
  ELSE \/ /\ password = "right"
          /\ \E compared \in {reference, WithoutPassphrase} :
               CompareUntil(Container(candidates[i]), compared)
       \/ reference.chance = "passes" /\ i = 1

(* run_long, with a line for each candidate.                               *)
RunLong ==
  /\ hunt = "recovering"
  /\ IF done = Len(candidates) THEN hunt' = "missed" /\ UNCHANGED <<done, shown, found>>
     ELSE /\ done' = done + 1 /\ shown' = IF front = "tool" THEN shown + 1 ELSE shown
          /\ IF SearchWallet(done') THEN hunt' = "use" /\ found' = Found(done')
             ELSE UNCHANGED <<hunt, found>>
  /\ UNCHANGED <<phrase, values, candidates, front, known, reference, gap, stated, promised,
                 password>>

Next ==
  \/ Begins \/ Tries \/ Reads \/ AsksScanGap \/ ReadsOwnGap \/ States \/ CompareWithDecoy
  \/ StartsLong \/ RunLong

Init ==
  /\ hunt = "begin" /\ phrase = <<>> /\ values = <<>> /\ candidates = <<>> /\ front = "tool"
  /\ known = "nothing" /\ reference = [kind |-> "none"] /\ gap = None /\ stated = <<>>
  /\ promised = 0 /\ done = 0 /\ shown = 0 /\ password = "none" /\ found = NotFound

Spec == Init /\ [][Next]_vars

-----------------------------------------------------------------------------
(* Properties.                                                             *)

(* The candidates are every phrase with the words typed that passes the    *)
(* checksum, each once.                                                    *)
ListsEach ==
  hunt \notin {"begin", "trying"} =>
    /\ {Container(candidates[i]) : i \in DOMAIN candidates} =
         {words \in [Places -> Numbers] :
            /\ PassesChecksum(words)
            /\ \A place \in Places : phrase[place] \in {None, words[place]}}
    /\ IsInjective(candidates)

(* The phrase found is that of the wallet that was typed, except where a   *)
(* check of few bits passed by chance; the words typed stand in it, and    *)
(* those it says to write on the copy are the missing ones in their places.*)
FoundIsTheirs ==
  found.container # <<>> =>
    /\ \/ found.container = reference.wallet
       \/ reference.chance = "passes" /\ found.container = Container(candidates[1])
    /\ found.words = {<<place, found.container[place]>> :
                        place \in {at \in Places : phrase[at] = None}}
    /\ \A place \in Places : phrase[place] \in {None, found.container[place]}

(* What is typed for the wallet is enough to tell it.                      *)
IsTyped ==
  CASE known = "container" -> reference.passphrase = "its"
    [] known = "original"  -> reference.passphrase # "another"
    [] OTHER               -> reference.check = "built-in" \/ reference.passphrase = "its"

(* A search that finds nothing leaves no candidate of the wallet: an       *)
(* address of it lies beyond what was said to be searched, which is the    *)
(* gap the person chose where two words are missing, or something typed    *)
(* for it, the passphrase, the password or the path, is not that wallet's. *)
MissedIsElsewhere ==
  hunt = "missed" /\ reference.wallet # <<>> /\ password # "wrong" /\ IsTyped =>
    CASE reference.kind = "address" ->
           IF reference.path # <<>> THEN reference.place # reference.path
           ELSE /\ ~Within(reference.place, stated)
                /\ TwoMissing => ~Within(reference.place, FirstAccount(gap))
      [] OTHER -> FALSE

(* A person waits for no more recoveries than were said, with a line for   *)
(* each, and a search of every candidate needs a single missing word.      *)
WaitsAsTold ==
  /\ done > 0 => Len(Missing) = 1 /\ done <= promised /\ password # "none"
  /\ front = "tool" => shown = done
  /\ hunt = "missed" /\ known # "container" => done = promised

SearchIsSound == ListsEach /\ FoundIsTheirs /\ MissedIsElsewhere /\ WaitsAsTold
=============================================================================
