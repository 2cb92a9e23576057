----------------------------- MODULE WordTools -----------------------------
(***************************************************************************)
(* What is told while a word or a password is typed: the hints and the     *)
(* completion of a word (src/word_hints.rs), and the strength estimate of  *)
(* a password (src/strength.rs, src/eff.rs).  A page asks through          *)
(* wasm_api/word_hints.rs and wasm_api/passwords.rs.                       *)
(*                                                                         *)
(* Characters are numbers: 1 to 3 small letters, 11 to 13 their capitals,  *)
(* 21 and 22 digits, of which 21 stands for the letter 1, and 0 a          *)
(* separator.  Lengths are scaled down: a word looked for in a password    *)
(* has 2 letters for 4, a year two digits for four, the longest word of a  *)
(* list 3 letters for 9, and a password is read up to its fifth character  *)
(* for the hundredth.                                                      *)
(***************************************************************************)
EXTENDS Integers, Sequences, SequencesExt, Functions, FiniteSets

VARIABLES
  asks,    \* "nothing", "hint" or "strength"
  text,    \* the characters typed
  tells    \* what is told

vars == <<asks, text, tells>>

Separator == 0
Letters   == 1 .. 3
Digits    == {21, 22}

LowerOf(c)  == IF c \in 11 .. 13 THEN c - 10 ELSE c
LowerCase(t) == [i \in DOMAIN t |-> LowerOf(t[i])]

(* The EFF list and the BIP39 list, in alphabetical order.                 *)
EffWords   == <<<<1>>, <<1, 2>>, <<1, 2, 3>>, <<2, 1, 1>>, <<2, 2>>, <<3, 1>>, <<3, 1, 2>>>>
Bip39Words == <<<<1, 3, 2>>, <<2, 1, 1>>, <<3, 1>>>>

-----------------------------------------------------------------------------
(* word_hints.rs.                                                          *)

LongestWord     == 3
ListFromLetters == 2

Less(a, b) ==
  \/ IsStrictPrefix(a, b)
  \/ \E i \in DOMAIN a \cap DOMAIN b :
       a[i] < b[i] /\ \A k \in 1 .. i - 1 : a[k] = b[k]

(* TypedWord::last_of: the last word in lower case. A separator that is no *)
(* space is not told from one here.                                        *)
LastOf(line) ==
  LET places == {i \in DOMAIN line : line[i] = Separator}
      start  == IF places = {} THEN 1 ELSE 1 + CHOOSE i \in places : \A k \in places : k <= i
  IN LowerCase(SubSeq(line, start, Len(line)))

IsWord(word)  == word # <<>> /\ \A i \in DOMAIN word : word[i] \in Letters
TooLong(word) == Len(word) > LongestWord

(* starting_with: two binary searches, in a sorted list.                   *)
StartingWith(list, letters) ==
  LET start == Cardinality({i \in DOMAIN list : Less(list[i], letters)})
      rest  == SubSeq(list, start + 1, Len(list))
      count == Cardinality({i \in DOMAIN rest : \A k \in 1 .. i : IsPrefix(letters, rest[k])})
  IN SubSeq(rest, 1, count)

Hint(list, line) ==
  LET word == LastOf(line)
      matches == StartingWith(list, word)
  IN CASE ~IsWord(word) -> "nothing"
       [] IsWord(word) /\ (TooLong(word) \/ matches = <<>>) -> "no word"
       [] matches = <<word>> -> "nothing"
       [] OTHER -> IF Len(word) < ListFromLetters THEN "count" ELSE "words"

(* completion: what the first and the last of the words share.             *)
Shared(words) ==
  LET first == words[1]
      last  == words[Len(words)]
      equal == {n \in 0 .. Len(first) : n <= Len(last) /\ SubSeq(first, 1, n) = SubSeq(last, 1, n)}
  IN SubSeq(first, 1, CHOOSE n \in equal : \A m \in equal : m <= n)

CompletionSlip(list, line) ==
  LET word == LastOf(line)
      matches == StartingWith(list, word)
  IN IF ~IsWord(word) \/ TooLong(word) \/ matches = <<>>
     THEN [letters |-> <<>>, wordEnds |-> FALSE]
     ELSE [letters |-> SubSeq(matches[1], Len(word) + 1, Len(matches[1])),
           wordEnds |-> Len(matches) = 1]
Completion(list, line) ==
  LET word == LastOf(line)
      matches == StartingWith(list, word)
  IN IF ~IsWord(word) \/ TooLong(word) \/ matches = <<>>
     THEN [letters |-> <<>>, wordEnds |-> FALSE]
     ELSE [letters |-> SubSeq(Shared(matches), Len(word) + 1, Len(Shared(matches))),
           wordEnds |-> Len(matches) = 1]

-----------------------------------------------------------------------------
(* strength.rs, in bits rounded to whole ones.                             *)

ShortestWord   == 2
ReadCharacters == 5
YearBits       == 5
PatternBits    == 1
VariationBits  == 1
DiceWordBits   == 8

CharacterBits(c) == IF c \in Digits THEN 3 ELSE 5

(* The common passwords, and the dictionary of both lists.                 *)
WordLists ==
  {[words |-> {<<3, 3>>, <<2, 1, 1>>}, bits |-> 4],
   [words |-> {w \in Range(EffWords) \cup Range(Bip39Words) : Len(w) >= ShortestWord},
    bits |-> 8]}

(* spelled: with capitals and substitutions.                               *)
Spells(letter, c) == LowerOf(c) = letter \/ (c = 21 /\ letter = 1)
Spelled(word, rest) ==
  Len(word) <= Len(rest) /\ \A i \in DOMAIN word : Spells(word[i], rest[i])

(* longest_word: of equally long words the more common one.                *)
FoundIn(rest) ==
  UNION {{[text |-> w, bits |-> list.bits
             + (IF SubSeq(rest, 1, Len(w)) = w THEN 0 ELSE VariationBits)] :
             w \in {v \in list.words : Spelled(v, rest)}} : list \in WordLists}
LongestWords(rest) ==
  {f \in FoundIn(rest) : \A g \in FoundIn(rest) :
     Len(f.text) > Len(g.text) \/ (Len(f.text) = Len(g.text) /\ f.bits <= g.bits)}

IsYear(rest) == Len(rest) >= 2 /\ rest[1] = 21 /\ rest[2] \in Digits

(* continues: letters or digits next to each other.                        *)
Continues(before, now) ==
  /\ {before, now} \subseteq Letters \/ {before, now} \subseteq Digits
  /\ before - now \in -1 .. 1

(* read_parts: at each place the longest word, else a year, else one       *)
(* character. The previous character is kept for runs, the previous word   *)
(* for repeats and separators.                                             *)
Part(read, rest) ==
  IF LongestWords(rest) # {}
  THEN LET found == CHOOSE f \in LongestWords(rest) : TRUE
       IN [at |-> read.at + Len(found.text), previous |-> -1, word |-> found.text,
           bits |-> read.bits + (IF found.text = read.word THEN PatternBits ELSE found.bits)]
  ELSE IF IsYear(rest)
  THEN [at |-> read.at + 2, previous |-> rest[2], word |-> <<>>, bits |-> read.bits + YearBits]
  ELSE LET separates == read.word # <<>> /\ rest[1] = Separator
           now == LowerOf(rest[1])
       IN [at |-> read.at + 1, previous |-> now, word |-> IF separates THEN read.word ELSE <<>>,
           bits |-> read.bits + (IF separates \/ Continues(read.previous, now)
                                 THEN PatternBits ELSE CharacterBits(rest[1]))]

ReadParts(t) ==
  FoldLeftDomain(LAMBDA read, at : IF at = read.at THEN Part(read, SubSeq(t, at, Len(t))) ELSE read,
                 [at |-> 1, previous |-> -1, word |-> <<>>, bits |-> 0], t).bits

(* repeated_unit: with a separator between the repeats or none.            *)
Repeats(t) ==
  {[unit |-> r.period - r.between, more |-> (Len(t) + r.between) \div r.period - 1,
    between |-> r.between] :
     r \in {q \in [between : 0 .. 1, period : 1 .. Len(t)] :
              /\ q.period \in 1 + q.between .. (Len(t) \div 2) + q.between
              /\ (Len(t) + q.between) % q.period = 0
              /\ \A at \in 0 .. Len(t) - 1 : t[at + 1] = t[(at % q.period) + 1]}}

FirstRepeat(t) ==
  CHOOSE r \in Repeats(t) : \A q \in Repeats(t) :
    r.between < q.between \/ (r.between = q.between /\ r.unit <= q.unit)

(* different_dice_words: a text only of EFF words, each counted once.      *)
Tokens(t) ==
  {SubSeq(t, w.from, w.to) :
     w \in {v \in [from : DOMAIN t, to : DOMAIN t] :
              /\ v.from <= v.to /\ \A n \in v.from .. v.to : t[n] # Separator
              /\ v.from > 1 => t[v.from - 1] = Separator
              /\ v.to < Len(t) => t[v.to + 1] = Separator}}
DiceWordsSlip(t) ==
  LET found == {i \in DOMAIN t : i = 1 \/ t[i - 1] = Separator}
  IN IF \A w \in Tokens(t) : LowerCase(w) \in Range(EffWords) THEN Cardinality(found) ELSE 0
DiceWords(t) ==
  LET found == {LowerCase(w) : w \in Tokens(t)}
  IN IF found \subseteq Range(EffWords) THEN Cardinality(found) ELSE 0

Bits(t) ==
  LET read == SubSeq(t, 1, IF Len(t) < ReadCharacters THEN Len(t) ELSE ReadCharacters)
  IN IF DiceWords(t) > 0 THEN DiceWords(t) * DiceWordBits
     ELSE IF Repeats(read) # {}
     THEN LET r == FirstRepeat(read)
          IN ReadParts(SubSeq(read, 1, r.unit)) + r.more * PatternBits
     ELSE ReadParts(read)

-----------------------------------------------------------------------------

Alphabet == {0, 1, 2, 3, 11, 21, 22}
Texts(n) == UNION {[1 .. k -> Alphabet] : k \in 0 .. n}
Nothing  == [hint |-> "nothing", completion |-> [letters |-> <<>>, wordEnds |-> FALSE], bits |-> 0]

Init == asks = "nothing" /\ text = <<>> /\ tells = Nothing

(* A field of words asks with each key.                                    *)
TypesWord ==
  /\ asks = "nothing" /\ asks' \in {"bip39", "eff"} /\ text' \in Texts(4)
  /\ LET list == IF asks' = "eff" THEN EffWords ELSE Bip39Words
     IN tells' = [Nothing EXCEPT !.hint = Hint(list, text'), !.completion = Completion(list, text')]

(* A new password is estimated once it is typed.                           *)
TypesPassword ==
  /\ asks = "nothing" /\ asks' = "strength" /\ text' \in Texts(5)
  /\ tells' = [Nothing EXCEPT !.bits = Bits(text')]

Next == TypesWord \/ TypesPassword

Spec == Init /\ [][Next]_vars

-----------------------------------------------------------------------------
(* Properties, against definitions that read the list and the text whole.  *)

(* A hint says how the words of the list go on: none is said to begin so   *)
(* when one does, and Tab writes what every such word has next and ends    *)
(* the word only if no other begins so.                                    *)
HintsAreTrue ==
  asks \in {"eff", "bip39"} =>
    LET word  == LastOf(text)
        words == {w \in Range(IF asks = "eff" THEN EffWords ELSE Bip39Words) : IsPrefix(word, w)}
        next  == word \o tells.completion.letters
    IN IsWord(word) =>
         /\ tells.hint = "no word" <=> words = {}
         /\ \A w \in words : IsPrefix(next, w)
         /\ tells.completion.wordEnds <=> words = {next}
         /\ (words # {} /\ \A w \in words : Len(w) > Len(next))
              => \E v, w \in words : v[Len(next) + 1] # w[Len(next) + 1]

(* An estimate does not exceed what drawing each character at random gives *)
(* nor, of dice words, what each different one gives; and saying a unit    *)
(* twice hardly makes another password stronger than the unit.             *)
StrengthIsNotOverstated ==
  asks = "strength" =>
    /\ DiceWords(text) = 0 => tells.bits <= CharacterBits(Separator) * Len(text)
    /\ DiceWords(text) > 0 => tells.bits = DiceWordBits * Cardinality(
         {i \in DOMAIN EffWords : EffWords[i] \in {LowerCase(w) : w \in Tokens(text)}})
    /\ DiceWords(text) = 0 => \A between \in 0 .. 1 :
         LET half == (Len(text) - between) \div 2
             unit == SubSeq(text, 1, half)
         IN (/\ half > 0 /\ (between = 1 => text[half + 1] = Separator)
             /\ unit = SubSeq(text, half + between + 1, Len(text)))
              => tells.bits <= Bits(unit) + PatternBits * Len(text)

WordsAreToldRight == HintsAreTrue /\ StrengthIsNotOverstated
=============================================================================
