------------------------------- MODULE Parts --------------------------------
(***************************************************************************)
(* The parts that keep nothing in common: a rekey, the calls of the        *)
(* library on passwords, words, phrases and addresses, the lists, the      *)
(* lines and the keys of a dialog, and a self-check.  A behaviour is one   *)
(* of them; the other parts do not begin.                                  *)
(***************************************************************************)
EXTENDS Rekey

CONSTANTS Accounts, Indexes,                            \* of AddressSearch
          Columns, Starts, Capacity, MaxHint, OfWords,  \* of TypedLine
          Hurried,                                      \* of TerminalInput
          ByteValues, LastValues, Checksums,            \* of NewPhrase
          PhraseWords, ListWords, TypedWords, MostGap, DecoyGap, LongGap,
          DefaultAccounts, DefaultIndexes,              \* of MissingWords
          Faces, WordBits, GlyphBits, Glyphs, MostWords, MostGlyphs, FewWords, FewGlyphs,
          CheckedWords, MostRefused                        \* of PasswordMaking

ASSUME LineAssumption ==
  /\ Columns \in Nat /\ Columns >= 3 /\ Starts \subseteq Nat
  /\ Capacity \in Nat \ {0} /\ MaxHint \in Nat /\ {OfWords, Hurried} \subseteq BOOLEAN

ASSUME SearchAssumption == {Accounts, Indexes} \subseteq Nat \ {0}

ASSUME DrawAssumption == {ByteValues, LastValues, Checksums} \subseteq Nat \ {0}

ASSUME HuntAssumption ==
  /\ PhraseWords \in Nat /\ ListWords \in Nat \ {0} /\ TypedWords \in 1 .. ListWords
  /\ MostGap \in Nat /\ {DecoyGap, LongGap, DefaultAccounts, DefaultIndexes} \subseteq 1 .. MostGap

(* A word and a character are drawn from as many as their bits can tell,   *)
(* and words with a check word are not weak.                               *)
ASSUME MakingAssumption ==
  /\ {Faces, WordBits, GlyphBits, MostWords, MostGlyphs, FewWords, FewGlyphs, CheckedWords}
       \subseteq Nat \ {0}
  /\ MostRefused \in Nat /\ Glyphs \in Nat /\ FewWords <= CheckedWords
  /\ 2 ^ WordBits <= Faces * Faces /\ 2 ^ GlyphBits <= Glyphs

VARIABLE running   \* the part

VARIABLES seek, target, named, path, addresses, searched, todo, derived, promised, found
searchVars == <<seek, target, named, path, addresses, searched, todo, derived, promised, found>>
Search == INSTANCE AddressSearch

VARIABLES draw, asker, passphrase, checked, wish, source, draws, heard, phrase
drawVars == <<draw, asker, passphrase, checked, wish, source, draws, heard, phrase>>
Draw == INSTANCE NewPhrase

VARIABLES entry, reads, typist, paper, entered, repeated, used, outcome
entryVars == <<entry, reads, typist, paper, entered, repeated, used, outcome>>
Entry == INSTANCE PasswordEntry

VARIABLES asks, text, tells
wordVars == <<asks, text, tells>>
Words == INSTANCE WordTools

VARIABLES make, maker, recipe, dice, rolled, drawn, randoms, place, strength, strays, screens
makeVars == <<make, maker, recipe, dice, rolled, drawn, randoms, place, strength, strays, screens>>
Making == INSTANCE PasswordMaking

VARIABLES list, form, alternate, columns, ahead, fresh, marked, lines, rows, off, pressed, taken,
          top, fills
listVars == <<list, form, alternate, columns, ahead, fresh, marked, lines, rows, off, pressed,
              taken, top, fills>>
Listing == INSTANCE Lists

VARIABLES entries, arriving, reading, unread, screen
lineVars == <<entries, arriving, reading, unread, screen>>
Line == INSTANCE TypedLine

VARIABLES operation, request, truth, fault, done, given, posted, told
pageVars == <<operation, request, truth, fault, done, given, posted, told>>
Page == INSTANCE PageOperations

VARIABLES feed, system, prompt, awaits, queue, pending, held, key, answer, presses, script
inputVars == <<feed, system, prompt, awaits, queue, pending, held, key, answer, presses, script>>
Input == INSTANCE TerminalInput WITH reads <- awaits

VARIABLES front, tier, broken, argon2, live, skipped, results, checking
answerVars == <<front, tier, broken, argon2, live, skipped, results, checking>>
Known == INSTANCE KnownAnswers

VARIABLES called, arguments, refers, build, at, copies, there, verdict
requestVars == <<called, arguments, refers, build, at, copies, there, verdict>>
Requests == INSTANCE PageRequests WITH given <- arguments

VARIABLES enters, way, field, coin, scripted, flow, said, typed, counted, erasable, main,
          summary, tries, readAs
referenceVars == <<enters, way, field, coin, scripted, flow, said, typed, counted, erasable,
                   main, summary, tries, readAs>>
Reference == INSTANCE ReferenceEntry WITH entry <- enters, script <- scripted,
                passphrase <- typed, lines <- counted, target <- readAs

VARIABLES hunt, written, numbers, possible, hunter, knows, seeks, gap, scope, foretold, recoveries,
          progress, opens, hit
huntVars == <<hunt, written, numbers, possible, hunter, knows, seeks, gap, scope, foretold,
              recoveries, progress, opens, hit>>
Hunt == INSTANCE MissingWords WITH phrase <- written, values <- numbers, candidates <- possible,
          front <- hunter, known <- knows, reference <- seeks, stated <- scope,
          promised <- foretold, done <- recoveries, shown <- progress, password <- opens,
          found <- hit

All == {"rekey", "search", "draw", "entry", "words", "making", "list", "line", "page",
        "input", "answers", "requests", "reference", "hunt"}

(* A part that is not the one keeps a single initial state.                *)
PartsInit ==
  /\ running \in All
  /\ Init /\ Search!Init /\ Draw!Init /\ Entry!Init /\ Words!Init /\ Making!Init /\ Listing!Init
  /\ Line!Init /\ Page!Init /\ Input!Init /\ Known!Init /\ Requests!Init
  /\ Reference!Init /\ Hunt!Init
  /\ running # "rekey" => container = Full /\ passing = {} /\ wallet = Full /\ stated = Detect
  /\ running # "entry" => reads = "old" /\ typist = "page"
  /\ running # "line" =>
       screen = Line!Screen(CHOOSE start \in Starts : TRUE, TRUE, TRUE)

RekeyRuns  == running = "rekey" /\ Next
SearchRuns == running = "search" /\ Search!Next
DrawRuns   == running = "draw" /\ Draw!Next
EntryRuns  == running = "entry" /\ Entry!Next
WordsRun   == running = "words" /\ Words!Next
MakingRuns == running = "making" /\ Making!Next
ListRuns   == running = "list" /\ Listing!Next
LineRuns   == running = "line" /\ Line!Next
PageRuns   == running = "page" /\ Page!Next
InputRuns  == running = "input" /\ Input!Next
AnswersRun == running = "answers" /\ Known!Next
RequestRun == running = "requests" /\ Requests!Next
ReferenceRuns == running = "reference" /\ Reference!Next
HuntRuns   == running = "hunt" /\ Hunt!Next

(* What a step of one part leaves alone.                                   *)
OthersStay ==
  /\ running # "rekey" => UNCHANGED vars
  /\ running # "search" => UNCHANGED searchVars
  /\ running # "draw" => UNCHANGED drawVars
  /\ running # "entry" => UNCHANGED entryVars
  /\ running # "words" => UNCHANGED wordVars
  /\ running # "making" => UNCHANGED makeVars
  /\ running # "list" => UNCHANGED listVars
  /\ running # "line" => UNCHANGED lineVars
  /\ running # "page" => UNCHANGED pageVars
  /\ running # "input" => UNCHANGED inputVars
  /\ running # "answers" => UNCHANGED answerVars
  /\ running # "requests" => UNCHANGED requestVars
  /\ running # "reference" => UNCHANGED referenceVars
  /\ running # "hunt" => UNCHANGED huntVars

PartsNext ==
  /\ \/ RekeyRuns \/ SearchRuns \/ DrawRuns \/ EntryRuns \/ WordsRun \/ MakingRuns \/ ListRuns
     \/ LineRuns \/ PageRuns \/ InputRuns \/ AnswersRun \/ RequestRun
     \/ ReferenceRuns \/ HuntRuns
  /\ OthersStay /\ UNCHANGED running

partsVars == <<running, vars, searchVars, drawVars, entryVars, wordVars, makeVars, listVars,
               lineVars, pageVars, inputVars, answerVars, requestVars, referenceVars, huntVars>>

PartsSpec == PartsInit /\ [][PartsNext]_partsVars

-----------------------------------------------------------------------------
(* Properties, each stated in the module of its part; those of a rekey are *)
(* Rekey's own.                                                            *)

(* wallet.rs: an address is found where it is and nowhere else, and the    *)
(* search covers what it said.                                             *)
AddressIsFound == running = "search" => Search!AddressIsFound

(* search.rs, rehearsal.rs, container_search.rs: the words found for those *)
(* missing are the wallet's, and all that was said is searched.            *)
WordsAreFound == running = "hunt" => Hunt!SearchIsSound

(* known_answers.rs, wasm_api/core.rs: a self-check that passes vouches    *)
(* for what is computed, and a page's request is what it asked for and     *)
(* leaves no copy of a secret. check_word.rs, word_hints.rs, strength.rs:  *)
(* one slip in a password read back is repaired and what is used is the    *)
(* owner's, and what is told of words and passwords holds.                 *)
AnswersAreTrue == /\ running = "answers" => Known!PassTellsTheTruth
                  /\ running = "requests" => Requests!RequestsAreSound
                  /\ running = "entry" => Entry!OwnersPassword
                  /\ running = "words" => Words!WordsAreToldRight

(* web/core-worker.js, mhfe.rs: no answer of a long operation, and no      *)
(* question in it, is the chance of a wrong build, and what is told of the *)
(* lengths, the check and the search is true of the phrase.                *)
ToldOnlyIfEarned == running = "page" => Page!ToldIsEarned

(* random.rs, word_wishes.rs, wallet_check.rs: a phrase is given only as   *)
(* asked for, and each phrase and each number is as likely as any other.   *)
DrawIsSound == running = "draw" => Draw!GivenAsAsked /\ Draw!EvenDraws

(* new_password.rs, diceware.rs: a password is made as it was told.        *)
MadeAsTold == running = "making" => Making!MadeAsTold

(* choice.rs, scroll.rs, typed_line.rs: what is drawn and erased is the    *)
(* block or the line. hidden_input.rs, raw_io.rs, terminal.rs, check.rs:   *)
(* what is read is what the person, or the script, gave for it, and what   *)
(* is left on the screen is an answer.                                     *)
TerminalIsTrue == /\ running = "list" => Listing!ListsAreSound
                  /\ running = "line" => Line!ScreenShowsLine
                  /\ running = "input" => Input!InputIsTheirs
                  /\ running = "reference" => Reference!ReferenceIsTheirs
=============================================================================
