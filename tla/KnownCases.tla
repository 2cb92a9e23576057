----------------------------- MODULE KnownCases -----------------------------
(***************************************************************************)
(* The cases of every part of a self-check, which the code keeps beside    *)
(* the part (src/*/known_answers.rs, src/random/health.rs, src/memory.rs). *)
(*                                                                         *)
(* A case is the comparisons it makes, in their order, by what each tells  *)
(* when it differs, calls in a row that may stop as one; the values are    *)
(* left out.                                                               *)
(***************************************************************************)
EXTENDS Naturals, Sequences, SequencesExt

-----------------------------------------------------------------------------
(* A case: its list ("" for a check in none), whether only the full        *)
(* self-test runs it, and what it compares.                                *)
Case(noun, compares) == [noun |-> noun, full |-> FALSE, asks |-> compares]
One(compares) == <<Case("", compares)>>
Each(noun, lists) == [i \in DOMAIN lists |-> Case(noun, lists[i])]
Alike(n, compares) == [i \in 1..n |-> compares]
InFull(cases) == [i \in DOMAIN cases |-> [cases[i] EXCEPT !.full = TRUE]]
AtStartup(cases, kept) == [i \in DOMAIN cases |-> [cases[i] EXCEPT !.full = i \notin kept]]

(* What any case may tell: a call stops, a table or a vector is damaged.   *)
Stops   == "stops"
Damaged == "the built-in cases are damaged"
Missing == "a built-in vector is missing"

-----------------------------------------------------------------------------
(* mhfe/known_answers.rs.                                                  *)
CipherDigests ==
  One(<<"SHA-256">>) \o One(<<"SHA-256">>) \o One(<<"HMAC-SHA-256">>) \o One(<<"HMAC-SHA-256">>)
    \o One(<<"BLAKE2b-256">>)

(* A published vector: its name, whether its container keeps the length of *)
(* its original, whether every start replays it, and what its recovery     *)
(* reads, in order.                                                        *)
Vector(name, same, startup, recovery) ==
  [name |-> name, same |-> same, startup |-> startup, recovery |-> recovery]
Verified(words)  == [words |-> words, verified |-> TRUE]
Unproven(words)  == [words |-> words, verified |-> FALSE]

(* published_rounds.rs, in its order.                                      *)
Ambiguous12To21 == Vector("ambiguous-12-21", FALSE, TRUE, <<Verified(12), Verified(21), Unproven(24)>>)
Nonzero12 == Vector("nonzero-12", FALSE, FALSE, <<Verified(12)>>)
Nonzero15 == Vector("nonzero-15", FALSE, TRUE, <<Verified(15)>>)
Nonzero18 == Vector("nonzero-18", FALSE, FALSE, <<Verified(18)>>)
Nonzero21 == Vector("nonzero-21", FALSE, FALSE, <<Verified(21)>>)
Nonzero24 == Vector("nonzero-24", FALSE, FALSE, <<Unproven(24)>>)
SpacesPassword  == Vector("spaces-password", FALSE, FALSE, <<Verified(12)>>)
UnicodePassword == Vector("unicode-password", FALSE, TRUE, <<Verified(12)>>)
Zero12AtLevel1  == Vector("zero-12-memory-level-1", FALSE, FALSE, <<Verified(12)>>)
Zero12AtPim1AndLevel1 == Vector("zero-12-pim-1-memory-level-1", FALSE, TRUE, <<Verified(12)>>)
Zero12AtPim1 == Vector("zero-12-pim-1", FALSE, FALSE, <<Verified(12)>>)
Zero12 == Vector("zero-12", FALSE, TRUE, <<Verified(12)>>)
Zero15 == Vector("zero-15", FALSE, FALSE, <<Verified(15)>>)
Zero18 == Vector("zero-18", FALSE, FALSE, <<Verified(18)>>)
Zero21 == Vector("zero-21", FALSE, FALSE, <<Verified(21)>>)
Zero24AtPim1AndLevel1 == Vector("zero-24-pim-1-memory-level-1", FALSE, FALSE, <<Unproven(24)>>)
Zero24 == Vector("zero-24", FALSE, TRUE, <<Unproven(24)>>)
SameLengthNonzero12 == Vector("same-length-nonzero-12", TRUE, FALSE, <<Unproven(12)>>)
SameLengthNonzero21 == Vector("same-length-nonzero-21", TRUE, TRUE, <<Unproven(21)>>)
SameLengthUnicodePassword == Vector("same-length-unicode-password", TRUE, TRUE, <<Unproven(15)>>)
SameLengthZero12AtLevel1 == Vector("same-length-zero-12-memory-level-1", TRUE, FALSE, <<Unproven(12)>>)
SameLengthZero12AtPim1AndLevel1 ==
  Vector("same-length-zero-12-pim-1-memory-level-1", TRUE, FALSE, <<Unproven(12)>>)
SameLengthZero12AtPim1 == Vector("same-length-zero-12-pim-1", TRUE, FALSE, <<Unproven(12)>>)
SameLengthZero12 == Vector("same-length-zero-12", TRUE, TRUE, <<Unproven(12)>>)
SameLengthZero15 == Vector("same-length-zero-15", TRUE, FALSE, <<Unproven(15)>>)
SameLengthZero18 == Vector("same-length-zero-18", TRUE, TRUE, <<Unproven(18)>>)
SameLengthZero21 == Vector("same-length-zero-21", TRUE, FALSE, <<Unproven(21)>>)
Published ==
  <<Ambiguous12To21, Nonzero12, Nonzero15, Nonzero18, Nonzero21, Nonzero24, SpacesPassword,
    UnicodePassword, Zero12AtLevel1, Zero12AtPim1AndLevel1, Zero12AtPim1, Zero12, Zero15, Zero18,
    Zero21, Zero24AtPim1AndLevel1, Zero24, SameLengthNonzero12, SameLengthNonzero21,
    SameLengthUnicodePassword, SameLengthZero12AtLevel1, SameLengthZero12AtPim1AndLevel1,
    SameLengthZero12AtPim1, SameLengthZero12, SameLengthZero15, SameLengthZero18,
    SameLengthZero21>>

(* replay: sealed, with repair words for one vector, then recovered by     *)
(* detection, with its suite and, in suite 3, at each length it reads.     *)
Replay(vector) ==
  <<Stops, "another container", "another one shown", "another suite">>
    \o (IF vector.name = "zero-12" THEN <<"other repair words">> ELSE <<>>)
    \o <<Stops, "another phrase", Stops, "another phrase with its suite">>
    \o FlattenSeq([i \in 1..(IF vector.same THEN 0 ELSE Len(vector.recovery)) |->
                     <<Stops, "another phrase at a stated length">>])

Replays ==
  AtStartup(Each("vector", [i \in DOMAIN Published |-> Replay(Published[i])]),
            {i \in DOMAIN Published : Published[i].startup})

LengthRules ==
  Each("length rule",
       <<<<Missing, Stops, "several readings", "the stated length first">>,
         <<Missing, Stops, "one reading", "other readings", Damaged, "another order">>>>)

Refusals ==
  Each("refusal", <<<<Missing, Stops, "VERIFIER_MISMATCH">>, <<Missing, Stops, "VERIFICATION_FAILED">>,
                    <<Missing, Stops, "ARGON2_FAILED">>>>)

CipherRounds == Replays \o LengthRules \o Refusals

(* formats.  The cases are in files of the specification, which is not     *)
(* part of this repository: three phrases stand for its phrases, and of    *)
(* the settings the fourth is refused.                                     *)
FormatsOf3 ==
  LET settings == <<Damaged, Stops, "other memory or passes">>
  IN One(<<Damaged, "another suite">>) \o One(<<Damaged>>)
    \o Each("settings case", [Alike(5, settings) EXCEPT ![4] = <<Damaged, "is not refused">>])
    \o One(<<Damaged>>) \o Each("length detection case", Alike(8, <<Damaged, Stops, "differs">>))
    \o One(<<Stops>>) \o One(<<Damaged>>)
    \o Each("phrase case", Alike(3, <<Damaged, "is not refused">>))
FormatsOf4 ==
  One(<<Damaged, "another suite">>) \o One(<<Stops>>) \o One(<<Damaged>>)
    \o Each("suite 4 refusal", Alike(63, <<Damaged, Stops, "is not refused">>))
Formats == FormatsOf3 \o InFull(FormatsOf4)

(* engine/known_answers.rs.                                                *)
Argon2      == One(<<"could not run", "another tag">>)
Argon2Sizes == InFull(One(<<"could not run", "another tag at 64 MiB">>)
                        \o One(<<"could not run", "another tag at 256 MiB">>))

(* container/known_answers.rs.                                             *)
ContainersRead ==
  LET reads(confirmations) ==
        <<Missing, Stops, "other words", "another suite", "other lengths">>
          \o confirmations \o <<"other wallets">>
  IN Each("container", <<reads(Alike(3, "another confirmation")),
                         reads(<<"another confirmation", "LENGTH_CHOICE_NOT_APPLICABLE">>)>>)
OriginalsRead == Each("original", Alike(3, <<Missing, Stops, "other lengths", "other containers">>))
ContainerFacts ==
  ContainersRead \o OriginalsRead \o Each("refused text", Alike(2, <<"INVALID_CONTAINER">>))

(* operation/known_answers.rs.                                             *)
KeepAdvice == Each("case", Alike(6, <<Missing, Stops, "another container", "other checks", "differs">>))

(* password/known_answers.rs: the cases are in the file of suite 3, of     *)
(* each kind one.                                                          *)
PasswordUnicode ==
  One(<<"other tables">>) \o One(<<Stops, "other bytes">>) \o One(<<Damaged>>)
    \o Each("case", <<<<Damaged, "another length">>, <<Damaged, "is not refused">>,
                      <<Damaged, Stops, "other bytes", "another length">>>>)

(* phrase/known_answers.rs.                                                *)
EnglishVectors ==
  AtStartup(Each("test vector", Alike(24, <<Damaged, Stops, "other words", "is refused",
                                            "is refused by bip39", "another entropy">>)),
            {1, 2, 3, 12})
WordListCases ==
  One(<<"another list">>) \o One(<<"SHA-256">>) \o EnglishVectors
    \o One(<<"a wrong checksum">>) \o Each("completion", Alike(5, <<"differs">>))

(* repair/known_answers.rs.                                                *)
CardRows ==
  AtStartup(Each("card", Alike(4, <<Stops>> \o FlattenSeq(Alike(4, <<Stops, "other words">>)))), {1})
Damages ==
  LET refused  == <<Damaged, "REPAIR_NOT_POSSIBLE">>
      repaired == <<Damaged, Stops, "another container phrase", "other words repaired">>
  IN AtStartup(Each("repair", <<repaired, refused, refused>> \o Alike(4, repaired)), 1..3)
ContainerReadings == Each("reading", Alike(5, <<Damaged, "another kind">>))
RepairCases == CardRows \o Damages \o ContainerReadings

(* search/known_answers.rs.                                                *)
SearchCases ==
  Each("candidates", Alike(2, <<Stops, "another number", "other words">>))
    \o Each("decoy search", <<<<Stops, Stops, "another container", Stops,
                                "another wallet's fingerprint", "TOO_MANY_MISSING_WORDS">>>>)

(* check_word/known_answers.rs.                                            *)
CheckWordCases ==
  One(<<"another list">>)
    \o Each("vector", Alike(4, <<Stops, "other words", "not in the list", Damaged,
                                 "another check index", "does not fit">>))
    \o One(<<"not restored">>) \o One(<<"accepted">>)

(* wallet/known_answers.rs.                                                *)
WalletDigests ==
  One(<<"SHA-512">>) \o One(<<"SHA-512">>) \o One(<<"HMAC-SHA-512">>) \o One(<<"HMAC-SHA-512">>)
    \o One(<<"RIPEMD-160">>) \o One(<<"SHA-256">>) \o One(<<"Keccak-256">>)

Seed == <<Damaged, "differs">>
SeedCases ==
  Each("seed", Alike(2, Seed)) \o One(<<Stops, "another fingerprint">>)
    \o InFull(One(<<Damaged>>) \o Each("test vector seed", Alike(24, Seed)))

Bip32Cases ==
  Each("test vector",
       <<<<Damaged, Stops, "another master key", Stops, "another fingerprint", Stops, "another key",
           Stops, "another public key">>,
         <<Damaged, Stops, "another master key", Stops, "another key">>>>)
    \o One(<<"INVALID_FINGERPRINT">>)

At(n, startup) ==
  AtStartup(Each("address", Alike(n, <<Stops, Damaged, Stops, "differs">>)), startup)
BitcoinAddresses == At(16, {1, 2, 3, 6, 13, 14})
OtherAddresses   == At(27, {1, 3, 5, 7, 9, 11, 15, 16, 20, 22, 23, 25})
DamagedAddresses == Each("damaged address", Alike(9, <<"INVALID_ADDRESS">>))
(* The master key of each passphrase in use, before any address.           *)
AddressCases ==
  One(<<Stops, "another fingerprint">>) \o One(<<Stops>>) \o InFull(One(<<Stops>>))
    \o BitcoinAddresses \o OtherAddresses \o DamagedAddresses
    \o InFull(Each("search", Alike(2, <<Damaged, Stops, "found elsewhere">>)))

StatedSearches == Each("search", Alike(7, <<Stops, "is stated otherwise">>))
AddressSearchCases ==
  StatedSearches \o Each("wrong search", <<<<"INVALID_DERIVATION_PATH">>, <<"INVALID_ADDRESS">>,
                                           <<"INVALID_COIN">>>>)

(* wallet_check/known_answers.rs.                                          *)
WalletCheckCases ==
  LET fails  == <<Stops, "another digest", "another verdict">>
      passes == fails \o <<"other words">>
  IN AtStartup(Each("vector", <<passes, fails, passes, fails>>), 1..2)
       \o One(<<Damaged, Stops, "another phrase">>) \o One(<<"a source of zeros">>)
       \o One(<<Stops, "a check without a passphrase">>)

(* hidden/known_answers.rs.                                                *)
HiddenCases ==
  One(<<Missing, Stops, "another wallet", "a password used twice">>)
    \o One(<<Missing, "a reading that passes a check">>)

(* rekey/known_answers.rs.                                                 *)
Sealed == <<Stops, "another container">>
ConfirmedAgain ==
  <<Missing, Stops, "confirmed", "15 stated words", Stops, "lengths left", Stops, Missing>>
    \o Sealed
RekeyRefusals ==
  Each("refusal", <<<<Missing, Stops, "REFERENCE_MISMATCH">>, <<Missing, Stops, "REFERENCE_REQUIRED">>,
                    <<Missing, Stops, "LENGTH_DIFFERS">>>>)
Rekeyed == <<Missing, Stops>> \o Sealed
RekeyCases ==
  Each("rekey", Alike(2, Rekeyed))
    \o One(<<Missing, Stops, "the same password and settings">>)
    \o One(ConfirmedAgain) \o RekeyRefusals

(* rehearsal/known_answers.rs.                                             *)
RehearsalCases ==
  One(<<Missing, Stops, "not matching">>)
    \o One(<<Stops, Damaged, Missing, Stops, "an address not matching">>)
    \o One(<<Stops, Missing, Stops, "the built-in check not matching">>)
    \o One(<<Missing, Stops, "matching">>)

(* new_password/known_answers.rs.                                          *)
GeneratorCases ==
  One(<<"a draw is biased">>) \o One(<<"a draw is biased">>)
    \o Each("draw", Alike(4, <<Stops, "another password">>)) \o One(<<"a stuck source">>)
    \o InFull(One(<<"misjudges a password">>))

(* word_hints/known_answers.rs.                                            *)
HintCases == Each("case", Alike(8, <<"another hint">>)) \o One(<<"another completion">>)

(* word_wishes/known_answers.rs: the wished draws, then the bits of each   *)
(* word at each of the 24 positions, the filters on one phrase and at      *)
(* each position, and what is refused.                                     *)
WishDraws   == Each("case", Alike(6, <<Stops, "no phrase", "another phrase", "another draw">>))
WishBits    == One(<<"another geometry">> \o FlattenSeq(Alike(24, <<"other bits set", "other bits read">>)))
WishFilters == One(<<"an excluded entropy word", "an excluded checksum word", "an absent word",
                     "a repeated word", "a word at the last position", "a wrong final word",
                     "the correct final word", "a wrong interior word">>)
WishPlaces  == One(<<Stops, "a word that is not there">> \o Alike(23, "a word at this position"))
WishCases ==
  WishDraws \o WishBits \o WishFilters \o WishPlaces \o One(<<Stops, "a zero source">>)
    \o One(<<"a second chosen word">>) \o One(<<"a second word never to use">>)

(* random/health.rs: scripted sources, then a live one in the full         *)
(* self-test, if there is one.                                             *)
ScriptedSources == One(<<"fills nothing">>) \o One(<<"is stuck">>) \o One(<<"refuses a working one">>)
                     \o One(<<"accepts a narrow one">>)
SourceCases == ScriptedSources \o InFull(One(<<"cannot be random">>) \o One(<<"is not spread">>))

(* memory.rs.                                                              *)
LockCases == One(<<"not locked">>)

CasesOf(id) ==
  CASE id = "cipher-hashes"       -> CipherDigests
    [] id = "argon2"              -> Argon2
    [] id = "cipher-rounds"       -> CipherRounds
    [] id = "formats"             -> Formats
    [] id = "container-facts"     -> ContainerFacts
    [] id = "keep-advice"         -> KeepAdvice
    [] id = "password-unicode"    -> PasswordUnicode
    [] id = "bip39-words"         -> WordListCases
    [] id = "repair-words"        -> RepairCases
    [] id = "container-search"    -> SearchCases
    [] id = "password-check-word" -> CheckWordCases
    [] id = "wallet-hashes"       -> WalletDigests
    [] id = "bip39-seed"          -> SeedCases
    [] id = "bip32"               -> Bip32Cases
    [] id = "addresses"           -> AddressCases
    [] id = "wallet-check"        -> WalletCheckCases
    [] id = "hidden-wallets"      -> HiddenCases
    [] id = "rekey"               -> RekeyCases
    [] id = "rehearsal"           -> RehearsalCases
    [] id = "argon2-sizes"        -> Argon2Sizes
    [] id = "password-generator"  -> GeneratorCases
    [] id = "word-hints"          -> HintCases
    [] id = "random-source"       -> SourceCases
    [] id = "address-search"      -> AddressSearchCases
    [] id = "word-wishes"         -> WishCases
    [] id = "memory-locking"      -> LockCases

(* Every part of the library, as a test of sets.rs lists them.             *)
NativeIds ==
  <<"cipher-hashes", "argon2", "cipher-rounds", "formats", "container-facts", "keep-advice",
    "password-unicode", "bip39-words", "repair-words", "container-search", "password-check-word",
    "wallet-hashes", "bip39-seed", "bip32", "addresses", "wallet-check", "hidden-wallets", "rekey",
    "rehearsal", "argon2-sizes", "password-generator", "word-hints", "random-source",
    "address-search", "word-wishes", "memory-locking">>
Cases == [id \in ToSet(NativeIds) |-> CasesOf(id)]
=============================================================================
