---------------------------- MODULE PageRequests -----------------------------
(***************************************************************************)
(* What a page asks of the classes of the browser package, from the call   *)
(* to the answer: web/client.js, wallet.js, passwords.js, repair.js and    *)
(* the helpers of runtime.js check the arguments in turn, wait for the     *)
(* startup check, copy the secrets one after another into bytes and send   *)
(* them to a worker, whose WebAssembly (src/wasm_api) checks them again in *)
(* its own order.  The checks are repeated on both sides, each in its own  *)
(* language, and a copy made before a later argument is refused is wiped   *)
(* by hand.                                                                *)
(*                                                                         *)
(* A call is a method and what is given for each argument: "right", or one *)
(* of the ways to be wrong that the code tells apart; at most two          *)
(* arguments of a call are wrong.  An address, a phrase or a password is   *)
(* not spelled out.  What the operation then computes, its callbacks and   *)
(* its worker are modelled elsewhere (Rekey, Job, LongOperations).         *)
(***************************************************************************)
EXTENDS Naturals, Sequences, FiniteSets, SequencesExt

VARIABLES
  called,    \* the method, "none" before the call
  given,     \* for each argument of the method, how it is
  refers,    \* the keys of the reference or confirmation given, each with how its value is
  build,     \* "same" or "other": whether the WebAssembly has the limits of this page
  at,        \* "idle", "waiting", "sent" or "ended"
  copies,    \* the fields of the request whose bytes are in the page
  there,     \* those whose bytes are in the worker
  verdict    \* the error, "CANCELLED", "accepted", or "none"

requestVars == <<called, given, refers, build, at, copies, there, verdict>>

-----------------------------------------------------------------------------
(* The methods: the arguments in the order the page checks them, those it  *)
(* copies, and the order in which the core reads them.                     *)

(* MhfeClient#begin, after a method's own checks; then a new password.     *)
Begun == <<"idle", "pim", "memoryLevel">>
Began == Begun \o <<"onProgress">>
Typed == <<"password", "passwordRepeat">>

(* An answer to the worker, and a password of a session: no startup check. *)
Answering == {"noLength", "confirmAgain", "open"}

(* The methods of MhfeClient, whose limits the page holds a copy of.       *)
OfCore == {"readPhrase", "readContainer", "searchCandidates", "encrypt", "decrypt", "check",
           "searchDecoy", "searchWallet", "rekey", "openHiddenWallets", "selfTest"}
OfWallet == {"walletCheck", "fingerprint", "describeAddress", "describeDraw", "drawPhrase"}
OfPasswords == {"review", "strength", "make"}
OfRepair == {"repairWords", "repairContainer", "inspectContainer"}
Methods == OfCore \cup Answering \cup OfWallet \cup OfPasswords \cup OfRepair \cup {"wordHints"}

EncryptChecks == <<"phrase", "sameLength", "hasPassphrase", "repairWordCount", "onUnverified",
                   "passwordRepair">> \o Began \o Typed
DecryptChecks == <<"container", "words", "passwordRepair">> \o Began
CheckChecks == <<"container", "reference", "passwordRepair", "onNoLength">> \o Began
DecoyChecks == <<"container", "scanGap", "reference", "idle", "onProgress">>
SearchChecks == <<"container", "reference", "passwordRepair">> \o Began
RekeyChecks == <<"container", "hasPassphrase", "words", "newPim", "newMemoryLevel",
                 "repairWordCount", "onUnverified", "onConfirmAgain", "reference", "fits",
                 "passwordRepair", "newPasswordRepair">> \o Began
               \o <<"newPassword", "newPasswordRepeat">>
AgainChecks == <<"reference", "fits", "stated">>

WishChecks == <<"chosenWords", "neverUse">>
DrawChecks == <<"onProgress">> \o WishChecks \o <<"idle", "passphrase", "passphraseRepeat",
                                                   "checked">>

WalletChecks(m) ==
  CASE m \in {"walletCheck", "fingerprint"} -> <<"phrase", "passphrase">>
    [] m = "describeAddress" -> <<"address", "coin", "path", "scanGap">>
    [] m = "describeDraw" -> WishChecks \o <<"checked">>
    [] m = "drawPhrase" -> DrawChecks

PasswordsChecks(m) ==
  CASE m = "review" -> Typed
    [] m = "strength" -> <<"passwordRepair">>
    [] m = "make" -> <<"kind", "count">>

RepairChecks(m) ==
  CASE m = "repairWords" -> <<"container", "count">>
    [] m = "repairContainer" -> <<"container", "card">>
    [] m = "inspectContainer" -> <<"container">>

Checked(m) ==
  CASE m \in OfWallet -> WalletChecks(m)
    [] m \in OfPasswords -> PasswordsChecks(m)
    [] m \in OfRepair -> RepairChecks(m)
    [] m = "readPhrase" -> <<"phrase">>
    [] m \in {"readContainer", "searchCandidates"} -> <<"container">>
    [] m = "encrypt" -> EncryptChecks
    [] m = "decrypt" -> DecryptChecks
    [] m = "check" -> CheckChecks
    [] m = "searchDecoy" -> DecoyChecks
    [] m = "searchWallet" -> SearchChecks
    [] m = "rekey" -> RekeyChecks
    [] m = "openHiddenWallets" -> <<"container", "mainPassphrase">> \o Begun
    [] m = "open" -> <<"onProgress">> \o Typed \o <<"passwordRepair">>
    [] m = "selfTest" -> <<"idle", "onProgress">>
    [] m = "noLength" -> <<"reference">>
    [] m = "confirmAgain" -> AgainChecks
    [] m = "wordHints" -> << >>

(* "alike" is the comparison of a passphrase with its repetition, made     *)
(* between two copies.                                                     *)
PhraseCopies == <<"phrase", "passphrase">>
DrawCopies == <<"passphrase", "passphraseRepeat", "alike", "chosenWords">>

WalletCopies(m) ==
  CASE m \in {"walletCheck", "fingerprint"} -> PhraseCopies
    [] m = "describeAddress" -> << >>
    [] m = "describeDraw" -> <<"chosenWords">>
    [] m = "drawPhrase" -> DrawCopies

Copied(m) ==
  CASE m \in OfWallet -> WalletCopies(m)
    [] m = "readPhrase" -> <<"phrase">>
    [] m = "encrypt" -> <<"phrase">> \o Typed
    [] m \in {"decrypt", "check", "searchWallet"} -> <<"password", "passphrase">>
    [] m \in {"searchDecoy", "noLength", "confirmAgain"} -> <<"passphrase">>
    [] m = "rekey" -> <<"password", "passphrase", "newPassword", "newPasswordRepeat">>
    [] m = "openHiddenWallets" -> <<"mainPassphrase">>
    [] m \in {"open", "review"} -> Typed
    [] m = "strength" -> <<"password">>
    [] m = "make" -> <<"rolls">>
    [] m = "wordHints" -> <<"typed">>
    [] OTHER -> << >>

(* The bindings take the secrets under a wiping owner and read the others  *)
(* as they come to them; "possible" is what a container cannot be checked  *)
(* with, "fits" a passphrase beside a confirmation that takes none.        *)
EncryptReads == Typed \o <<"passwordRepair", "hasPassphrase", "phrase", "repairWordCount", "pim",
                           "memoryLevel">>
RekeyReads == <<"password", "passwordRepair", "pim", "memoryLevel", "words", "container",
                "newPassword", "newPasswordRepeat", "newPasswordRepair", "newPim",
                "newMemoryLevel", "repairWordCount", "passphrase", "fits", "reference",
                "hasPassphrase">>

WishReads == <<"chosenWords", "neverUse">>
DrawReads == <<"passphrase", "alike">> \o WishReads \o <<"checked">>

WalletReads(m) ==
  CASE m \in {"walletCheck", "fingerprint"} -> <<"passphrase", "phrase">>
    [] m = "describeAddress" -> <<"scanGap", "coin", "address", "path">>
    [] m = "describeDraw" -> WishReads
    [] m = "drawPhrase" -> DrawReads

PasswordsReads(m) ==
  CASE m = "review" -> Typed
    [] m = "strength" -> <<"password", "passwordRepair">>
    [] m = "make" -> <<"count", "kind", "rolls">>

RepairReads(m) ==
  CASE m = "repairWords" -> <<"count", "container">>
    [] m = "repairContainer" -> <<"container", "card">>
    [] m = "inspectContainer" -> << >>

ReadByCore(m) ==
  CASE m \in OfWallet -> WalletReads(m)
    [] m \in OfPasswords -> PasswordsReads(m)
    [] m \in OfRepair -> RepairReads(m)
    [] m = "readPhrase" -> <<"phrase">>
    [] m \in {"readContainer", "searchCandidates"} -> <<"container">>
    [] m = "encrypt" -> EncryptReads
    [] m = "decrypt" -> <<"password", "passwordRepair", "words", "passphrase", "pim", "memoryLevel",
                          "container">>
    [] m = "check" -> <<"password", "passwordRepair", "passphrase", "reference", "pim",
                        "memoryLevel", "possible", "container">>
    [] m = "searchDecoy" -> <<"passphrase", "scanGap", "reference", "container">>
    [] m = "searchWallet" -> <<"password", "passwordRepair", "passphrase", "reference",
                               "container", "pim", "memoryLevel", "possible">>
    [] m = "rekey" -> RekeyReads
    [] m = "openHiddenWallets" -> <<"mainPassphrase", "container", "pim", "memoryLevel">>
    [] m = "open" -> Typed \o <<"passwordRepair">>
    [] m = "noLength" -> <<"passphrase", "reference", "possible">>
    [] m = "confirmAgain" -> <<"stated", "passphrase", "fits", "reference">>
    [] m \in {"selfTest", "wordHints"} -> << >>

Arguments(m) ==
  (ToSet(Checked(m)) \cup ToSet(Copied(m)) \cup ToSet(ReadByCore(m)))
    \ {"fits", "alike", "possible"}

-----------------------------------------------------------------------------
(* What may be given for an argument.  A setting is a whole number of its  *)
(* range ("right"), or a fraction, below or above the range, or "wide":    *)
(* a multiple of 2^32, which a 32-bit parameter would take as 0.  A secret *)
(* is text or bytes, "bytes" those that are not UTF-8.  A repetition is    *)
(* "right" where it is what was typed first, and "none" where left out.    *)

Passphrases == {"passphrase", "mainPassphrase"}
Passwords == {"password", "newPassword"}
Secrets == {"typed", "rolls"} \cup Passwords \cup Passphrases
Repeats == {"passwordRepeat", "newPasswordRepeat", "passphraseRepeat"}
Settings == {"pim", "memoryLevel", "newPim", "newMemoryLevel", "words", "repairWordCount",
             "scanGap", "count"}

Wrong(a) ==
  CASE a = "phrase" -> {"type", "bytes", "surrogate", "invalid"}
    [] a \in Secrets -> {"type", "none", "surrogate", "bytes"}
    [] a \in Repeats -> {"type", "none", "surrogate", "differs"}
    [] a = "chosenWords" -> {"type", "surrogate", "invalid"}
    [] a \in {"memoryLevel", "newMemoryLevel"} -> {"fraction", "below", "above", "wide", "high"}
    [] a \in Settings -> {"fraction", "below", "above", "wide"}
    [] a \in {"container", "address", "coin", "path", "card", "kind", "neverUse",
              "passwordRepair", "newPasswordRepair"} -> {"type", "invalid"}
    [] a \in {"hasPassphrase", "checked"} -> {"type", "none", "null", "false"}
    [] a = "idle" -> {"busy"}
    [] a = "stated" -> {"invalid"}
    [] a = "onNoLength" -> {"type", "given"}
    [] OTHER -> {"type"}

(* The keys of a reference: "right" a value of the kind, "wrong" one of    *)
(* another type; of words also 0 ("detect") and 24 ("long").               *)
Keys == {"address", "fingerprint", "words", "walletCheck", "builtInCheck", "owner", "coin", "path",
         "passphrase"}
Kinds == {"address", "fingerprint", "words", "walletCheck"}
Named(r) == {key \in Keys : r[key] # "none"}
Plain == [key \in Keys |-> IF key = "address" THEN "right" ELSE "none"]

References ==
  {[key \in Keys |-> IF key = k THEN v ELSE IF key = l THEN w ELSE "none"] :
     k \in Keys, v \in {"right", "wrong"}, l \in Keys, w \in {"right", "wrong"}}
  \cup {[key \in Keys |-> CASE key = "words" -> v [] key = l -> "right" [] OTHER -> "none"] :
          v \in {"detect", "long"}, l \in Keys}

-----------------------------------------------------------------------------
(* The page.                                                               *)

(* The bytes of the passphrase: left out it is an empty one.               *)
HasPassphrase(args) == args["passphrase"] # "none"

DescribeReferenceSlip(r) == IF Named(r) \cap Kinds = {} THEN "TypeError" ELSE "fine"
DescribeReference(r) ==
  LET kinds == Named(r) \cap Kinds
      kind == CHOOSE k \in kinds : TRUE
  IN CASE Cardinality(kinds) # 1 -> "TypeError"
       [] kind # "address" /\ {"coin", "path"} \cap Named(r) # {} -> "TypeError"
       [] "passphrase" \in Named(r) -> "TypeError"
       [] kind = "words" ->
            IF r["words"] \in {"wrong", "long"} THEN "INVALID_WORD_COUNT" ELSE "fine"
       [] \E key \in {kind, "coin", "path"} : r[key] = "wrong" -> "TypeError"
       [] OTHER -> "fine"

DescribeSearchReference(r, ofWallet) ==
  CASE ofWallet /\ r["builtInCheck"] # "none" ->
         IF r["builtInCheck"] = "right" /\ Named(r) = {"builtInCheck"} THEN "fine" ELSE "TypeError"
    [] r["words"] # "none" \/ (~ofWallet /\ r["walletCheck"] # "none") -> "TypeError"
    [] OTHER -> DescribeReference(r)

DescribeConfirmation(r) ==
  CASE {"builtInCheck", "owner"} \cap Named(r) # {} ->
         IF Cardinality(Named(r)) = 1 /\ \A key \in Named(r) : r[key] = "right"
           THEN "fine" ELSE "TypeError"
    [] {"words", "walletCheck"} \cap Named(r) # {} -> "TypeError"
    [] OTHER -> DescribeReference(r)

(* An answer holds its passphrase beside the reference's keys, and an      *)
(* owner's answer the length stated ("stated").                            *)
Beside(r) == [r EXCEPT !["passphrase"] = "none"]

DescribeFor(m, r) ==
  CASE m = "check" -> DescribeReference(r)
    [] m = "noLength" ->
         IF r["words"] = "detect" THEN "TypeError" ELSE DescribeReference(Beside(r))
    [] m \in {"searchDecoy", "searchWallet"} -> DescribeSearchReference(r, m = "searchWallet")
    [] m = "rekey" -> DescribeConfirmation(r)
    [] m = "confirmAgain" -> DescribeConfirmation([Beside(r) EXCEPT !["words"] = "none"])

WithoutReference(r) == {"builtInCheck", "owner"} \cap Named(r) # {}

SettingCode(a) ==
  CASE a \in {"pim", "newPim"} -> "INVALID_PIM"
    [] a \in {"memoryLevel", "newMemoryLevel"} -> "INVALID_MEMORY_LEVEL"
    [] a = "words" -> "INVALID_WORD_COUNT"
    [] a = "repairWordCount" -> "INVALID_REPAIR_WORDS"
    [] OTHER -> "TypeError"

(* requireSettings, requireWordCount, requireRepairWordCount: by the       *)
(* page's own limits; a count, or the addresses of a search, needs only to *)
(* be a whole number.                                                      *)
RequireSettingSlip(a, v) == IF v \in {"right", "high"} THEN "fine" ELSE SettingCode(a)
RequireSetting(a, v) ==
  CASE v = "right" -> "fine"
    [] v = "high" -> "MEMORY_LEVEL_NOT_SUPPORTED_HERE"
    [] a = "count" /\ v # "fraction" -> "fine"
    [] a = "scanGap" /\ v \in {"above", "wide"} -> "fine"
    [] OTHER -> SettingCode(a)

(* Undefined is an answer not given, and in an encryption null too.        *)
RequireWalletPassphrase(m, v) ==
  IF v \in {"right", "false", "none"} \/ (m = "encrypt" /\ v = "null") THEN "fine" ELSE "TypeError"

(* drawPhrase: required with a passphrase, and refused without one.        *)
RequireCheckedSlip(m, args) ==
  IF args["checked"] \in {"type", "null"}
       \/ (m = "drawPhrase" /\ HasPassphrase(args) /\ args["checked"] = "none")
    THEN "TypeError" ELSE "fine"
RequireChecked(m, args) ==
  LET v == args["checked"]
  IN CASE v \in {"type", "null"} -> "TypeError"
       [] m = "describeDraw" -> "fine"
       [] HasPassphrase(args) -> IF v = "none" THEN "TypeError" ELSE "fine"
       [] v = "right" -> "WALLET_CHECK_NEEDS_PASSPHRASE"
       [] OTHER -> "fine"

DrawsChecked(args) == HasPassphrase(args) /\ args["checked"] = "right"

(* A passphrase that is not empty, with a confirmation that takes none.    *)
RequirePassphraseFits(args, r) ==
  IF WithoutReference(r) /\ args["passphrase"] \in {"right", "surrogate", "bytes"}
    THEN "TypeError" ELSE "fine"

(* answerConfirmAgain: the owner alone states a length.                    *)
StatedLength(r) ==
  CASE r["words"] = "none" -> "fine"
    [] r["owner"] = "none" -> "TypeError"
    [] r["words"] = "wrong" -> "INVALID_WORD_COUNT"
    [] OTHER -> "fine"

(* A new password and its repetition: one left out is an empty one.        *)
RequireRepetition(a, v) ==
  IF v = "type" \/ (v = "none" /\ a \in Passwords) THEN "TypeError" ELSE "fine"

(* requireText, requireBoolean, requireCallback, describeChoice, wishesOf. *)
RequireType(v) == IF v = "type" THEN "TypeError" ELSE "fine"

(* One check of the page: "fine", or what it throws.  Of a secret only the *)
(* type is looked at before the copy.                                      *)
PageSays(m, a, args, r) ==
  CASE a = "reference" -> IF args[a] = "type" THEN "TypeError" ELSE DescribeFor(m, r)
    [] a = "fits" -> RequirePassphraseFits(args, r)
    [] a = "stated" -> StatedLength(r)
    [] a = "idle" -> IF args[a] = "busy" THEN "BUSY" ELSE "fine"
    [] a = "onNoLength" -> IF args[a] = "type" \/ (args[a] = "given" /\ r["words"] # "detect")
                             THEN "TypeError" ELSE "fine"
    [] a = "hasPassphrase" -> RequireWalletPassphrase(m, args[a])
    [] a = "checked" -> RequireChecked(m, args)
    [] a \in Settings -> RequireSetting(a, args[a])
    [] a = "phrase" -> IF args[a] \in {"type", "bytes"} THEN "TypeError" ELSE "fine"
    [] a = "mainPassphrase" -> IF args[a] = "none" THEN "TypeError" ELSE "fine"
    [] a \in Passwords \cup Repeats -> RequireRepetition(a, args[a])
    [] OTHER -> RequireType(args[a])

(* encodeSecret, with the type again; make's dice left out are none.       *)
CopySays(a, args) ==
  CASE a = "alike" ->
         IF args["passphraseRepeat"] = "differs"
              \/ (args["passphraseRepeat"] = "none" /\ HasPassphrase(args))
           THEN "PASSPHRASES_DIFFER" ELSE "fine"
    [] args[a] = "type" \/ (args[a] = "none" /\ a \in Passwords \cup {"typed"}) -> "TypeError"
    [] args[a] = "surrogate" -> "INVALID_PASSWORD_TEXT"
    [] OTHER -> "fine"

(* What is said of each argument in turn, and the first that is refused,   *)
(* or one past the end.                                                    *)
Told(order, Says(_)) == [i \in DOMAIN order |-> Says(order[i])]
FirstRefused(codes) ==
  LET refused == {i \in DOMAIN codes : codes[i] # "fine"}
  IN IF refused = {} THEN Len(codes) + 1 ELSE CHOOSE i \in refused : \A j \in refused : i <= j

(* The fields the page wipes and transfers, and those the worker wipes:    *)
(* one list in two files.                                                  *)
SecretFields == {"phrase", "password", "passwordRepeat", "passphrase", "passphraseRepeat",
                 "chosenWords", "newPassword", "newPasswordRepeat", "mainPassphrase", "rolls",
                 "typed"}
WipeSecretsSlip(fields) == fields \ {"phrase", "password", "newPassword"}
WipeSecrets(fields) == fields \ SecretFields

WorkerFieldsSlip == SecretFields \ {"mainPassphrase"}
WorkerFields == {"phrase", "password", "passwordRepeat", "passphrase", "passphraseRepeat",
                 "chosenWords", "newPassword", "newPasswordRepeat", "mainPassphrase", "rolls",
                 "typed"}

-----------------------------------------------------------------------------
(* The core.                                                               *)

(* A number as JavaScript holds it: no fraction, and no 2^32 taken as 0.   *)
NumberCode(a) ==
  CASE a = "scanGap" -> "INVALID_REQUEST"
    [] a = "count" -> "INVALID_COUNT"    \* of repair words, words or characters
    [] OTHER -> SettingCode(a)
WholeNumber(a, v) == IF v \in {"fraction", "below", "wide"} THEN NumberCode(a) ELSE "fine"

(* Then WorkFactor::new, PhraseLength::from_count or require_count.        *)
CoreSetting(a, v) ==
  CASE WholeNumber(a, v) # "fine" -> WholeNumber(a, v)
    [] v = "high" -> "MEMORY_LEVEL_NOT_SUPPORTED_HERE"
    [] v = "above" /\ a # "scanGap" -> NumberCode(a)
    [] OTHER -> "fine"

(* reference_target and with_rekey_confirmation, on what the page made of  *)
(* the reference.                                                          *)
CoreReference(m, r) ==
  CASE m \in {"rekey", "confirmAgain"} /\ r["walletCheck"] # "none" -> "INVALID_REQUEST"
    [] r["words"] \in {"wrong", "long"} /\ m # "confirmAgain" -> "INVALID_WORD_COUNT"
    [] OTHER -> "fine"

(* Rekey::check_confirmation: whether the wallet has a passphrase must be  *)
(* stated where no reference shows it.                                     *)
CoreHasPassphrase(m, args, r) ==
  LET v == args["hasPassphrase"]
      shown == m = "rekey" /\ ~WithoutReference(r) /\ HasPassphrase(args)
  IN IF v = "type" \/ (shown /\ v = "false") \/ (m = "rekey" /\ ~shown /\ v \in {"none", "null"})
       THEN "INVALID_REQUEST" ELSE "fine"

(* A password is read with its choice; check_typed_twice compares, and a   *)
(* review takes a repetition left out as none.                             *)
CorePasswordSlip(m, a, v) ==
  CASE a \in Passwords -> IF v = "bytes" THEN "INVALID_PASSWORD_UTF8" ELSE "fine"
    [] OTHER -> IF v = "differs" THEN "PASSWORDS_DIFFER" ELSE "fine"
CorePassword(m, a, v) ==
  CASE a \in Passwords -> IF v = "bytes" THEN "INVALID_PASSWORD_UTF8" ELSE "fine"
    [] v = "differs" \/ (v = "none" /\ m # "review") -> "PASSWORDS_DIFFER"
    [] OTHER -> "fine"

(* owner_length: one of those the library left the owner.                  *)
CoreStated(r, v) == IF r["owner"] # "none" /\ v = "invalid" THEN "INVALID_REQUEST" ELSE "fine"

(* with_rekey_confirmation.                                                *)
CoreFits(args, r) ==
  IF WithoutReference(r) /\ HasPassphrase(args) THEN "INVALID_REQUEST" ELSE "fine"

(* wallet_check::verify asks for the passphrase before it reads the phrase.*)
CorePhrase(m, args) ==
  CASE m = "walletCheck" /\ ~HasPassphrase(args) -> "WALLET_CHECK_NEEDS_PASSPHRASE"
    [] args["phrase"] = "invalid" -> "INVALID_PHRASE"
    [] OTHER -> "fine"

(* Bytes that are no text, and text that is none of its kind: an error of  *)
(* the argument's own.                                                     *)
CoreText(v) == IF v \in {"bytes", "invalid"} THEN "REFUSED" ELSE "fine"

(* A choice that the review of the password does not offer.                *)
CoreChoice(v) == IF v = "invalid" THEN "PASSWORD_REPAIR_NOT_OFFERED" ELSE "fine"

CoreSays(m, a, args, r) ==
  CASE a = "reference" -> CoreReference(m, r)
    [] a = "possible" -> IF r["walletCheck"] # "none" /\ ~HasPassphrase(args)
                           THEN "WALLET_CHECK_NEEDS_PASSPHRASE" ELSE "fine"
    [] a = "fits" -> CoreFits(args, r)
    [] a = "stated" -> CoreStated(r, args[a])
    [] a = "alike" -> CopySays(a, args)
    [] a = "checked" -> IF args[a] = "right" /\ ~HasPassphrase(args)
                          THEN "WALLET_CHECK_NEEDS_PASSPHRASE" ELSE "fine"
    [] a = "hasPassphrase" -> CoreHasPassphrase(m, args, r)
    [] a \in Settings -> CoreSetting(a, args[a])
    [] a = "phrase" -> CorePhrase(m, args)
    [] a \in Passwords \cup Repeats -> CorePassword(m, a, args[a])
    [] a \in {"passwordRepair", "newPasswordRepair"} -> CoreChoice(args[a])
    [] OTHER -> CoreText(args[a])

-----------------------------------------------------------------------------

Init ==
  /\ called = "none" /\ given = << >> /\ refers = Plain /\ build = "same"
  /\ at = "idle" /\ copies = {} /\ there = {} /\ verdict = "none"

Ends(what) == at' = "ended" /\ verdict' = what

(* The page calls a method, whose checks run at once.                      *)
Call(m, args, r) ==
  LET codes == Told(Checked(m), LAMBDA a : PageSays(m, a, args, r))
      first == FirstRefused(codes)
  IN /\ called' = m /\ given' = args /\ refers' = r
     /\ build' \in IF m \in OfCore THEN {"same", "other"} ELSE {"same"}
     /\ IF first <= Len(codes) THEN Ends(codes[first])
        ELSE at' = "waiting" /\ UNCHANGED verdict
     /\ UNCHANGED <<copies, there>>

(* Right but for two arguments, or with another reference and then at most *)
(* one argument that is told beside it.                                    *)
Calls ==
  at = "idle" /\ \E m \in Methods :
    LET odd == UNION {{a} \X Wrong(a) : a \in Arguments(m)}
        right == [a \in Arguments(m) |-> "right"]
        With(args, o) == [args EXCEPT ![o[1]] = o[2]]
        beside == {o \in odd : o[1] \in {"passphrase", "stated", "onNoLength"}}
    IN \/ \E args \in {right} \cup {With(With(right, o), p) : o, p \in odd} : Call(m, args, Plain)
       \/ /\ "reference" \in Arguments(m)
          /\ \E r \in References, args \in {right} \cup {With(right, o) : o \in beside} :
               Call(m, args, r)

(* OperationSlot.cancel while a call waits for the startup check.          *)
Cancel ==
  /\ at = "waiting" /\ "idle" \in Arguments(called) /\ called # "selfTest"
  /\ Ends("CANCELLED")
  /\ UNCHANGED <<called, given, refers, build, copies, there>>

Gated(m) == m \notin Answering \cup {"selfTest"}

(* The startup check fails; of a core with other limits requireSameLimits  *)
(* refuses it.                                                             *)
CheckFails ==
  /\ at = "waiting" /\ Gated(called)
  /\ Ends(IF build = "other" THEN "PACKAGE_MISMATCH" ELSE "SELF_CHECK_FAILED")
  /\ UNCHANGED <<called, given, refers, build, copies, there>>

(* The copies, in the order of the code, and the transfer to the worker; a *)
(* refused one wipes those before it.                                      *)
Sends ==
  LET codes == Told(Copied(called), LAMBDA a : CopySays(a, given))
      first == FirstRefused(codes)
      made == {Copied(called)[i] : i \in 1..(first - 1)} \ {"alike"}
  IN /\ at = "waiting"
     /\ Gated(called) => build = "same"
     /\ IF first <= Len(codes)
          THEN Ends(codes[first]) /\ copies' = WipeSecrets(made) /\ UNCHANGED there
          ELSE /\ at' = "sent" /\ copies' = made \ SecretFields /\ there' = made
               /\ UNCHANGED verdict
     /\ UNCHANGED <<called, given, refers, build>>

(* The page asks for the check only with a passphrase, whatever it was     *)
(* asked.                                                                  *)
Sent == IF called # "drawPhrase" THEN given
        ELSE [given EXCEPT !["checked"] = IF DrawsChecked(given) THEN "right" ELSE "false"]

(* The core's first refusal, or none; the worker wipes what it was sent.   *)
Answers ==
  LET codes == Told(ReadByCore(called), LAMBDA a : CoreSays(called, a, Sent, refers))
      first == FirstRefused(codes)
  IN /\ at = "sent"
     /\ Ends(IF first <= Len(codes) THEN codes[first] ELSE "accepted")
     /\ there' = there \ WorkerFields
     /\ UNCHANGED <<called, given, refers, build, copies>>

Over == at = "ended" /\ UNCHANGED requestVars

Next == Calls \/ Cancel \/ CheckFails \/ Sends \/ Answers \/ Over

Spec == Init /\ [][Next]_requestVars

-----------------------------------------------------------------------------

(* Whatever refuses a call, and at whichever argument, no byte of a secret *)
(* copied for it stays in the page, and none in the worker once it has     *)
(* answered (wipeSecrets and the transfer; AUD-011-SEC001,                 *)
(* AUD-012-SEC001).                                                        *)
NoCopyIsLeft == at # "waiting" => copies = {} /\ (at = "ended" => there = {})

(* A secret reaches a worker only once the startup check has passed with a *)
(* core of the page's own limits, a new password only if it was typed      *)
(* twice the same, and a page that asked for the wallet check never gets a *)
(* phrase without it (MhfeWallet.drawPhrase).                              *)
UsedAsAsked ==
  /\ at = "sent" /\ called \notin Answering \cup {"selfTest"} => build = "same"
  /\ verdict = "accepted" =>
       /\ \A a \in Arguments(called) \cap {"passwordRepeat", "newPasswordRepeat"} :
            given[a] = "right" \/ (called = "review" /\ given[a] = "none")
       /\ called = "drawPhrase" =>
            /\ given["passphraseRepeat"] = "right"
                 \/ (given["passphraseRepeat"] = "none" /\ ~HasPassphrase(given))
            /\ given["checked"] = "right" => DrawsChecked(given)
            /\ HasPassphrase(given) => given["checked"] \in {"right", "false"}

(* What the page refuses with an error of the library, the library refuses *)
(* with the same, and what the page lets by is refused for none of the     *)
(* limits it checks too (client.js, "the library's refusal, with its code  *)
(* and message").                                                          *)
Limits == {"INVALID_PIM", "INVALID_MEMORY_LEVEL", "MEMORY_LEVEL_NOT_SUPPORTED_HERE",
           "INVALID_WORD_COUNT", "PASSPHRASES_DIFFER"}
Shared == Limits \cup {"INVALID_REPAIR_WORDS", "WALLET_CHECK_NEEDS_PASSPHRASE"}

PageAgreesWithCore ==
  LET core == {CoreSays(called, a, given, refers) : a \in ToSet(ReadByCore(called))}
  IN /\ at = "ended" /\ verdict \in Shared /\ called # "confirmAgain" => verdict \in core
     /\ at = "sent" => core \cap Limits = {}

(* A reference goes on only when it names exactly one thing to compare     *)
(* with, of those its method takes: with several the check would use one   *)
(* of them without a word (describeReference); and one that does is not    *)
(* refused.                                                                *)
Documented(m) ==
  CASE m \in {"check", "noLength"} -> Kinds
    [] m = "searchDecoy" -> {"address", "fingerprint"}
    [] m = "searchWallet" -> {"address", "fingerprint", "walletCheck", "builtInCheck"}
    [] OTHER -> {"address", "fingerprint", "builtInCheck", "owner"}

OneReference ==
  at \in {"sent", "ended"} /\ "reference" \in Arguments(called) =>
    LET named == Named(refers)
        kinds == named \cap Documented(called)
        fit(keys) == \A key \in keys : refers[key] \in {"right", "detect"}
        bare == \A a \in Arguments(called) :
                  given[a] = "right" \/ (a = "passphrase" /\ given[a] = "none")
    IN /\ at = "sent" => Cardinality(kinds) = 1 /\ fit(kinds)
       /\ Cardinality(kinds) = 1 /\ named \in {kinds, {"address", "path"}} /\ fit(named) /\ bare
            /\ (called = "noLength" => refers["words"] # "detect")
            /\ (called \in {"rekey", "confirmAgain"} /\ WithoutReference(refers) =>
                  given["passphrase"] = "none") => verdict # "TypeError"

RequestsAreSound == NoCopyIsLeft /\ UsedAsAsked /\ PageAgreesWithCore /\ OneReference
=============================================================================
