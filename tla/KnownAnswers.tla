---------------------------- MODULE KnownAnswers ----------------------------
(***************************************************************************)
(* A self-check of the library: the sets of each front end                 *)
(* (src/self_check/sets.rs), the run of the cases of every part and its    *)
(* report (src/self_check.rs, src/wasm_api.rs).                            *)
(*                                                                         *)
(* A fault is a comparison that differs on this build and computer, alone  *)
(* or with all the later ones of its part.                                 *)
(***************************************************************************)
EXTENDS KnownCases, FiniteSetsExt

VARIABLES
  front,     \* whose self-check runs
  tier,      \* "startup" or "all", the tier "full" of the code
  broken,    \* the fault, or None
  argon2,    \* the core was given a build of Argon2 to check
  live,      \* a source of random bytes was given
  skipped,   \* the parts that another module of the page has passed
  results,   \* the parts that have ended, in order, with outcome and place
  checking

vars == <<front, tier, broken, argon2, live, skipped, results, checking>>

-----------------------------------------------------------------------------
(* sets.rs.  A part with what it was given: a build of Argon2 or a source  *)
(* of random bytes.                                                        *)
Parts(ids) == [i \in DOMAIN ids |-> [id |-> ids[i], given |-> "nothing"]]
PartWith(id, given) == <<[id |-> id, given |-> given]>>

(* with, merge: a part of both sets stays as the first one brought it.     *)
Has(set, id) == \E i \in DOMAIN set : set[i].id = id
Merge(set, other) == set \o SelectSeq(other, LAMBDA part : ~Has(set, part.id))

Hashes      == Parts(<<"cipher-hashes">>)
Fingerprint == Parts(<<"wallet-hashes", "bip39-seed", "bip32">>)
WalletKeys  == Fingerprint \o Parts(<<"addresses">>)
Core(build) ==
  Merge(Hashes \o PartWith("argon2", build)
          \o Parts(<<"cipher-rounds", "formats", "container-facts", "keep-advice",
                     "password-unicode", "bip39-words", "repair-words", "container-search",
                     "password-check-word">>),
        WalletKeys)
    \o Parts(<<"wallet-check", "hidden-wallets", "rekey", "rehearsal">>)
Repair == Merge(Parts(<<"bip39-words">>), Fingerprint) \o Parts(<<"repair-words">>)
Passwords(random) ==
  Parts(<<"password-unicode", "password-check-word", "password-generator", "word-hints">>)
    \o PartWith("random-source", random)
Wallet(random) ==
  Merge(Parts(<<"bip39-words">>), WalletKeys)
    \o Parts(<<"address-search", "wallet-check", "word-wishes", "word-hints">>)
    \o PartWith("random-source", random)

Native(random) ==
  LET core == Core("build") \o Parts(<<"argon2-sizes">>)
  IN Merge(Merge(Merge(core, Passwords(random)), Wallet("nothing")), Repair)
       \o Parts(<<"memory-locking">>)

(* The sets that the bindings and the tool run; self_check_argon2 is the   *)
(* page's check of its build.                                              *)
Fronts == {"hashes", "core", "argon2", "repair", "passwords", "wallet", "native"}
SetOf ==
  CASE front = "hashes"    -> Hashes
    [] front = "core"      -> Core(IF argon2 THEN "build" ELSE "nothing")
    [] front = "argon2"    -> PartWith("argon2", "build") \o Parts(<<"argon2-sizes">>)
    [] front = "repair"    -> Repair
    [] front = "passwords" -> Passwords("source")
    [] front = "wallet"    -> Wallet("source")
    [] front = "native"    -> Native(IF live THEN "source" ELSE "nothing")

(* skip, then run: the parts of the tier, in their order.                  *)
RunsAt(part) == part.id = "argon2-sizes" => tier = "all"
TodoSlip == SelectSeq(SetOf, RunsAt)
Todo == SelectSeq(SetOf, LAMBDA part : part.id \notin skipped /\ RunsAt(part))

-----------------------------------------------------------------------------
(* Findings.  A part's cases of the tier, by their places among all; the   *)
(* lists keep and number those alone.                                      *)
AtTierSlip(part) == [i \in DOMAIN Cases[part.id] |-> i]
AtTier(part) ==
  LET cases == Cases[part.id]
      lacks(case) == part.id = "random-source" /\ part.given = "nothing" /\ case.full
  IN SelectSeq([i \in DOMAIN cases |-> i],
               LAMBDA i : (cases[i].full => tier = "all") /\ ~lacks(cases[i]))

None == [id |-> "", at |-> 0, ask |-> 0, on |-> FALSE]
Differs(id, i, ask) ==
  /\ id = broken.id
  /\ \/ i = broken.at /\ ask = broken.ask
     \/ broken.on /\ (i > broken.at \/ (i = broken.at /\ ask > broken.ask))
CaseDiffers(id, i) == \E ask \in DOMAIN Cases[id][i].asks : Differs(id, i, ask)

(* The first case that differs: the later ones are not run.                *)
FirstSlip(id, kept) ==
  {k \in DOMAIN kept : CaseDiffers(id, kept[k]) /\ \A j \in (k + 1)..Len(kept) : ~CaseDiffers(id, kept[j])}
First(id, kept) ==
  {k \in DOMAIN kept : CaseDiffers(id, kept[k]) /\ \A j \in 1..(k - 1) : ~CaseDiffers(id, kept[j])}

(* "vector 4 of 10 gives another container"; outside a list only what.     *)
PlaceOf(id, kept, k) ==
  LET cases == Cases[id]
      noun  == cases[kept[k]].noun
      alike(last) == Cardinality({j \in 1..last : cases[kept[j]].noun = noun})
      asks  == cases[kept[k]].asks
      what  == asks[CHOOSE ask \in DOMAIN asks :
                      Differs(id, kept[k], ask) /\ \A early \in 1..(ask - 1) : ~Differs(id, kept[k], early)]
  IN IF noun = "" THEN <<noun, 0, 0, what>> ELSE <<noun, alike(k), alike(Len(kept)), what>>
Nowhere == <<"", 0, 0, "">>

(* What the check of a part gives.  A size of memory that cannot be had    *)
(* ends its part before the call, memory that cannot be locked warns.      *)
Outcomes(part) ==
  LET kept  == AtTier(part)
      first == First(part.id, kept)
      told(outcome) == {<<outcome, Nowhere>>}
      failures == {<<"failed", PlaceOf(part.id, kept, k)>> : k \in first}
  IN CASE part.id = "argon2" /\ part.given = "nothing" -> told("notRun")
       [] part.id = "memory-locking" /\ first # {} -> told("warning")
       [] OTHER ->
            (IF part.id = "argon2-sizes" THEN told("notAvailable") ELSE {})
              \cup (IF first # {} THEN failures
                    ELSE IF part.id = "random-source" /\ tier = "all" /\ part.given = "nothing"
                         THEN told("notRun") ELSE told("passed"))

Passed == \A i \in DOMAIN results : results[i].outcome # "failed"

-----------------------------------------------------------------------------
(* The parts of each set and their order, as the tests of sets.rs state    *)
(* them: what its front end computes.                                      *)
IdsOf(each) ==
  CASE each = "hashes"    -> <<"cipher-hashes">>
    [] each = "core"      -> SubSeq(NativeIds, 1, 19)
    [] each = "argon2"    -> <<"argon2", "argon2-sizes">>
    [] each = "repair"    -> <<"bip39-words", "wallet-hashes", "bip39-seed", "bip32", "repair-words">>
    [] each = "passwords" -> <<"password-unicode", "password-check-word", "password-generator",
                               "word-hints", "random-source">>
    [] each = "wallet"    -> <<"bip39-words", "wallet-hashes", "bip39-seed", "bip32", "addresses",
                               "address-search", "wallet-check", "word-wishes", "word-hints",
                               "random-source">>
    [] each = "native"    -> NativeIds

(* A fault: the first or the last comparison of a case alone, or a case    *)
(* and all that follows.                                                   *)
Faults(id) ==
  LET fault(i, ask, on) == [id |-> id, at |-> i, ask |-> ask, on |-> on]
  IN UNION {{fault(i, 1, FALSE), fault(i, Len(Cases[id][i].asks), FALSE), fault(i, 1, TRUE)} :
              i \in DOMAIN Cases[id]}

-----------------------------------------------------------------------------
Init ==
  /\ front = "hashes" /\ tier = "startup" /\ broken = None /\ argon2 = TRUE /\ live = FALSE
  /\ skipped = {} /\ results = <<>> /\ checking = "begin"

(* A page leaves Argon2 out of a quick check, and skips what another of    *)
(* its modules has passed; at the start of the tool no live source is      *)
(* tried, and a page always gives its own.                                 *)
Begins ==
  /\ checking = "begin" /\ checking' = "run"
  /\ front' \in Fronts /\ tier' \in {"startup", "all"}
  /\ broken' \in {None} \cup UNION {Faults(id) : id \in ToSet(IdsOf(front'))}
  /\ argon2' \in IF front' = "core" THEN BOOLEAN ELSE {TRUE}
  /\ live' \in IF front' # "native" THEN {TRUE} ELSE IF tier' = "all" THEN BOOLEAN ELSE {FALSE}
  /\ skipped' \in {{}} \cup (IF front' = "wallet" THEN {ToSet(IdsOf("repair"))} ELSE {})
  /\ UNCHANGED results

RunsPart ==
  /\ checking = "run" /\ Len(results) < Len(Todo)
  /\ LET part == Todo[Len(results) + 1]
     IN \E given \in Outcomes(part) :
          results' = Append(results, [part |-> part, outcome |-> given[1], place |-> given[2]])
  /\ UNCHANGED <<front, tier, broken, argon2, live, skipped, checking>>

Reports ==
  /\ checking = "run" /\ Len(results) = Len(Todo) /\ checking' = "done"
  /\ UNCHANGED <<front, tier, broken, argon2, live, skipped, results>>

Next == Begins \/ RunsPart \/ Reports

Spec == Init /\ [][Next]_vars

TypeOK ==
  /\ front \in Fronts /\ tier \in {"startup", "all"}
  /\ broken = None \/ broken \in Faults(broken.id)
  /\ {argon2, live} \subseteq BOOLEAN /\ skipped \subseteq ToSet(NativeIds)
  /\ checking \in {"begin", "run", "done"} /\ Len(results) <= Len(Todo)

-----------------------------------------------------------------------------
(* Properties.                                                             *)

(* known_answers.rs, sets.rs.  A report that passes vouches for every part *)
(* its front end computes: a fault in one of them shows only in cases of   *)
(* the full self-test, or the report names the part as not checked, or the *)
(* page has it from another module.                                        *)
Told(id) == \E i \in DOMAIN results : results[i].part.id = id /\ results[i].outcome # "passed"
PassVouches ==
  checking = "done" /\ Passed /\ broken # None =>
    \/ Told(broken.id) \/ broken.id \in skipped
    \/ /\ tier = "startup"
       /\ \A i \in DOMAIN Cases[broken.id] :
            CaseDiffers(broken.id, i) => Cases[broken.id][i].full

(* sets.rs.  A run that ends has run its parts, each once, in the order    *)
(* its tests state.                                                        *)
WhollyRun ==
  checking = "done" =>
    [i \in DOMAIN results |-> results[i].part.id]
      = SelectSeq(IdsOf(front), LAMBDA id : id \notin skipped /\ (id = "argon2-sizes" => tier = "all"))

(* sets.rs.  The full self-test of the tool leaves out nothing it was      *)
(* given: a part of two sets runs as the first one brings it.              *)
NothingLeftOut ==
  front = "native" /\ live => \A i \in DOMAIN results : results[i].outcome # "notRun"

(* self_check.rs.  A failure names the first comparison of the tier that   *)
(* differs: its case by its number among those of its list that ran, and   *)
(* no case before it, of any list of its part, differs.                    *)
FailureIsPlaced ==
  \A i \in DOMAIN results : results[i].outcome = "failed" =>
    LET id    == results[i].part.id
        place == results[i].place
        ran   == {k \in DOMAIN Cases[id] : Cases[id][k].full => tier = "all"}
        list  == {k \in ran : Cases[id][k].noun = place[1]}
    IN \E k \in list :
         /\ \E ask \in DOMAIN Cases[id][k].asks :
              /\ Cases[id][k].asks[ask] = place[4] /\ Differs(id, k, ask)
              /\ \A early \in 1..(ask - 1) : ~Differs(id, k, early)
         /\ \A j \in ran : j < k => ~CaseDiffers(id, j)
         /\ place[1] # "" => place[2] = Cardinality({j \in list : j <= k})
                             /\ place[3] = Cardinality(list)

PassTellsTheTruth == PassVouches /\ WhollyRun /\ NothingLeftOut /\ FailureIsPlaced
=============================================================================
