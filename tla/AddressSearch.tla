---------------------------- MODULE AddressSearch ----------------------------
(***************************************************************************)
(* The search of a receiving address in the wallet of a phrase             *)
(* (src/wallet.rs): the address typed is read as every coin whose form it  *)
(* has, what the search covers is stated, and the keys of each coin's      *)
(* standard paths are derived in turn.                                     *)
(*                                                                         *)
(* An address is its form and the key it commits to.  Two paths give two   *)
(* keys, so that a key is told by its path and the class of the commitment *)
(* made to it.                                                             *)
(***************************************************************************)
EXTENDS Naturals, Sequences, FiniteSets

CONSTANTS Accounts, Indexes    \* the limits of a search without a path, at least 1

VARIABLES
  seek,       \* "begin", "asked", "searching" or "done"
  target,     \* the address that the owner looks for, as their wallet derived it
  named,      \* the coin named with it, or "any"
  path,       \* the one path given, or <<>>
  addresses,  \* how the text is still to be looked for
  searched,   \* the roots searched for it
  todo,       \* the keys derived under the first of `addresses`
  derived,    \* the keys derived in all
  promised,     \* how many keys the search was said to cover
  found       \* the path found, <<>> for none

vars == <<seek, target, named, path, addresses, searched, todo, derived, promised, found>>

-----------------------------------------------------------------------------
(* Coin, AddressType and the forms of their addresses.                     *)

Coins == <<"bitcoin", "bitcoin-cash", "cosmos", "dash", "dogecoin", "ethereum",
           "ethereum-classic", "injective", "litecoin", "tron", "xrp", "zcash">>
AllCoins == {Coins[i] : i \in DOMAIN Coins}

Kind(form, type)     == [form |-> form, type |-> type, testnet |-> FALSE]
TestKind(form, type) == [form |-> form, type |-> type, testnet |-> TRUE]

(* The single-key addresses of each coin, by the reader of their encoding. *)
SegwitKinds(coin) ==
  CASE coin = "bitcoin" -> {Kind("bc1q", "P2wpkh"), Kind("bc1p", "P2tr"),
                            TestKind("tb1q", "P2wpkh"), TestKind("tb1p", "P2tr")}
    [] coin = "litecoin" -> {Kind("ltc1q", "P2wpkh")}
    [] OTHER -> {}
Base58Versions(coin) ==
  CASE coin = "bitcoin" -> {Kind("1", "P2pkh"), Kind("3", "P2shP2wpkh"),
                            TestKind("m", "P2pkh"), TestKind("2", "P2shP2wpkh")}
    [] coin = "litecoin" -> {Kind("L", "P2pkh"), Kind("M", "P2shP2wpkh"), Kind("3", "P2shP2wpkh")}
    [] coin = "bitcoin-cash" -> {Kind("1", "P2pkh")} [] coin = "dash" -> {Kind("X", "P2pkh")}
    [] coin = "dogecoin" -> {Kind("D", "P2pkh")} [] coin = "zcash" -> {Kind("t1", "P2pkh")}
    [] coin = "xrp" -> {Kind("r", "P2pkh")} [] coin = "tron" -> {Kind("T", "Keccak")}
    [] OTHER -> {}
AccountKinds(coin) ==
  CASE coin = "cosmos" -> {Kind("cosmos1", "P2pkh")} [] coin = "injective" -> {Kind("inj1", "Keccak")}
    [] OTHER -> {}
HexKinds(coin) ==
  IF coin \in {"ethereum", "ethereum-classic"} THEN {Kind("0x", "Keccak")} ELSE {}
CashAddrKinds(coin) ==
  IF coin = "bitcoin-cash" THEN {Kind("bitcoincash:q", "P2pkh"), Kind("q", "P2pkh")} ELSE {}
PlatformKinds(coin) ==
  IF coin = "dash" THEN {Kind("dash1k", "DashPlatform"), TestKind("tdash1k", "DashPlatform")} ELSE {}
Kinds(coin) == SegwitKinds(coin) \cup Base58Versions(coin) \cup AccountKinds(coin)
                 \cup HexKinds(coin) \cup CashAddrKinds(coin) \cup PlatformKinds(coin)

(* Addresses that no single transparent key has: a shielded one of Zcash   *)
(* or Dash, and a script's where its form tells.                           *)
Unsearchable == {<<"zcash", "zs1">>, <<"dash", "dash1z">>, <<"bitcoin", "bc1q of a script">>,
                 <<"bitcoin-cash", "bitcoincash:p">>}

CoinTypesSlip(coin) ==
  CASE coin = "bitcoin" -> <<0>> [] coin = "bitcoin-cash" -> <<145>>
    [] coin \in {"ethereum", "injective"} -> <<60>> [] coin = "ethereum-classic" -> <<61, 60>>
    [] coin = "xrp" -> <<144>> [] coin = "tron" -> <<195>> [] coin = "zcash" -> <<133>>
    [] coin = "dogecoin" -> <<3>> [] coin = "litecoin" -> <<2>> [] coin = "cosmos" -> <<118>>
    [] coin = "dash" -> <<5>>
CoinTypes(coin) ==
  CASE coin = "bitcoin" -> <<0>> [] coin = "bitcoin-cash" -> <<145, 0>>
    [] coin \in {"ethereum", "injective"} -> <<60>> [] coin = "ethereum-classic" -> <<61, 60>>
    [] coin = "xrp" -> <<144>> [] coin = "tron" -> <<195>> [] coin = "zcash" -> <<133>>
    [] coin = "dogecoin" -> <<3>> [] coin = "litecoin" -> <<2>> [] coin = "cosmos" -> <<118>>
    [] coin = "dash" -> <<5>>

Purpose(type) ==
  CASE type \in {"P2pkh", "Keccak"} -> 44 [] type = "P2shP2wpkh" -> 49
    [] type = "P2wpkh" -> 84 [] type = "P2tr" -> 86 [] type = "DashPlatform" -> 9

(* program_for: what an address commits to.                                *)
Class(type) == IF type \in {"P2pkh", "P2wpkh", "DashPlatform"} THEN "Hash160" ELSE type

(* Address::search_roots and hardened_chains.                              *)
Root(type, coinType) ==
  IF type = "DashPlatform" THEN <<9, coinType, 17>> ELSE <<Purpose(type), coinType>>
SearchRoots(address) ==
  LET types == IF address.testnet THEN <<1>> ELSE CoinTypes(address.coin) IN
  [i \in DOMAIN types |-> Root(address.type, types[i])]
RootsOf(address) == {SearchRoots(address)[k] : k \in DOMAIN SearchRoots(address)}
Hardened(type) == type = "DashPlatform"
HardenedChains(address) == Hardened(address.type)

(* Those of a sequence that are in a set, in their order.                  *)
Kept(s, S) ==
  LET kept[k \in 0 .. Len(s)] ==
        IF k = 0 THEN <<>>
        ELSE IF s[k] \in S THEN Append(kept[k - 1], s[k]) ELSE kept[k - 1]
  IN kept[Len(s)]

Path(root, account, hardened, chain, index) ==
  [root |-> root, account |-> account, hardened |-> hardened, chain |-> chain, index |-> index]

-----------------------------------------------------------------------------
(* Reading the address.                                                    *)

(* How the text differs from what the wallet shows: all in capitals, the   *)
(* case of some letters changed, a wrong checksum, or groups and padding   *)
(* that give the same bytes under a checksum that holds.                   *)
Changes == {"none", "capitals", "mixed case", "checksum", "padding"}
EitherCase == {"none", "capitals"}

ReadBy(kinds, text, changes) ==
  {kind \in kinds : kind.form = text.form /\ text.change \in changes}

ParseSegwit(coin, text)  == ReadBy(SegwitKinds(coin), text, EitherCase)
ParseBase58(coin, text)  == ReadBy(Base58Versions(coin), text, {"none"})
ParseAccountSlip(coin, text) == ReadBy(AccountKinds(coin), text, EitherCase \cup {"padding"})
ParseAccount(coin, text) == ReadBy(AccountKinds(coin), text, EitherCase)
ParseHex(coin, text)     == ReadBy(HexKinds(coin), text, EitherCase)
ParseCashAddr(coin, text) == ReadBy(CashAddrKinds(coin), text, EitherCase)
ParsePlatform(coin, text) == ReadBy(PlatformKinds(coin), text, EitherCase)

(* Address::parse, which gives at most one address.                        *)
Parse(coin, text) ==
  {[coin |-> coin, type |-> kind.type, testnet |-> kind.testnet] :
     kind \in ParseSegwit(coin, text) \cup ParseBase58(coin, text) \cup ParseAccount(coin, text)
               \cup ParseHex(coin, text) \cup ParseCashAddr(coin, text)
               \cup ParsePlatform(coin, text)}

(* Address::parse_with: one coin, or all in their order.                   *)
ParseWith(coin, text) ==
  LET these == Kept(Coins, {c \in AllCoins : coin \in {"any", c} /\ Parse(c, text) # {}}) IN
  [i \in DOMAIN these |-> CHOOSE address \in Parse(these[i], text) : TRUE]

RootsIn(read) == UNION {RootsOf(read[i]) : i \in DOMAIN read}

(* AddressSearch::new: a path that two coins share is counted once.        *)
Stated(read, only) ==
  IF read = <<>> THEN 0
  ELSE IF only # <<>> THEN 1
  ELSE Cardinality(RootsIn(read)) * 2 * Accounts * Indexes

(* The coin types a wallet of the coin may use for an address.             *)
TypesUsed(coin, testnet) ==
  IF testnet THEN {1}
  ELSE CASE coin = "bitcoin-cash" -> {145, 0} [] coin = "ethereum-classic" -> {61, 60}
         [] OTHER -> {CoinTypes(coin)[1]}

Searchable ==
  UNION {UNION {{[coin |-> coin, form |-> kind.form, change |-> "none", class |-> Class(kind.type),
                  path |-> Path(Root(kind.type, used), account, Hardened(kind.type),
                                chain, index)] :
                   used \in TypesUsed(coin, kind.testnet), account \in 0 .. Accounts,
                   chain \in {0, 1}, index \in 0 .. Indexes} : kind \in Kinds(coin)} :
           coin \in AllCoins}

(* The address as the wallet shows it or changed, or one of another kind.  *)
Targets ==
  Searchable \cup {[shown EXCEPT !.change = change] :
                     shown \in {each \in Searchable : each.path.account = 0 /\ each.path.index = 0},
                     change \in Changes}
    \cup {[coin |-> other[1], form |-> other[2], change |-> "none", class |-> "none",
           path |-> Path(<<>>, 0, FALSE, 0, 0)] : other \in Unsearchable}

Init ==
  /\ seek = "begin" /\ target = [coin |-> "none"] /\ named = "any" /\ path = <<>>
  /\ addresses = <<>> /\ searched = {} /\ todo = 0 /\ derived = 0 /\ promised = 0 /\ found = <<>>

(* What the wallet of the owner's coin shows them as a receiving address.  *)
Types ==
  /\ seek = "begin" /\ target' \in Targets
  /\ seek' = "asked" /\ UNCHANGED <<named, path, addresses, searched, todo, derived, promised, found>>

(* The coin and the path may be given with it, also wrongly; a coin that   *)
(* has no address of the form is refused.                                  *)
Describes ==
  /\ seek = "asked" /\ named' \in {"any", target.coin, "bitcoin"}
  /\ path' \in {<<>>, target.path, [target.path EXCEPT !.index = @ + 1]}
  /\ addresses' = ParseWith(named', target) /\ promised' = Stated(addresses', path')
  /\ seek' = IF addresses' = <<>> THEN "done" ELSE "searching"
  /\ UNCHANGED <<target, searched, todo, derived, found>>

-----------------------------------------------------------------------------
(* find_addresses_until and search_roots_until.                            *)

RootsLeftSlip(address) == SearchRoots(address)
RootsLeft(address) == Kept(SearchRoots(address), RootsOf(address) \ searched)

(* The keys of an address in their order, from 0.                          *)
Key(address, n) ==
  Path(RootsLeft(address)[(n \div (2 * Accounts * Indexes)) + 1],
       (n \div (2 * Indexes)) % Accounts, HardenedChains(address),
       (n \div Indexes) % 2, n % Indexes)
Keys(address) == Len(RootsLeft(address)) * 2 * Accounts * Indexes

(* What an address of the type commits to at a path: derived from the one  *)
(* phrase, another path gives another key.                                 *)
Program(type, at) == [class |-> Class(type), key |-> at]
Matches(address, at) == Program(address.type, at) = [class |-> target.class, key |-> target.path]

Stops(result) ==
  seek' = "done" /\ found' = result
    /\ UNCHANGED <<target, named, path, addresses, searched, todo, promised>>

LooksAtPath ==
  /\ seek = "searching" /\ path # <<>> /\ derived' = derived + 1
  /\ Stops(IF \E i \in DOMAIN addresses : Matches(addresses[i], path) THEN path ELSE <<>>)

LooksAtKey ==
  /\ seek = "searching" /\ path = <<>> /\ addresses # <<>>
  /\ todo < Keys(Head(addresses)) /\ derived' = derived + 1
  /\ IF Matches(Head(addresses), Key(Head(addresses), todo))
     THEN Stops(Key(Head(addresses), todo))
     ELSE /\ todo' = todo + 1
          /\ UNCHANGED <<seek, target, named, path, addresses, searched, promised, found>>

(* The roots of an address count as searched for it and for the next ones. *)
NextAddress ==
  /\ seek = "searching" /\ path = <<>> /\ addresses # <<>>
  /\ todo = Keys(Head(addresses))
  /\ searched' = searched \cup RootsOf(Head(addresses))
  /\ addresses' = Tail(addresses) /\ todo' = 0
  /\ UNCHANGED <<seek, target, named, path, derived, promised, found>>

Ends ==
  /\ seek = "searching" /\ path = <<>> /\ addresses = <<>> /\ UNCHANGED derived
  /\ Stops(<<>>)

Next == Types \/ Describes \/ LooksAtPath \/ LooksAtKey \/ NextAddress \/ Ends

Spec == Init /\ [][Next]_vars

-----------------------------------------------------------------------------
(* Properties.                                                             *)

(* What a wallet shows: in capitals too where the encoding allows it, as   *)
(* Bech32, CashAddr and hexadecimal digits do.                             *)
IsItsAddress ==
  /\ target.class # "none"
  /\ \/ target.change = "none"
     \/ target.change = "capitals" /\ target.form \in {"bc1q", "bc1p", "tb1q", "tb1p", "ltc1q", "0x",
          "cosmos1", "inj1", "bitcoincash:q", "q", "dash1k", "tdash1k"}

(* An address that a wallet of its coin derived within the limits is found,*)
(* whatever other coins share its form, also where it is named or its path *)
(* is given; one further on, of another coin or on another path is not.  A *)
(* text that no wallet shows is searched for as an address of no coin.     *)
FoundWhereItIs ==
  /\ found # <<>> => found = target.path
  /\ seek \notin {"begin", "asked"} /\ promised > 0 => IsItsAddress
  /\ seek = "done" /\ named \in {"any", target.coin} /\ IsItsAddress =>
       ((found = target.path) <=>
          IF path # <<>> THEN path = target.path
          ELSE target.path.account < Accounts /\ target.path.index < Indexes)

(* The search covers what was stated before it ran: no key more, and none  *)
(* fewer where the address was not found.                                  *)
CoversWhatIsPromised ==
  /\ derived <= promised
  /\ seek = "done" /\ found = <<>> => derived = promised

(* A search finds the address where it is, and covers what it said.        *)
AddressIsFound == FoundWhereItIs /\ CoversWhatIsPromised
=============================================================================
