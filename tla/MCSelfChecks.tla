---------------------------- MODULE MCSelfChecks ----------------------------
(***************************************************************************)
(* SelfChecks with two clients whose Argon2 builds come from different     *)
(* scripts and a wallet class without Argon2, which shares a part.         *)
(***************************************************************************)
EXTENDS SelfChecks, TLC

CONSTANTS core1, core2, wallet, hashes, argon2, words, script1, script2

MCClients  == {core1, core2, wallet}
MCSetOf    == (core1 :> <<hashes, argon2>>) @@ (core2 :> <<hashes, argon2>>)
                @@ (wallet :> <<words, hashes>>)
MCSourceOf == (core1 :> script1) @@ (core2 :> script2) @@ (wallet :> script1)
=============================================================================
