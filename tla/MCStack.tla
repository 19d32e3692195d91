------------------------------- MODULE MCStack -------------------------------
(* Two files that differ in everything they can; older releases that lack   *)
(* the getters plan gives advice about, two it does not read, or one whose  *)
(* warning names no remedy; no upgrade, or a list that leaves a proxy out   *)
(* and names another one twice.                                             *)
EXTENDS Stack

CONSTANTS a, b

FilesVal == {[signer |-> a, fee |-> a, recipient |-> None],
             [signer |-> b, fee |-> b, recipient |-> b]}
GenerationsVal == {{"recipient", "verifier", "registry", "nodeKeyed"},
                   {"nodeKeyed", "roots"}, {"notary"}}
UpgradesVal == {<<>>, <<"notary_service", "identity_registry", "notary_service">>}
=============================================================================
