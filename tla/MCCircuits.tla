----------------------------- MODULE MCCircuits -----------------------------
(* Two platforms on one circuit and three builds: `rebuilt` vendors a later *)
(* release of the same code as `first`, `second` one with new code.         *)
EXTENDS Circuits

CONSTANTS x, github, bearer, first, rebuilt, second, codeA, codeB, elsewhere

PlatformVal == {x, github}
LaunchVal   == <<x, github>>
CircuitOfVal == [p \in PlatformVal |-> bearer]
BinaryVal   == {first, rebuilt, second}
VersionVal  == [b \in BinaryVal |-> CASE b = first -> 1 [] b = rebuilt -> 2 [] OTHER -> 3]
VendoredVal == [b \in BinaryVal |-> [c \in {bearer} |-> IF b = second THEN codeB ELSE codeA]]
ForeignCodeVal == [f \in {elsewhere} |-> codeB]
=============================================================================
