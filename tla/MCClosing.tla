------------------------------ MODULE MCClosing ------------------------------
(* A file that leaves the deployer out, one that lists it among two, and    *)
(* one that keeps it able to sign alone.                                    *)
EXTENDS Closing

CONSTANTS deployer, alice, bob

OwnerVal == {deployer, alice, bob}
DeclarableVal == {[owners |-> <<alice, bob>>, threshold |-> 2],
                  [owners |-> <<deployer, alice>>, threshold |-> 2],
                  [owners |-> <<alice, deployer>>, threshold |-> 1]}
=============================================================================
