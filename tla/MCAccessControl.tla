-------------------------- MODULE MCAccessControl --------------------------
(* Small instances of AccessControl for TLC.                               *)
EXTENDS AccessControl, TLC

CONSTANTS alice, bob, c1, c2, admin, bankRole, bridgeRole, bank, bridge

(* Each contract asks for its own role.                                    *)
BothRoles == [reg \in Registries |-> IF reg = bank THEN bankRole ELSE bridgeRole]

=============================================================================
