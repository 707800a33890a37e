----------------------------- MODULE MCRelayer -----------------------------
(* Small instances of Relayer for TLC.                                     *)
EXTENDS Relayer, TLC

CONSTANTS tokA, tokB, w1, w2

(* Kinds of the deposits, by event number.                                 *)
KindsOneERC20 == <<SlotERC20>>
KindsOneEach == <<SlotERC20, SlotNFT>>
KindsERC20 == <<SlotERC20, SlotERC20>>

TokensOne == <<tokA>>
TokensOneEach == <<tokA, tokB>>

AllOriginal == [t \in Tokens |-> "ORIGINAL"]

OneUnpaired == [t \in Tokens |-> IF t = tokA THEN "ORIGINAL" ELSE "none"]

(* An instance whose nonces are used up may stand still where the daemon    *)
(* would take the next one; the step changes nothing, so TLC looks for     *)
(* deadlocks everywhere else.                                              *)
NoncesUsedUp == pc = "mint" /\ nonce = MaxNonce /\ UNCHANGED vars
BoundedSpec == Init /\ [][Next \/ NoncesUsedUp]_vars

(* The workers are interchangeable; the liveness runs do not use it.       *)
Symmetry == Permutations(Workers)
=============================================================================
