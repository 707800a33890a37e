------------------------------ MODULE TokenId ------------------------------
(***************************************************************************)
(* What becomes of an NFT's id on its way from the bank's log to safeMint. *)
(* The id is a uint256; the event keeps 64 bits of it (event.go), and mint *)
(* makes a big integer of those 64 bits as a signed number (bridge.go),    *)
(* which the ABI encodes as 256 bits again.  One token contract; nothing   *)
(* is withdrawn and every event is handled.                                *)
(***************************************************************************)
EXTENDS Integers, FiniteSets

CONSTANTS
    Half,   \* 2^63
    Full,   \* 2^256
    Ids     \* ids of the token contract

Word == 2 * Half   \* 2^64

ASSUME TokenIdAssumption ==
    /\ Half \in Nat \ {0}
    /\ Full \in Nat
    /\ \E n \in 1..Full : Full = n * Word
    /\ Ids \subseteq 0..(Full - 1)

VARIABLES
    locked,   \* ids the bank holds
    events,   \* the events made of the bank's logs
    minted    \* ids of the wrapped tokens

vars == <<locked, events, minted>>

(* Bug: the field of the event is narrower.                                *)
ToUint64Narrow(x) == x % Half

(* uint64(x.Int64()): the low 64 bits of x.                                *)
ToUint64(x) == x % Word

(* int64(v): the 64 bits of v read as a signed number.                     *)
ToInt64(v) == IF v < Half THEN v ELSE v - Word

(* The ABI encodes a negative number by its two's complement.              *)
ToUint256(x) == IF x < 0 THEN x + Full ELSE x

(* Bug: the signed number is encoded by its absolute value.                *)
MintedIdUnsigned(v) == IF ToInt64(v) < 0 THEN 0 - ToInt64(v) ELSE ToInt64(v)

(* Bug: the signed number is used as it is.                                *)
MintedIdSigned(v) == ToInt64(v)

(* The id safeMint is called with.                                         *)
MintedId(v) == ToUint256(ToInt64(v))

Event == [id : Nat, tokenid : 0..(Word - 1)]

TypeOK ==
    /\ locked \subseteq Ids
    /\ events \subseteq Event
    /\ minted \subseteq 0..(Full - 1)

Init ==
    /\ locked = {}
    /\ events = {}
    /\ minted = {}

(* depositNFT and ToEventNFTDeposited.                                     *)
Deposit(id) ==
    /\ id \notin locked
    /\ locked' = locked \cup {id}
    /\ events' = events \cup {[id |-> ToUint64(Cardinality(locked)), tokenid |-> ToUint64(id)]}
    /\ UNCHANGED minted

(* mint, and safeMint of an id that does not exist.                        *)
Mint(e) ==
    /\ MintedId(e.tokenid) \notin minted
    /\ minted' = minted \cup {MintedId(e.tokenid)}
    /\ UNCHANGED <<locked, events>>

Next ==
    \/ \E id \in Ids : Deposit(id)
    \/ \E e \in events : Mint(e)

Spec == Init /\ [][Next]_vars

(***************************************************************************)
(* Properties.                                                             *)
(***************************************************************************)

(* When ids fit in 64 bits, a wrapped token whose id is below 2^63 stands  *)
(* for a locked token with the same id.                                    *)
SmallIdsFaithful == \A n \in minted : n < Half => n \in locked

(* No two deposits ask for the same wrapped token: safeMint would refuse   *)
(* the second, whose deposit could never be minted.                        *)
NoneBlocked ==
    \A e, f \in events : MintedId(e.tokenid) = MintedId(f.tokenid) => e = f

=============================================================================
