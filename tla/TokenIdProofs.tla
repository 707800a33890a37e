--------------------------- MODULE TokenIdProofs ---------------------------
(***************************************************************************)
(* Which token ids survive the conversions, for words of any width.        *)
(***************************************************************************)
EXTENDS TokenId, FiniteSetTheorems, TLAPS

LEMMA WordFacts ==
    /\ Half \in Nat /\ Half > 0
    /\ Word \in Nat /\ Word > 0 /\ Word = 2 * Half
    /\ Full \in Nat /\ Full >= Word
<1>1. PICK n \in 1..Full : Full = n * Word
  BY TokenIdAssumption
<1>2. Word \in Nat /\ Word > 0
  BY TokenIdAssumption DEF Word
<1>3. n * Word \in Nat /\ n * Word >= Word
  <2>1. n \in Nat /\ n - 1 \in Nat
    BY <1>1, TokenIdAssumption
  <2>2. (n - 1) * Word >= 0
    BY <1>2, <2>1
  <2>3. n * Word = (n - 1) * Word + Word
    BY <1>2, <2>1
  <2> QED BY <1>2, <2>1, <2>2, <2>3
<1> QED BY <1>1, <1>2, <1>3, TokenIdAssumption DEF Word

(* The remainder of a number that is written as quotient and remainder.    *)
LEMMA Remainder ==
    ASSUME NEW w \in Nat, w > 0, NEW k \in Nat, NEW r \in 0..(w - 1)
    PROVE  (k * w + r) % w = r
<1> DEFINE x == k * w + r
           q == x \div w
           m == x % w
<1>1. k * w \in Nat
  OBVIOUS
<1>2. x \in Nat
  BY <1>1
<1>3. q \in Int /\ m \in 0..(w - 1) /\ x = w * q + m
  BY <1>2
<1>4. w * (q - k) = r - m
  BY <1>1, <1>3
<1> HIDE DEF x, q, m
<1>5. CASE q = k
  BY <1>3, <1>4, <1>5 DEF x, m
<1>6. CASE q >= k + 1
  <2>1. w * (q - k) >= w
    BY <1>3, <1>6
  <2> QED BY <1>3, <1>4, <2>1
<1>7. CASE q <= k - 1
  <2>1. w * (k - q) >= w
    BY <1>3, <1>7
  <2>2. w * (k - q) = m - r
    BY <1>3, <1>4
  <2> QED BY <1>3, <2>1, <2>2
<1> QED BY <1>3, <1>5, <1>6, <1>7

(* ToUint64 gives 64 bits, and keeps what fits in them (event.go).         *)
LEMMA ToUint64Range ==
    ASSUME NEW x \in Nat
    PROVE  ToUint64(x) \in 0..(Word - 1) /\ (x < Word => ToUint64(x) = x)
BY WordFacts DEF ToUint64

(* The id minted is what the 64 bits say when their sign bit is clear, and *)
(* lies in the top 2^63 numbers of a uint256 otherwise.                    *)
LEMMA MintedIdValue ==
    ASSUME NEW v \in 0..(Word - 1)
    PROVE  /\ v < Half => MintedId(v) = v
           /\ v >= Half => MintedId(v) = v + (Full - Word)
           /\ MintedId(v) \in 0..(Full - 1)
BY WordFacts DEF MintedId, ToUint256, ToInt64

LEMMA MintedIdInjective ==
    ASSUME NEW v \in 0..(Word - 1), NEW u \in 0..(Word - 1), MintedId(v) = MintedId(u)
    PROVE  v = u
BY WordFacts DEF MintedId, ToUint256, ToInt64

(* The wrapped token has the id of the original exactly when the id is     *)
(* below 2^63 or among the top 2^63 numbers (event.go, bridge.go mint).    *)
THEOREM RoundTrip ==
    \A id \in 0..(Full - 1) :
        MintedId(ToUint64(id)) = id <=> id < Half \/ id >= Full - Half
<1> SUFFICES ASSUME NEW id \in 0..(Full - 1)
             PROVE  MintedId(ToUint64(id)) = id <=> id < Half \/ id >= Full - Half
  OBVIOUS
<1>1. PICK n \in 1..Full : Full = n * Word
  BY TokenIdAssumption
<1>2. id \in Nat /\ ToUint64(id) \in 0..(Word - 1)
  BY WordFacts, ToUint64Range
<1>3. CASE id < Half
  BY <1>2, <1>3, ToUint64Range, MintedIdValue, WordFacts
<1>4. CASE id >= Full - Half
  <2>1. id = (n - 1) * Word + (id - (Full - Word))
    BY <1>1, <1>2, WordFacts
  <2>2. id - (Full - Word) \in Half..(Word - 1)
    BY <1>2, <1>4, WordFacts
  <2>3. ToUint64(id) = id - (Full - Word)
    <3>1. n - 1 \in Nat /\ id - (Full - Word) \in 0..(Word - 1)
      BY <1>1, <2>2, WordFacts
    <3>2. ((n - 1) * Word + (id - (Full - Word))) % Word = id - (Full - Word)
      BY <3>1, WordFacts, Remainder
    <3> QED BY <2>1, <3>2 DEF ToUint64
  <2> QED BY <1>2, <1>4, <2>2, <2>3, MintedIdValue, WordFacts
<1>5. CASE ~(id < Half) /\ ~(id >= Full - Half)
  BY <1>2, <1>5, MintedIdValue, WordFacts
<1> QED BY <1>3, <1>4, <1>5

(* What goes through the conversions is of the width the code declares: an *)
(* event's numbers are words, and safeMint is asked for a uint256.         *)
THEOREM TokenIdTypeCorrect == Spec => []TypeOK
<1>1. Init => TypeOK
  BY DEF Init, TypeOK
<1>2. TypeOK /\ [Next]_vars => TypeOK'
  <2> SUFFICES ASSUME TypeOK, [Next]_vars PROVE TypeOK'
    OBVIOUS
  <2>1. ASSUME NEW id \in Ids, Deposit(id) PROVE TypeOK'
    <3>1. IsFiniteSet(0..(Full - 1))
      BY WordFacts, FS_Interval
    <3>2. IsFiniteSet(locked)
      BY <3>1, FS_Subset, TokenIdAssumption DEF TypeOK
    <3>3. Cardinality(locked) \in Nat
      BY <3>2, FS_CardinalityType
    <3>4. id \in Nat
      BY WordFacts, TokenIdAssumption
    <3>5. ToUint64(Cardinality(locked)) \in Nat /\ ToUint64(id) \in 0..(Word - 1)
      BY <3>3, <3>4, WordFacts, ToUint64Range
    <3> QED BY <2>1, <3>5 DEF TypeOK, Deposit, Event
  <2>2. ASSUME NEW e \in events, Mint(e) PROVE TypeOK'
    <3>1. e.tokenid \in 0..(Word - 1)
      BY DEF TypeOK, Event
    <3> QED BY <2>2, <3>1, MintedIdValue DEF TypeOK, Mint
  <2>3. CASE UNCHANGED vars
    BY <2>3 DEF TypeOK, vars
  <2> QED BY <2>1, <2>2, <2>3 DEF Next
<1> QED BY <1>1, <1>2, PTL DEF Spec

(***************************************************************************)
(* Deposits whose ids fit in 64 bits.                                      *)
(***************************************************************************)
IdsFit == Ids \subseteq 0..(Word - 1)

(* Each event carries the id of a locked token, and no two the same.       *)
EventsExact ==
    /\ events \subseteq [id : 0..(Word - 1), tokenid : locked]
    /\ \A e, f \in events : e.tokenid = f.tokenid => e = f

MintedFromEvents == \A n \in minted : \E v \in locked : n = MintedId(v)

TokenIdInv ==
    /\ locked \subseteq Ids
    /\ EventsExact
    /\ MintedFromEvents

LEMMA TokenIdStep ==
    ASSUME IdsFit, TokenIdInv, [Next]_vars
    PROVE  TokenIdInv'
<1>1. ASSUME NEW id \in Ids, Deposit(id)
      PROVE  TokenIdInv'
  <2>1. id \in 0..(Word - 1) /\ ToUint64(id) = id
    BY WordFacts, ToUint64Range DEF IdsFit
  <2>2. Cardinality(locked) \in Nat
    <3>1. IsFiniteSet(0..(Full - 1))
      BY WordFacts, FS_Interval
    <3>2. IsFiniteSet(locked)
      BY <3>1, FS_Subset, TokenIdAssumption DEF TokenIdInv
    <3> QED BY <3>2, FS_CardinalityType
  <2>3. ToUint64(Cardinality(locked)) \in 0..(Word - 1)
    BY <2>2, ToUint64Range
  <2>4. locked' \subseteq Ids
    BY <1>1 DEF TokenIdInv, Deposit
  <2>5. EventsExact'
    BY <1>1, <2>1, <2>3 DEF TokenIdInv, EventsExact, Deposit
  <2>6. MintedFromEvents'
    BY <1>1 DEF TokenIdInv, MintedFromEvents, Deposit
  <2> QED BY <2>4, <2>5, <2>6 DEF TokenIdInv
<1>2. ASSUME NEW e \in events, Mint(e)
      PROVE  TokenIdInv'
  BY <1>2 DEF TokenIdInv, EventsExact, MintedFromEvents, Mint
<1>3. CASE UNCHANGED vars
  BY <1>3 DEF TokenIdInv, EventsExact, MintedFromEvents, vars
<1> QED BY <1>1, <1>2, <1>3 DEF Next

(* When the contract's ids fit in 64 bits, no deposit is refused because   *)
(* another one has taken its wrapped token (bridge.go, mint).              *)
THEOREM NothingBlocked == IdsFit => (Spec => []NoneBlocked)
<1> SUFFICES ASSUME IdsFit PROVE Spec => []NoneBlocked
  OBVIOUS
<1>1. Init => TokenIdInv
  BY DEF Init, TokenIdInv, EventsExact, MintedFromEvents
<1>2. TokenIdInv /\ [Next]_vars => TokenIdInv'
  BY TokenIdStep
<1>3. TokenIdInv => NoneBlocked
  BY MintedIdInjective DEF NoneBlocked, TokenIdInv, EventsExact, IdsFit
<1> QED BY <1>1, <1>2, <1>3, PTL DEF Spec

(* ... and below 2^63 a wrapped token stands for the original with its id. *)
THEOREM SmallIdsKept == IdsFit => (Spec => []SmallIdsFaithful)
<1> SUFFICES ASSUME IdsFit PROVE Spec => []SmallIdsFaithful
  OBVIOUS
<1>1. Init => TokenIdInv
  BY DEF Init, TokenIdInv, EventsExact, MintedFromEvents
<1>2. TokenIdInv /\ [Next]_vars => TokenIdInv'
  BY TokenIdStep
<1>3. TokenIdInv => SmallIdsFaithful
  <2> SUFFICES ASSUME TokenIdInv, NEW n \in minted, n < Half PROVE n \in locked
    BY DEF SmallIdsFaithful
  <2>1. PICK v \in locked : n = MintedId(v)
    BY DEF TokenIdInv, MintedFromEvents
  <2>2. v \in 0..(Word - 1)
    BY DEF TokenIdInv, IdsFit
  <2>3. v < Half
    BY <2>1, <2>2, MintedIdValue, WordFacts
  <2> QED BY <2>1, <2>2, <2>3, MintedIdValue
<1> QED BY <1>1, <1>2, <1>3, PTL DEF Spec

=============================================================================
