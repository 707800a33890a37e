-------------------------- MODULE UnmarshalProofs --------------------------
(***************************************************************************)
(* What the encoder writes and how Unmarshal reads, for every word size and *)
(* for every byte string.                                                   *)
(***************************************************************************)
EXTENDS Unmarshal, SequenceTheorems, WellFoundedInduction, TLAPS

(* Induction over data, on sets of numbers.                                  *)

Less == {p \in Nat \X Nat : p[1] < p[2]}

\* Every set of naturals that is not empty has a least element: the form of
\* induction that needs no operator as a parameter.
LEMMA LeastElement ==
    ASSUME NEW T \in SUBSET Nat, T # {}
    PROVE  \E n \in T : \A k \in T : n <= k
<1>1. IsWellFoundedOn(Less, Nat)
  BY NatLessThanWellFounded DEF OpToRel, Less
<1>2. PICK n \in T : \A k \in T : <<k, n>> \notin Less
  BY <1>1, WFMin
<1>3. ASSUME NEW k \in T PROVE n <= k
  <2>1. <<k, n>> \in Nat \X Nat /\ <<k, n>> \notin Less
    BY <1>2, <1>3
  <2>2. ~(k < n)
    BY <2>1 DEF Less
  <2> QED BY <2>2
<1> QED BY <1>2, <1>3

\* A set with 0 and with the successor of each of its elements is all of Nat.
LEMMA SetInduction ==
    ASSUME NEW T \in SUBSET Nat, 0 \in T, \A n \in T : n + 1 \in T
    PROVE  T = Nat
<1>1. SUFFICES ASSUME Nat \ T # {} PROVE FALSE
  OBVIOUS
<1>2. PICK n \in Nat \ T : \A k \in Nat \ T : n <= k
  BY LeastElement, <1>1
<1>3. n # 0 /\ n - 1 \in Nat
  BY <1>2
<1>4. n - 1 \in T
  BY <1>2, <1>3
<1>5. (n - 1) + 1 \in T
  BY <1>4
<1> QED BY <1>2, <1>5

\* f is, at n, what a recursion with these parts makes it.
Recursion(f, n, base, step, prev, limit) ==
    f[n] = IF n < limit THEN base[n] ELSE step[n][f[prev[n]]]

\* A recursion that goes down to a smaller number defines a function.
LEMMA RecursiveFunction ==
    ASSUME NEW S, NEW limit \in Nat \ {0}, NEW base \in [Nat -> S],
           NEW step \in [Nat -> [S -> S]], NEW prev \in [Nat -> Nat],
           \A n \in Nat : n >= limit => prev[n] < n
    PROVE  \E f \in [Nat -> S] : \A n \in Nat : Recursion(f, n, base, step, prev, limit)
<1> DEFINE Approx(n) == {g \in [0..n -> S] : \A i \in 0..n : Recursion(g, i, base, step, prev, limit)}
           T == {n \in Nat : Approx(n) # {}}
<1>1. 0 \in T
  <2>1. [i \in 0..0 |-> base[i]] \in Approx(0)
    BY DEF Recursion
  <2> QED BY <2>1
<1>2. ASSUME NEW n \in T PROVE n + 1 \in T
  <2>1. PICK g \in [0..n -> S] : \A i \in 0..n : Recursion(g, i, base, step, prev, limit)
    BY <1>2
  <2>2. n \in Nat
    BY <1>2
  <2> DEFINE x == IF n + 1 < limit THEN base[n + 1] ELSE step[n + 1][g[prev[n + 1]]]
             h == [i \in 0..(n + 1) |-> IF i <= n THEN g[i] ELSE x]
  <2>3. n + 1 >= limit => prev[n + 1] \in 0..n
    BY <2>2
  <2>4. x \in S
    BY <2>1, <2>2, <2>3
  <2>5. h \in [0..(n + 1) -> S]
    <3> HIDE DEF x
    <3> QED BY <2>1, <2>2, <2>4
  <2>6. ASSUME NEW i \in 0..(n + 1) PROVE Recursion(h, i, base, step, prev, limit)
    <3>1. CASE i <= n
      <4>1. i >= limit => prev[i] \in 0..n
        BY <2>2, <3>1
      <4>2. Recursion(g, i, base, step, prev, limit)
        BY <2>1, <2>2, <3>1
      <4>3. h[i] = g[i] /\ (i >= limit => h[prev[i]] = g[prev[i]])
        BY <2>2, <3>1, <4>1
      <4> HIDE DEF h
      <4> QED BY <2>2, <4>2, <4>3 DEF Recursion
    <3>2. CASE i = n + 1
      <4>1. h[i] = x
        BY <2>2, <3>2
      <4>2. i >= limit => h[prev[i]] = g[prev[i]]
        BY <2>2, <2>3, <3>2
      <4> HIDE DEF h
      <4> QED BY <2>2, <3>2, <4>1, <4>2 DEF Recursion
    <3> QED BY <2>2, <3>1, <3>2
  <2>7. h \in Approx(n + 1)
    BY <2>5, <2>6
  <2> HIDE DEF h, Approx
  <2> QED BY <2>2, <2>7
<1>3. T = Nat
  <2> HIDE DEF T
  <2>1. T \in SUBSET Nat
    BY DEF T
  <2> QED BY <1>1, <1>2, <2>1, SetInduction
\* Two approximations agree where both are defined.
<1>4. ASSUME NEW n \in Nat, NEW k \in Nat, NEW g \in Approx(n), NEW h \in Approx(k),
             NEW i \in Nat, i <= n, i <= k
      PROVE  g[i] = h[i]
  <2> DEFINE D == {j \in Nat : j <= n /\ j <= k /\ g[j] # h[j]}
  <2>1. SUFFICES ASSUME D # {} PROVE FALSE
    BY <1>4
  <2>2. PICK j \in D : \A d \in D : j <= d
    <3> HIDE DEF D
    <3>1. D \in SUBSET Nat
      BY DEF D
    <3> QED BY <2>1, <3>1, LeastElement
  <2>3. j \in Nat /\ j \in 0..n /\ j \in 0..k /\ g[j] # h[j]
    BY <2>2
  <2>4. Recursion(g, j, base, step, prev, limit) /\ Recursion(h, j, base, step, prev, limit)
    BY <1>4, <2>3
  <2>5. j >= limit => prev[j] \in Nat /\ prev[j] < j /\ prev[j] \notin D
    BY <2>2, <2>3
  <2>6. ASSUME j >= limit PROVE g[prev[j]] = h[prev[j]]
    <3>0. PICK p \in Nat : p = prev[j] /\ p < j /\ p \notin D
      BY <2>5, <2>6
    <3>1. p <= n /\ p <= k
      <4>1. j \in Nat /\ j <= n /\ j <= k
        BY <2>3
      <4>2. p < j
        BY <3>0
      <4> HIDE DEF D
      <4> QED BY <4>1, <4>2
    <3> QED BY <3>0, <3>1, Zenon
  <2> HIDE DEF D
  <2> QED BY <2>3, <2>4, <2>6 DEF Recursion
<1> DEFINE G(n) == CHOOSE g \in Approx(n) : TRUE
           F == [n \in Nat |-> G(n)[n]]
<1>5. ASSUME NEW n \in Nat PROVE G(n) \in Approx(n)
  <2>1. Approx(n) # {}
    BY <1>3
  <2> HIDE DEF Approx
  <2> QED BY <2>1
<1>6. ASSUME NEW n \in Nat PROVE Recursion(F, n, base, step, prev, limit)
  <2>1. G(n) \in Approx(n)
    BY <1>5
  <2>2. Recursion(G(n), n, base, step, prev, limit)
    <3>1. n \in 0..n
      OBVIOUS
    <3> HIDE DEF G
    <3> QED BY <2>1, <3>1
  <2>3. ASSUME n >= limit PROVE G(n)[prev[n]] = F[prev[n]]
    <3>1. prev[n] \in Nat /\ prev[n] <= n
      BY <2>3
    <3>2. G(prev[n]) \in Approx(prev[n])
      BY <3>1, <1>5
    <3> HIDE DEF G, Approx
    <3>3. G(n)[prev[n]] = G(prev[n])[prev[n]]
      BY <1>4, <2>1, <3>1, <3>2
    <3> QED BY <3>1, <3>3
  <2>4. F[n] = G(n)[n]
    BY Zenon
  <2> HIDE DEF G, F
  <2> QED BY <2>2, <2>3, <2>4 DEF Recursion
<1>7. F \in [Nat -> S]
  <2>1. ASSUME NEW n \in Nat PROVE G(n)[n] \in S
    <3>1. G(n) \in [0..n -> S]
      BY <1>5
    <3> HIDE DEF G
    <3> QED BY <3>1
  <2> HIDE DEF G
  <2> QED BY <2>1
<1> HIDE DEF F
<1> QED BY <1>6, <1>7

-----------------------------------------------------------------------------
(* encodeVarint and sov.                                                     *)

\* The recursive function encodeVarint (event.pb.go:574) exists, so it is what its
\* definition says, and it writes bytes.
LEMMA EncodeVarintDef ==
    /\ encodeVarint \in [Nat -> Seq(Byte)]
    /\ \A v \in Nat : encodeVarint[v] =
          IF v < 128 THEN <<v>> ELSE <<128 + (v % 128)>> \o encodeVarint[v \div 128]
<1> DEFINE base == [v \in Nat |-> IF v < 128 THEN <<v>> ELSE <<>>]
           step == [v \in Nat |-> [s \in Seq(Byte) |-> <<128 + (v % 128)>> \o s]]
           prev == [v \in Nat |-> v \div 128]
           Body(f) == [v \in Nat |-> IF v < 128 THEN <<v>> ELSE <<128 + (v % 128)>> \o f[v \div 128]]
<1>1. base \in [Nat -> Seq(Byte)]
  <2>1. ASSUME NEW v \in Nat PROVE (IF v < 128 THEN <<v>> ELSE <<>>) \in Seq(Byte)
    <3>1. v < 128 => <<v>> \in Seq(Byte)
      BY DEF Byte
    <3>2. <<>> \in Seq(Byte)
      BY EmptySeq
    <3> QED BY <3>1, <3>2
  <2> QED BY <2>1
<1>2. step \in [Nat -> [Seq(Byte) -> Seq(Byte)]]
  <2>1. ASSUME NEW v \in Nat, NEW s \in Seq(Byte) PROVE <<128 + (v % 128)>> \o s \in Seq(Byte)
    <3>1. 128 + (v % 128) \in Byte
      BY DEF Byte
    <3>2. <<128 + (v % 128)>> \in Seq(Byte)
      BY <3>1
    <3> QED BY <3>2, ConcatProperties
  <2> QED BY <2>1
<1>3. prev \in [Nat -> Nat] /\ \A v \in Nat : v >= 128 => prev[v] < v
  OBVIOUS
<1>4. PICK f \in [Nat -> Seq(Byte)] : \A v \in Nat : Recursion(f, v, base, step, prev, 128)
  <2> HIDE DEF base, step, prev
  <2>1. 128 \in Nat \ {0}
    OBVIOUS
  <2> QED BY <1>1, <1>2, <1>3, <2>1, RecursiveFunction
<1>5. ASSUME NEW v \in Nat
      PROVE  f[v] = IF v < 128 THEN <<v>> ELSE <<128 + (v % 128)>> \o f[v \div 128]
  <2>1. Recursion(f, v, base, step, prev, 128)
    BY <1>4
  <2>2. base[v] = IF v < 128 THEN <<v>> ELSE <<>>
    OBVIOUS
  <2>3. prev[v] = v \div 128 /\ v \div 128 \in Nat
    OBVIOUS
  <2>4. \A s \in Seq(Byte) : step[v][s] = <<128 + (v % 128)>> \o s
    BY Zenon
  <2>5. f[v \div 128] \in Seq(Byte)
    BY <1>4, <2>3
  <2> HIDE DEF base, step, prev
  <2> QED BY <2>1, <2>2, <2>3, <2>4, <2>5 DEF Recursion
<1>6. f = Body(f)
  <2>1. f = [v \in Nat |-> f[v]]
    BY <1>4
  <2>2. \A v \in Nat : f[v] = IF v < 128 THEN <<v>> ELSE <<128 + (v % 128)>> \o f[v \div 128]
    BY <1>5
  <2> QED BY <2>1, <2>2, Zenon
<1>7. encodeVarint = Body(encodeVarint)
  BY <1>6, Zenon DEF encodeVarint
<1>8. \A v \in Nat : encodeVarint[v] =
          IF v < 128 THEN <<v>> ELSE <<128 + (v % 128)>> \o encodeVarint[v \div 128]
  BY <1>7, Zenon
<1>9. \A v \in Nat : encodeVarint[v] \in Seq(Byte)
  <2> DEFINE T == {v \in Nat : encodeVarint[v] \notin Seq(Byte)}
  <2>1. SUFFICES ASSUME T # {} PROVE FALSE
    OBVIOUS
  <2>2. PICK v \in T : \A k \in T : v <= k
    <3> HIDE DEF T
    <3>1. T \in SUBSET Nat
      BY DEF T
    <3> QED BY <2>1, <3>1, LeastElement
  <2>3. v \in Nat /\ encodeVarint[v] \notin Seq(Byte)
    OBVIOUS
  <2>4. CASE v < 128
    <3>1. <<v>> \in Seq(Byte)
      BY <2>3, <2>4 DEF Byte
    <3>2. encodeVarint[v] = <<v>>
      BY <1>8, <2>3, <2>4, Zenon
    <3> QED BY <2>3, <3>1, <3>2, Zenon
  <2>5. CASE v >= 128
    <3>1. v \div 128 \in Nat /\ v \div 128 < v
      BY <2>3, <2>5
    <3>2. encodeVarint[v \div 128] \in Seq(Byte)
      BY <2>2, <2>3, <3>1
    <3>3. step[v][encodeVarint[v \div 128]] \in Seq(Byte)
      <4> HIDE DEF step
      <4> QED BY <1>2, <2>3, <3>2
    <3>4. encodeVarint[v] = <<128 + (v % 128)>> \o encodeVarint[v \div 128]
      <4>1. ~(v < 128)
        BY <2>3, <2>5
      <4> QED BY <1>8, <2>3, <4>1, Zenon
    <3> QED BY <2>3, <3>2, <3>3, <3>4, Zenon
  <2> QED BY <2>3, <2>4, <2>5
<1>10. encodeVarint \in [Nat -> Seq(Byte)]
  BY <1>7, <1>9
<1> QED BY <1>8, <1>10

\* The same of BitLen.
LEMMA BitLenDef ==
    /\ BitLen \in [Nat -> Nat]
    /\ \A x \in Nat : BitLen[x] = IF x = 0 THEN 0 ELSE 1 + BitLen[x \div 2]
<1> DEFINE base == [x \in Nat |-> 0]
           step == [x \in Nat |-> [b \in Nat |-> 1 + b]]
           prev == [x \in Nat |-> x \div 2]
           Body(f) == [x \in Nat |-> IF x = 0 THEN 0 ELSE 1 + f[x \div 2]]
<1>1. base \in [Nat -> Nat] /\ step \in [Nat -> [Nat -> Nat]] /\ prev \in [Nat -> Nat]
  OBVIOUS
<1>2. \A x \in Nat : x >= 1 => prev[x] < x
  OBVIOUS
<1>3. PICK f \in [Nat -> Nat] : \A x \in Nat : Recursion(f, x, base, step, prev, 1)
  <2> HIDE DEF base, step, prev
  <2>1. 1 \in Nat \ {0}
    OBVIOUS
  <2> QED BY <1>1, <1>2, <2>1, RecursiveFunction
<1>4. \A x \in Nat : f[x] = IF x = 0 THEN 0 ELSE 1 + f[x \div 2]
  <2> SUFFICES ASSUME NEW x \in Nat PROVE f[x] = IF x = 0 THEN 0 ELSE 1 + f[x \div 2]
    OBVIOUS
  <2>1. Recursion(f, x, base, step, prev, 1)
    BY <1>3
  <2>2. base[x] = 0 /\ prev[x] = x \div 2 /\ x \div 2 \in Nat
    OBVIOUS
  <2>3. \A b \in Nat : step[x][b] = 1 + b
    BY Zenon
  <2>4. f[x \div 2] \in Nat
    BY <1>3, <2>2
  <2> HIDE DEF base, step, prev
  <2> QED BY <2>1, <2>2, <2>3, <2>4 DEF Recursion
<1>5. f = Body(f)
  <2>1. f = [x \in Nat |-> f[x]]
    BY <1>3
  <2> QED BY <2>1, <1>4, Zenon
<1>6. BitLen = Body(BitLen)
  BY <1>5, Zenon DEF BitLen
<1>7. \A x \in Nat : BitLen[x] = IF x = 0 THEN 0 ELSE 1 + BitLen[x \div 2]
  BY <1>6, Zenon
<1>8. \A x \in Nat : BitLen[x] \in Nat
  <2> DEFINE T == {x \in Nat : BitLen[x] \notin Nat}
  <2>1. SUFFICES ASSUME T # {} PROVE FALSE
    OBVIOUS
  <2>2. PICK x \in T : \A k \in T : x <= k
    <3> HIDE DEF T
    <3>1. T \in SUBSET Nat
      BY DEF T
    <3> QED BY <2>1, <3>1, LeastElement
  <2>3. x \in Nat /\ BitLen[x] \notin Nat
    OBVIOUS
  <2>4. x # 0
    <3>1. BitLen[0] = 0
      BY <1>7, Zenon
    <3> QED BY <2>3, <3>1
  <2>5. x \div 2 \in Nat /\ x \div 2 < x
    BY <2>3, <2>4
  <2>6. BitLen[x \div 2] \in Nat
    BY <2>2, <2>3, <2>5
  <2>7. BitLen[x] = 1 + BitLen[x \div 2]
    BY <1>7, <2>3, <2>4, Zenon
  <2> QED BY <2>3, <2>6, <2>7
<1>9. BitLen \in [Nat -> Nat]
  BY <1>6, <1>8
<1> QED BY <1>7, <1>9

\* Seven bits fewer are a BitLen of seven less.
LEMMA BitLenShift ==
    ASSUME NEW x \in Nat, x >= 64
    PROVE  BitLen[x] = 7 + BitLen[x \div 128]
<1>1. ASSUME NEW y \in Nat, y # 0
      PROVE  BitLen[y] = 1 + BitLen[y \div 2] /\ BitLen[y \div 2] \in Nat /\ y \div 2 \in Nat
  <2>1. y \div 2 \in Nat
    OBVIOUS
  <2>2. BitLen[y] = 1 + BitLen[y \div 2]
    BY <1>1, BitLenDef, Zenon
  <2> QED BY <2>1, <2>2, BitLenDef
<1>2. ASSUME NEW y \in Nat, y >= 4
      PROVE  /\ BitLen[y] = 2 + BitLen[y \div 4] /\ BitLen[y \div 4] \in Nat
             /\ y \div 4 \in Nat /\ y \div 4 # 0
  <2>1. y \div 2 \in Nat /\ y # 0 /\ y \div 2 # 0 /\ (y \div 2) \div 2 = y \div 4 /\ y \div 4 # 0
    BY <1>2
  <2>2. BitLen[y] = 1 + BitLen[y \div 2]
    BY <2>1, <1>1
  <2>3. /\ BitLen[y \div 2] = 1 + BitLen[y \div 4] /\ BitLen[y \div 4] \in Nat
        /\ y \div 4 \in Nat
    BY <2>1, <1>1
  <2> QED BY <2>1, <2>2, <2>3
<1>3. /\ BitLen[x] = 2 + BitLen[x \div 4] /\ BitLen[x \div 4] \in Nat
  BY <1>2
<1>4. /\ BitLen[x \div 4] = 2 + BitLen[x \div 16] /\ BitLen[x \div 16] \in Nat
  <2>1. x \div 4 \in Nat /\ x \div 4 >= 4 /\ (x \div 4) \div 4 = x \div 16
    OBVIOUS
  <2> QED BY <2>1, <1>2
<1>5. /\ BitLen[x \div 16] = 2 + BitLen[x \div 64] /\ BitLen[x \div 64] \in Nat
  <2>1. x \div 16 \in Nat /\ x \div 16 >= 4 /\ (x \div 16) \div 4 = x \div 64
    OBVIOUS
  <2> QED BY <2>1, <1>2
<1>6. /\ BitLen[x \div 64] = 1 + BitLen[x \div 128] /\ BitLen[x \div 128] \in Nat
  <2>1. x \div 64 \in Nat /\ x \div 64 # 0 /\ (x \div 64) \div 2 = x \div 128
    OBVIOUS
  <2> QED BY <2>1, <1>1
<1> QED BY <1>3, <1>4, <1>5, <1>6

\* A number that fits in seven bits has one to seven of them.
LEMMA BitLenSmall ==
    ASSUME NEW x \in Nat, x < 128, x # 0
    PROVE  BitLen[x] \in 1..7
<1>1. \A y \in Nat : BitLen[y] = (IF y = 0 THEN 0 ELSE 1 + BitLen[y \div 2]) /\ BitLen[y] \in Nat
  BY BitLenDef
<1> DEFINE Bounded(lim, b) == \A y \in Nat : y < lim => BitLen[y] <= b
<1>2. Bounded(1, 0)
  BY <1>1
<1>3. ASSUME NEW lim \in Nat, NEW b \in Nat, Bounded(lim, b)
      PROVE  Bounded(2 * lim, b + 1)
  <2> SUFFICES ASSUME NEW y \in Nat, y < 2 * lim PROVE BitLen[y] <= b + 1
    OBVIOUS
  <2>1. CASE y = 0
    BY <1>1, <2>1
  <2>2. CASE y # 0
    <3>1. y \div 2 \in Nat /\ y \div 2 < lim
      OBVIOUS
    <3>2. BitLen[y \div 2] <= b /\ BitLen[y \div 2] \in Nat
      BY <1>1, <1>3, <3>1
    <3>3. BitLen[y] = 1 + BitLen[y \div 2]
      BY <1>1, <2>2, Zenon
    <3> QED BY <3>2, <3>3
  <2> QED BY <2>1, <2>2
<1> HIDE DEF Bounded
<1>4. Bounded(2, 1) /\ Bounded(4, 2) /\ Bounded(8, 3) /\ Bounded(16, 4) /\ Bounded(32, 5)
      /\ Bounded(64, 6) /\ Bounded(128, 7)
  <2>1. Bounded(2, 1)
    BY <1>2, <1>3
  <2>2. Bounded(4, 2)
    BY <2>1, <1>3
  <2>3. Bounded(8, 3)
    BY <2>2, <1>3
  <2>4. Bounded(16, 4)
    BY <2>3, <1>3
  <2>5. Bounded(32, 5)
    BY <2>4, <1>3
  <2>6. Bounded(64, 6)
    BY <2>5, <1>3
  <2> QED BY <2>1, <2>2, <2>3, <2>4, <2>5, <2>6, <1>3
<1>5. BitLen[x] <= 7
  BY <1>4 DEF Bounded
<1>6. BitLen[x] = 1 + BitLen[x \div 2] /\ BitLen[x \div 2] \in Nat
  BY <1>1, x \div 2 \in Nat
<1> QED BY <1>5, <1>6

\* sov counts groups of seven bits.
LEMMA SovStep ==
    /\ \A v \in 0..127 : sov(v) = 1
    /\ \A v \in Nat : v >= 128 => sov(v) = 1 + sov(v \div 128)
<1>1. ASSUME NEW v \in 0..127 PROVE sov(v) = 1
  <2>1. PICK x \in Nat : x = IF v = 0 THEN 1 ELSE v
    OBVIOUS
  <2>2. BitLen[x] \in 1..7
    BY <2>1, BitLenSmall
  <2> QED BY <2>1, <2>2 DEF sov
<1>2. ASSUME NEW v \in Nat, v >= 128 PROVE sov(v) = 1 + sov(v \div 128)
  <2>1. v # 0 /\ v \div 128 \in Nat /\ v \div 128 # 0
    BY <1>2
  <2>2. BitLen[v] = 7 + BitLen[v \div 128]
    BY <1>2, BitLenShift
  <2>3. BitLen[v \div 128] \in Nat
    BY <2>1, BitLenDef
  <2> QED BY <2>1, <2>2, <2>3 DEF sov
<1> QED BY <1>1, <1>2

\* The bytes encodeVarint writes are as many as sov reserves.
LEMMA SovExact ==
    ASSUME NEW v \in Nat PROVE Len(encodeVarint[v]) = sov(v)
<1> DEFINE T == {x \in Nat : Len(encodeVarint[x]) # sov(x)}
<1>1. SUFFICES ASSUME T # {} PROVE FALSE
  OBVIOUS
<1>2. PICK x \in T : \A k \in T : x <= k
  <2> HIDE DEF T
  <2>1. T \in SUBSET Nat
    BY DEF T
  <2> QED BY <1>1, <2>1, LeastElement
<1>3. x \in Nat /\ Len(encodeVarint[x]) # sov(x)
  OBVIOUS
<1>4. CASE x < 128
  <2>1. encodeVarint[x] = <<x>>
    BY <1>3, <1>4, EncodeVarintDef, Zenon
  <2>2. sov(x) = 1
    <3>1. x \in 0..127
      BY <1>3, <1>4
    <3> QED BY <3>1, SovStep
  <2> QED BY <1>3, <2>1, <2>2
<1>5. CASE ~(x < 128)
  <2>1. x \div 128 \in Nat /\ x \div 128 < x /\ x >= 128
    BY <1>3, <1>5
  <2>2. PICK r \in Seq(Byte) : r = encodeVarint[x \div 128]
    BY <2>1, EncodeVarintDef
  <2>3. encodeVarint[x] = <<128 + (x % 128)>> \o r
    BY <1>3, <1>5, <2>2, EncodeVarintDef, Zenon
  <2>4. Len(r) = sov(x \div 128)
    BY <1>2, <1>3, <2>1, <2>2
  <2>5. Len(<<128 + (x % 128)>> \o r) = 1 + Len(r)
    <3>1. <<128 + (x % 128)>> \in Seq(Nat) /\ Len(<<128 + (x % 128)>>) = 1
      BY <1>3
    <3>2. r \in Seq(Nat) /\ Len(r) \in Nat
      <4>1. Byte \subseteq Nat
        BY DEF Byte
      <4> QED BY <4>1, SeqMonotonic, LenProperties
    <3> QED BY <3>1, <3>2, ConcatProperties
  <2>6. sov(x) = 1 + sov(x \div 128)
    BY <1>3, <2>1, SovStep
  <2> QED BY <1>3, <2>3, <2>4, <2>5, <2>6
<1> QED BY <1>4, <1>5

-----------------------------------------------------------------------------
(* The indices.                                                              *)

FieldSteps == {"field", "varint", "length", "check", "slice"}
SkipSteps == {"skip", "skipTag", "skipType", "skipVarint", "skipLength", "skipBytes",
              "skipEnd", "skipped", "unknown"}

\* The indices as they are used: iNdEx never leaves the slice, a field has read its
\* tag once it has one, skip is only negative where it is asked, and every open group
\* has its tag behind skip.
Types ==
    /\ IsSlice(dAtA)
    /\ wire \in 0..(Word - 1) /\ scale \in 1..(128 * Word)
    /\ iNdEx \in 0..l /\ preIndex \in 0..iNdEx /\ postIndex \in 0..l
    /\ skip \in -Sign..(Sign - 1) /\ depth \in 0..l
    /\ pc \in {"idle", "loop", "tag", "ok", "failed"} \cup FieldSteps \cup SkipSteps
Ahead ==
    /\ pc \in FieldSteps => iNdEx > preIndex
    /\ pc \in SkipSteps => iNdEx = preIndex
    /\ pc \in SkipSteps \ {"skipEnd"} => skip >= 0
    /\ pc \in {"skipType", "skipVarint", "skipLength", "skipBytes", "skipped"} => skip >= 1
    /\ pc \in {"slice", "unknown"} => postIndex \in iNdEx..l
    /\ pc = "unknown" => postIndex > iNdEx
    /\ pc = "skipEnd" => skip # 0
    /\ pc \in SkipSteps /\ skip >= 0 => depth <= skip
    /\ pc = "skipType" => depth < skip /\ skip <= l - iNdEx
IndexInv == Types /\ Ahead

\* Go's conversion of a word to an int is an int.
LEMMA SignedType ==
    ASSUME NEW u \in 0..(Word - 1) PROVE Signed(u) \in -Sign..(Sign - 1)
BY WireAssumption DEF Word, Signed

\* The sum of two ints is an int, and the sum itself when it is not negative.
LEMMA PlusType ==
    ASSUME NEW a \in -Sign..(Sign - 1), NEW b \in -Sign..(Sign - 1)
    PROVE  /\ Plus(a, b) \in -Sign..(Sign - 1)
           /\ a >= 0 /\ b >= 0 /\ Plus(a, b) >= 0 => Plus(a, b) = a + b
           /\ a >= 1 /\ b >= 0 => Plus(a, b) # 0
BY WireAssumption DEF Word, Plus

\* What a loop has read so far stays a word.
LEMMA OrType ==
    ASSUME Types, NEW u \in 0..(Word - 1), NEW i \in 0..(l - 1)
    PROVE  Or(u, i, Word) \in 0..(Word - 1)
<1>1. dAtA[i + 1] \in Byte
  BY DEF Types, IsSlice, l
<1>2. dAtA[i + 1] % 128 \in Nat
  BY <1>1 DEF Byte
<1>3. DEFINE sum == u + (dAtA[i + 1] % 128) * scale
<1>4. sum \in Nat
  <2>1. scale \in Nat /\ u \in Nat
    BY WireAssumption DEF Types, Word
  <2> QED BY <1>2, <2>1
<1>5. Word \in Nat \ {0}
  BY WireAssumption DEF Word
<1>6. sum % Word \in 0..(Word - 1)
  <2> HIDE DEF sum
  <2> QED BY <1>4, <1>5
<1> QED BY <1>6 DEF Or

\* A length that passes the checks ends inside the slice.
LEMMA LengthBounds ==
    ASSUME Types, NEW n \in -Sign..(Sign - 1), LengthOk(n)
    PROVE  n >= 0 /\ Plus(iNdEx, n) = iNdEx + n /\ iNdEx + n <= l
<1>1. iNdEx \in -Sign..(Sign - 1)
  BY WireAssumption DEF Types, IsSlice, l
<1> QED BY <1>1, PlusType DEF LengthOk, Types, IsSlice, l

\* One byte read moves its loop to the next byte or to the step after it.
LEMMA ReadByteMoves ==
    ASSUME Types, NEW i \in Nat, NEW after, ReadByte(i, l, after)
    PROVE  /\ i < l /\ scale' \in 1..(128 * Word)
           /\ pc' = pc \/ pc' = after
BY WireAssumption DEF Types, IsSlice, ReadByte, Stopped, Word, l

-----------------------------------------------------------------------------
\* The steps that read a field keep the invariant.
LEMMA FieldStepKeeps ==
    ASSUME IndexInv, FieldStep PROVE IndexInv'
<1> USE DEF indexVars, skipVars, FieldSteps, SkipSteps
<1>0. l \in Nat /\ l < Sign
  BY DEF IndexInv, Types, IsSlice, l
<1>f. ASSUME Fail PROVE IndexInv'
  BY <1>f DEF IndexInv, Types, IsSlice, Ahead, Fail, l
<1>1. CASE NextField
  BY <1>1, <1>0, WireAssumption DEF IndexInv, Types, IsSlice, Ahead, NextField, Word, l
<1>2. CASE ReadTag
  <2>1. iNdEx \in 0..(l - 1) /\ scale' \in 1..(128 * Word) /\ pc' \in {"tag", "field"}
    BY <1>2, <1>0, ReadByteMoves DEF IndexInv, Types, ReadTag
  <2>2. wire' \in 0..(Word - 1)
    BY <1>2, <2>1, OrType DEF IndexInv, Types, ReadTag
  <2> QED BY <1>2, <1>0, <2>1, <2>2 DEF IndexInv, Types, IsSlice, Ahead, ReadTag, l
<1>3. CASE ReadStopped
  BY <1>3, <1>f DEF ReadStopped
<1>4. CASE BadTag
  BY <1>4, <1>f DEF BadTag
<1>5. CASE StartVarint
  BY <1>5, <1>0 DEF IndexInv, Types, IsSlice, Ahead, StartVarint, FieldOf, l
<1>6. CASE ReadVarint
  <2>1. iNdEx \in 0..(l - 1) /\ scale' \in 1..(128 * Word) /\ pc' \in {"varint", "loop"}
    BY <1>6, <1>0, ReadByteMoves DEF IndexInv, Types, ReadVarint
  <2> QED BY <1>6, <1>0, <2>1 DEF IndexInv, Types, IsSlice, Ahead, ReadVarint, l
<1>7. CASE StartLength
  BY <1>7, <1>0, WireAssumption DEF IndexInv, Types, IsSlice, Ahead, StartLength, FieldOf, Word, l
<1>8. CASE ReadLength
  <2>1. iNdEx \in 0..(l - 1) /\ scale' \in 1..(128 * Word) /\ pc' \in {"length", "check"}
    BY <1>8, <1>0, ReadByteMoves DEF IndexInv, Types, ReadLength
  <2>2. wire' \in 0..(Word - 1)
    BY <1>8, <2>1, OrType DEF IndexInv, Types, ReadLength
  <2> QED BY <1>8, <1>0, <2>1, <2>2 DEF IndexInv, Types, IsSlice, Ahead, ReadLength, l
<1>9. CASE LengthTaken
  <2>1. Signed(wire) \in -Sign..(Sign - 1)
    BY SignedType DEF IndexInv, Types
  <2>2. postIndex' \in iNdEx..l
    BY <1>9, <1>0, <2>1, LengthBounds DEF IndexInv, Types, LengthTaken, CheckLength
  <2> QED BY <1>9, <1>0, <2>2 DEF IndexInv, Types, IsSlice, Ahead, LengthTaken, CheckLength, l
<1>10. CASE LengthRefused
  BY <1>10, <1>f DEF LengthRefused
<1>11. CASE TakeString
  BY <1>11, <1>0 DEF IndexInv, Types, IsSlice, Ahead, TakeString, TakeSlice, l
<1>12. CASE TakeTime
  <2>1. PICK t : TakeSlice("slice", "updated_at", Time(t))
    BY <1>12 DEF TakeTime
  <2> QED BY <2>1, <1>0 DEF IndexInv, Types, IsSlice, Ahead, TakeSlice, l
<1>13. CASE TakeTimeErr
  BY <1>13, <1>0 DEF IndexInv, Types, IsSlice, Ahead, TakeTimeErr, l
<1>14. CASE Finish
  BY <1>14, <1>0 DEF IndexInv, Types, IsSlice, Ahead, Finish, l
<1> QED BY <1>1, <1>2, <1>3, <1>4, <1>5, <1>6, <1>7, <1>8, <1>9, <1>10, <1>11, <1>12,
           <1>13, <1>14 DEF FieldStep

\* The steps that skip an unknown field keep it too.
LEMMA SkipStepKeeps ==
    ASSUME IndexInv, SkipStep PROVE IndexInv'
<1> USE DEF indexVars, skipVars, FieldSteps, SkipSteps
<1>0. l \in Nat /\ l < Sign /\ Sign \in Nat
  BY WireAssumption DEF IndexInv, Types, IsSlice, l
<1>f. ASSUME Fail PROVE IndexInv'
  BY <1>f DEF IndexInv, Types, IsSlice, Ahead, Fail, l
<1>g. ASSUME NEW s \in -Sign..(Sign - 1), NEW d \in 0..l, NEW step \in SkipSteps,
             SkipGoto(step, s, d), iNdEx = preIndex, wire' \in 0..(Word - 1),
             step \notin {"slice", "unknown", "skipType"},
             step # "skipEnd" => s >= 1, s # 0, s >= 0 => d <= s
      PROVE  IndexInv'
  BY <1>g, <1>0 DEF IndexInv, Types, IsSlice, Ahead, SkipGoto, l
<1>r. ASSUME NEW step \in {"skipTag", "skipVarint", "skipLength"},
             NEW after \in {"skipType", "skipEnd", "skipBytes"},
             SkipRead(step, after), wire' \in 0..(Word - 1)
      PROVE  IndexInv'
  <2>1. iNdEx + skip \in 0..(l - 1) /\ scale' \in 1..(128 * Word) /\ pc' \in {step, after}
    BY <1>r, <1>0, ReadByteMoves DEF IndexInv, Types, IsSlice, Ahead, SkipRead
  <2>2. skip >= 0 /\ iNdEx = preIndex
    BY <1>r DEF IndexInv, Ahead, SkipRead
  <2>3. pc = "skipVarint" \/ pc = "skipLength" => skip >= 1
    BY DEF IndexInv, Ahead
  <2> QED BY <1>r, <1>0, <2>1, <2>2, <2>3 DEF IndexInv, Types, IsSlice, Ahead, SkipRead, l
<1>o. ASSUME NEW step \in {"skipTag", "skipVarint", "skipLength"}, NEW after, SkipRead(step, after)
      PROVE  Or(wire, iNdEx + skip, Word) \in 0..(Word - 1)
  <2>1. iNdEx + skip \in 0..(l - 1)
    BY <1>o, <1>0, ReadByteMoves DEF IndexInv, Types, IsSlice, Ahead, SkipRead
  <2> QED BY <2>1, OrType DEF IndexInv, Types
<1>1. CASE StartSkip
  BY <1>1, <1>0 DEF IndexInv, Types, IsSlice, Ahead, StartSkip, l
<1>2. CASE SkipNext
  BY <1>2, <1>0, WireAssumption DEF IndexInv, Types, IsSlice, Ahead, SkipNext, Word, l
<1>3. CASE SkipStopped
  BY <1>3, <1>f DEF SkipStopped
<1>4. CASE SkipTag
  BY <1>4, <1>r, <1>o DEF SkipTag
<1>5. CASE SkipVarint
  BY <1>5, <1>r DEF SkipVarint, IndexInv, Types
<1>6. CASE SkipLength
  BY <1>6, <1>r, <1>o DEF SkipLength
<1>7. CASE SkipType
  <2>0. pc = "skipType" /\ iNdEx = preIndex /\ skip >= 1 /\ skip \in -Sign..(Sign - 1)
        /\ wire \in 0..(Word - 1) /\ depth \in 0..l /\ depth < skip /\ skip <= l - iNdEx
        /\ iNdEx \in 0..l
    BY <1>7 DEF IndexInv, Types, IsSlice, Ahead, SkipType
  <2>1. ASSUME NEW n \in {4, 8}
        PROVE  /\ Plus(skip, n) \in -Sign..(Sign - 1) /\ Plus(skip, n) # 0
               /\ Plus(skip, n) >= 0 => depth <= Plus(skip, n)
    <3>1. n \in -Sign..(Sign - 1) /\ n >= 0
      BY WireAssumption
    <3> HIDE DEF FieldSteps, SkipSteps
    <3> QED BY <3>1, <2>0, PlusType
  <2>2. CASE Fail
    BY <2>2, <1>f
  <2>3. CASE SkipGoto("skipVarint", skip, depth) /\ wire' = wire
    BY <2>3, <2>0, <1>0, <1>g
  <2>4. CASE SkipGoto("skipEnd", Plus(skip, 8), depth) /\ wire' = wire
    BY <2>4, <2>0, <2>1, <1>g
  <2>5. CASE SkipGoto("skipLength", skip, depth) /\ wire' = 0
    <3>1. wire' \in 0..(Word - 1)
      BY <2>5, WireAssumption DEF Word
    <3> QED BY <2>5, <3>1, <2>0, <1>0, <1>g
  <2>6. CASE wire' = wire /\ SkipGoto("skipEnd", skip, depth + 1)
    <3>1. depth + 1 \in 0..l /\ depth + 1 <= skip
      BY <2>0, <1>0
    <3> QED BY <2>6, <3>1, <2>0, <1>0, <1>g
  <2>8. CASE wire' = wire /\ depth > 0 /\ SkipGoto("skipEnd", skip, depth - 1)
    <3>1. depth - 1 \in 0..l /\ depth - 1 <= skip
      BY <2>8, <2>0, <1>0
    <3> QED BY <2>8, <3>1, <2>0, <1>0, <1>g
  <2>7. CASE SkipGoto("skipEnd", Plus(skip, 4), depth) /\ wire' = wire
    BY <2>7, <2>0, <2>1, <1>g
  <2> QED BY <1>7, <2>2, <2>3, <2>4, <2>5, <2>6, <2>7, <2>8 DEF SkipType
<1>8. CASE SkipBytes
  <2>0. pc = "skipBytes" /\ iNdEx = preIndex /\ skip >= 1 /\ skip \in -Sign..(Sign - 1)
        /\ Signed(wire) \in -Sign..(Sign - 1) /\ depth \in 0..l /\ depth <= skip
    BY <1>8, SignedType DEF IndexInv, Types, IsSlice, Ahead, SkipBytes
  <2>1. CASE Signed(wire) < 0
    BY <1>8, <2>1, <1>f DEF SkipBytes
  <2>2. CASE Signed(wire) >= 0
    <3>1. /\ Plus(skip, Signed(wire)) \in -Sign..(Sign - 1) /\ Plus(skip, Signed(wire)) # 0
          /\ Plus(skip, Signed(wire)) >= 0 => depth <= Plus(skip, Signed(wire))
      BY <2>0, <2>2, <1>0, PlusType
    <3>2. SkipGoto("skipEnd", Plus(skip, Signed(wire)), depth) /\ wire' = wire
      BY <1>8, <2>0, <2>2, <1>0 DEF SkipBytes
    <3> QED BY <3>1, <3>2, <2>0, <1>g DEF IndexInv, Types
  <2> QED BY <2>0, <2>1, <2>2, <1>0
<1>9. CASE SkipEnd
  <2>1. CASE skip < 0
    BY <1>9, <2>1, <1>f DEF SkipEnd
  <2>2. CASE skip >= 0
    BY <1>9, <2>2, <1>0 DEF IndexInv, Types, IsSlice, Ahead, SkipEnd, l
  <2> QED BY <2>1, <2>2, <1>0 DEF IndexInv, Types
<1>10. CASE SkipTaken
  <2>1. postIndex' = iNdEx + skip /\ postIndex' <= l /\ skip >= 1
    BY <1>10, <1>0, LengthBounds DEF IndexInv, Types, IsSlice, Ahead, SkipTaken, CheckLength
  <2> QED BY <1>10, <1>0, <2>1 DEF IndexInv, Types, IsSlice, Ahead, SkipTaken, CheckLength, l
<1>11. CASE SkipRefused
  BY <1>11, <1>f DEF SkipRefused
<1>12. CASE TakeUnknown
  BY <1>12, <1>0 DEF IndexInv, Types, IsSlice, Ahead, TakeUnknown, TakeSlice, l
<1> QED BY <1>1, <1>2, <1>3, <1>4, <1>5, <1>6, <1>7, <1>8, <1>9, <1>10, <1>11, <1>12
        DEF SkipStep


\* No step of a call breaks the invariant.
LEMMA NextIndexInv == IndexInv /\ [UnmarshalStep]_unmarshalVars => IndexInv'
<1> SUFFICES ASSUME IndexInv, [UnmarshalStep]_unmarshalVars PROVE IndexInv'
  OBVIOUS
<1>1. CASE UNCHANGED unmarshalVars
  BY <1>1 DEF IndexInv, Types, IsSlice, Ahead, unmarshalVars, indexVars, skipVars, l
<1> QED BY <1>1, FieldStepKeeps, SkipStepKeeps DEF UnmarshalStep

\* A call begins in it.
LEMMA CallIndexInv ==
    ASSUME NEW message, NEW data, IsSlice(data), NEW r, Call(message, data, r)
    PROVE  IndexInv'
BY WireAssumption DEF Call, IndexInv, Types, IsSlice, Ahead, FieldSteps, SkipSteps, Word, l

\* A state of the invariant reads inside its slice.
LEMMA IndexInvReads == IndexInv => ReadsInBounds
BY DEF IndexInv, Types, Ahead, ReadsInBounds, FieldSteps, SkipSteps, l

\* A step that ends a turn of the loop has got further.
LEMMA StepConsumes ==
    ASSUME IndexInv, UnmarshalStep, pc # "loop", pc' = "loop"
    PROVE  iNdEx' > preIndex
<1>1. l \in Nat /\ iNdEx \in 0..l /\ preIndex \in 0..iNdEx
  BY DEF IndexInv, Types, IsSlice, l
<1>2. CASE ReadVarint \/ TakeString \/ TakeTime \/ TakeUnknown
  BY <1>1, <1>2 DEF IndexInv, Ahead, FieldSteps, SkipSteps, ReadVarint, TakeString, TakeTime,
                    TakeUnknown, TakeSlice
<1>3. CASE ~(ReadVarint \/ TakeString \/ TakeTime \/ TakeUnknown)
  BY <1>3 DEF UnmarshalStep, FieldStep, SkipStep, Fail, ReadByte, NextField, ReadTag,
              ReadStopped, BadTag, StartVarint, StartLength, ReadLength, LengthTaken,
              LengthRefused, CheckLength, TakeTimeErr, Finish, StartSkip, SkipNext,
              SkipStopped, SkipTag, SkipVarint, SkipLength, SkipRead, SkipType, SkipGoto,
              SkipBytes, SkipEnd, SkipTaken, SkipRefused
<1> QED BY <1>2, <1>3

-----------------------------------------------------------------------------
(* The record.                                                               *)

Scalars == {"uint64", "uint32", "int32"}
FieldType(message, i) == Fields(message)[i].type

\* What the four messages have in common: their fields have different names, and a
\* time is called updated_at.
LEMMA FieldFacts ==
    ASSUME NEW message \in Messages, NEW i \in DOMAIN Fields(message)
    PROVE  /\ FieldType(message, i) \in Scalars \cup {"string", "time"}
           /\ Name(message, i) # "unrecognized"
           /\ FieldType(message, i) = "time" => Name(message, i) = "updated_at"
           /\ \A j \in DOMAIN Fields(message) : Name(message, j) = Name(message, i) => j = i
<1>1. CASE message = "erc20"
  BY <1>1 DEF Name, FieldType, Scalars, Fields, ERC20Fields, Field
<1>2. CASE message = "nft"
  BY <1>2 DEF Name, FieldType, Scalars, Fields, NFTFields, Field
<1>3. CASE message = "pair"
  BY <1>3 DEF Name, FieldType, Scalars, Fields, PairFields, Field
<1>4. CASE message = "block"
  BY <1>4 DEF Name, FieldType, Scalars, Fields, BlockFields, Field
<1> QED BY <1>1, <1>2, <1>3, <1>4 DEF Messages

\* Each message has a time.
LEMMA UpdatedAt ==
    ASSUME NEW message \in Messages
    PROVE  \E i \in DOMAIN Fields(message) :
              Name(message, i) = "updated_at" /\ FieldType(message, i) = "time"
<1>1. CASE message = "erc20"
  <2>1. /\ 7 \in DOMAIN Fields(message) /\ Name(message, 7) = "updated_at"
        /\ FieldType(message, 7) = "time"
    BY <1>1 DEF Name, FieldType, Fields, ERC20Fields, Field
  <2> QED BY <2>1
<1>2. CASE message = "nft"
  <2>1. /\ 7 \in DOMAIN Fields(message) /\ Name(message, 7) = "updated_at"
        /\ FieldType(message, 7) = "time"
    BY <1>2 DEF Name, FieldType, Fields, NFTFields, Field
  <2> QED BY <2>1
<1>3. CASE message = "pair"
  <2>1. /\ 5 \in DOMAIN Fields(message) /\ Name(message, 5) = "updated_at"
        /\ FieldType(message, 5) = "time"
    BY <1>3 DEF Name, FieldType, Fields, PairFields, Field
  <2> QED BY <2>1
<1>4. CASE message = "block"
  <2>1. /\ 3 \in DOMAIN Fields(message) /\ Name(message, 3) = "updated_at"
        /\ FieldType(message, 3) = "time"
    BY <1>4 DEF Name, FieldType, Fields, BlockFields, Field
  <2> QED BY <2>1
<1> QED BY <1>1, <1>2, <1>3, <1>4 DEF Messages

\* An assignment of a value of its type to a field leaves a record of the message.
LEMMA SetField ==
    ASSUME NEW message \in Messages, NEW r, IsRecord(message, r),
           NEW i \in DOMAIN Fields(message), NEW v \in Values(FieldType(message, i))
    PROVE  /\ IsRecord(message, [r EXCEPT ![Name(message, i)] = v])
           /\ [r EXCEPT ![Name(message, i)] = v][Name(message, i)] = v
<1> DEFINE names == {Name(message, j) : j \in DOMAIN Fields(message)} \cup {"unrecognized"}
           s == [r EXCEPT ![Name(message, i)] = v]
<1>1. r = [name \in names |-> r[name]]
  BY DEF IsRecord
<1>2. Name(message, i) \in names
  OBVIOUS
<1>3. s = [name \in names |-> IF name = Name(message, i) THEN v ELSE r[name]]
  <2> HIDE DEF names
  <2> QED BY <1>1, <1>2
<1>4. ASSUME NEW name \in names PROVE s[name] = IF name = Name(message, i) THEN v ELSE r[name]
  BY <1>3
<1>5. s = [name \in names |-> s[name]]
  <2> HIDE DEF names
  <2> QED BY <1>1
<1>6. ASSUME NEW j \in DOMAIN Fields(message)
      PROVE  s[Name(message, j)] \in Values(Fields(message)[j].type)
  <2>1. Name(message, j) \in names
    OBVIOUS
  <2>2. CASE j = i
    BY <2>1, <2>2, <1>4 DEF FieldType
  <2>3. CASE j # i
    <3>1. Name(message, j) # Name(message, i)
      BY <2>3, FieldFacts
    <3>2. s[Name(message, j)] = r[Name(message, j)]
      BY <2>1, <3>1, <1>4
    <3> QED BY <3>2 DEF IsRecord
  <2> QED BY <2>2, <2>3
<1>7. s.unrecognized = r.unrecognized
  <2>1. "unrecognized" \in names /\ Name(message, i) # "unrecognized"
    BY FieldFacts
  <2> QED BY <2>1, <1>4
<1> HIDE DEF s
<1>8. IsRecord(message, s)
  BY <1>5, <1>6, <1>7 DEF IsRecord
<1>9. s[Name(message, i)] = v
  BY <1>2, <1>4
<1> QED BY <1>8, <1>9 DEF s

\* The same for the bytes of unknown fields.
LEMMA SetUnknown ==
    ASSUME NEW message \in Messages, NEW r, IsRecord(message, r), NEW v \in Seq(Byte)
    PROVE  IsRecord(message, [r EXCEPT !["unrecognized"] = v])
<1> DEFINE names == {Name(message, j) : j \in DOMAIN Fields(message)} \cup {"unrecognized"}
           s == [r EXCEPT !["unrecognized"] = v]
<1>1. r = [name \in names |-> r[name]]
  BY DEF IsRecord
<1>2. "unrecognized" \in names
  OBVIOUS
<1>3. ASSUME NEW name \in names PROVE s[name] = IF name = "unrecognized" THEN v ELSE r[name]
  <2> HIDE DEF names
  <2> QED BY <1>1, <1>2
<1>4. s = [name \in names |-> s[name]]
  <2> HIDE DEF names
  <2> QED BY <1>1
<1>5. ASSUME NEW j \in DOMAIN Fields(message)
      PROVE  s[Name(message, j)] \in Values(Fields(message)[j].type)
  <2>1. Name(message, j) \in names /\ Name(message, j) # "unrecognized"
    BY FieldFacts
  <2>2. s[Name(message, j)] = r[Name(message, j)]
    BY <2>1, <1>3
  <2> QED BY <2>2 DEF IsRecord
<1>6. s.unrecognized = v
  BY <1>2, <1>3
<1> HIDE DEF s
<1>7. IsRecord(message, s)
  BY <1>4, <1>5, <1>6 DEF IsRecord
<1> QED BY <1>7 DEF s

\* The record Unmarshal fills is one of its message, and the field a varint or a length
\* is read for is one that has it.
RecordInv ==
    /\ msg \in Messages /\ IsRecord(msg, m)
    /\ field \in -Sign32..(Sign32 - 1)
    /\ pc = "varint" => Known /\ Type \in Scalars
    /\ pc \in {"length", "check", "slice"} => Known /\ Type \in {"string", "time"}

\* The same in 32 bits as in 64.
LEMMA OrType32 ==
    ASSUME Types, NEW u \in 0..(Word32 - 1), NEW i \in 0..(l - 1)
    PROVE  /\ Or(u, i, Word32) \in 0..(Word32 - 1)
           /\ Signed32(Or(u, i, Word32)) \in -Sign32..(Sign32 - 1)
<1>1. dAtA[i + 1] \in Byte
  BY DEF Types, IsSlice, l
<1>2. dAtA[i + 1] % 128 \in Nat
  BY <1>1 DEF Byte
<1>3. DEFINE sum == u + (dAtA[i + 1] % 128) * scale
<1>4. sum \in Nat
  <2>1. scale \in Nat /\ u \in Nat
    BY WireAssumption DEF Types, Word, Word32
  <2> QED BY <1>2, <2>1
<1>5. Word32 \in Nat \ {0}
  BY WireAssumption DEF Word32
<1>6. sum % Word32 \in 0..(Word32 - 1)
  <2> HIDE DEF sum
  <2> QED BY <1>4, <1>5
<1> QED BY <1>6, WireAssumption DEF Or, Signed32, Word32

\* A byte more of a varint leaves a value of the field's type.
LEMMA OrIntoType ==
    ASSUME Types, NEW i \in 0..(l - 1), i = iNdEx, Type \in Scalars, NEW v \in Values(Type)
    PROVE  OrInto(v) \in Values(Type)
<1>1. CASE Type = "uint64"
  <2>1. v \in 0..(Word - 1)
    BY <1>1 DEF Values
  <2>2. OrInto(v) = Or(v, iNdEx, Word)
    BY <1>1 DEF OrInto
  <2> QED BY <1>1, <2>1, <2>2, OrType DEF Values
<1>2. CASE Type = "uint32"
  <2>1. v \in 0..(Word32 - 1)
    BY <1>2 DEF Values
  <2>2. OrInto(v) = Or(v, iNdEx, Word32)
    BY <1>2 DEF OrInto
  <2> QED BY <1>2, <2>1, <2>2, OrType32 DEF Values
<1>3. CASE Type = "int32"
  <2>1. Unsigned32(v) \in 0..(Word32 - 1)
    BY <1>3, WireAssumption DEF Values, Unsigned32, Word32
  <2>2. OrInto(v) = Signed32(Or(Unsigned32(v), iNdEx, Word32))
    BY <1>3 DEF OrInto
  <2> QED BY <1>3, <2>1, <2>2, OrType32 DEF Values
<1> QED BY <1>1, <1>2, <1>3 DEF Scalars

\* A zero is a value of every scalar type.
LEMMA ZeroValue == \A type \in Scalars : 0 \in Values(type)
BY WireAssumption DEF Scalars, Values, Word, Word32

\* Unmarshal keeps the types of its record, whatever it reads into it.
LEMMA StepRecordInv ==
    ASSUME IndexInv, RecordInv, UnmarshalStep PROVE RecordInv'
<1> USE DEF indexVars, skipVars
<1>0. msg \in Messages /\ IsRecord(msg, m) /\ field \in -Sign32..(Sign32 - 1)
  BY DEF RecordInv
<1>k. ASSUME UNCHANGED <<msg, m, field>>, pc' \notin {"varint", "length", "check", "slice"}
      PROVE  RecordInv'
  BY <1>k DEF RecordInv
<1>a. ASSUME NEW i \in DOMAIN Fields(msg), NEW v \in Values(FieldType(msg, i)),
             m' = [m EXCEPT ![Name(msg, i)] = v], UNCHANGED <<msg, field>>,
             \/ pc' \in {"loop", "failed"}
             \/ pc' = "varint" /\ Known /\ Type \in Scalars
      PROVE  RecordInv'
  <2>1. IsRecord(msg, m')
    BY <1>a, <1>0, SetField
  <2> QED BY <1>a, <1>0, <2>1 DEF RecordInv, Known, Type
<1>1. CASE ReadTag
  <2>1. field' \in -Sign32..(Sign32 - 1)
    <3>1. iNdEx \in 0..(l - 1)
      BY <1>1, ReadByteMoves DEF IndexInv, Types, IsSlice, ReadTag, l
    <3>2. wire' \in 0..(Word - 1)
      BY <1>1, <3>1, OrType DEF IndexInv, Types, ReadTag
    <3>3. PICK w \in Nat : w = wire' \div 8
      <4>1. PICK u \in Nat : u = wire'
        BY <3>2, WireAssumption DEF Word
      <4>2. u \div 8 \in Nat
        OBVIOUS
      <4> QED BY <4>1, <4>2, Zenon
    <3>4. w % Word32 \in 0..(Word32 - 1)
      BY <3>3, WireAssumption DEF Word32
    <3>5. field' = Signed32(w % Word32)
      BY <1>1, <3>3 DEF ReadTag
    <3> QED BY <3>4, <3>5, WireAssumption DEF Signed32, Word32
  <2>2. pc' \in {"tag", "field"}
    BY <1>1 DEF ReadTag, ReadByte
  <2> QED BY <1>1, <1>0, <2>1, <2>2 DEF ReadTag, RecordInv
<1>2. CASE StartVarint
  <2>1. Known /\ Type \in Scalars /\ Type = FieldType(msg, field)
    <3>1. Known /\ WireType(Type) = 0 /\ Type = FieldType(msg, field)
      BY <1>2 DEF StartVarint, FieldOf, Type, FieldType
    <3>2. Type \in Scalars \cup {"string", "time"}
      BY <1>0, <3>1, FieldFacts DEF Known
    <3> QED BY <3>1, <3>2 DEF WireType, Scalars
  <2>2. 0 \in Values(FieldType(msg, field)) /\ field \in DOMAIN Fields(msg)
    BY <2>1, ZeroValue DEF Known
  <2> QED BY <1>2, <1>a, <2>1, <2>2 DEF StartVarint
<1>3. CASE ReadVarint
  <2>1. Known /\ Type \in Scalars /\ Type = FieldType(msg, field) /\ field \in DOMAIN Fields(msg)
    BY <1>3 DEF ReadVarint, RecordInv, Type, FieldType, Known
  <2>2. iNdEx \in 0..(l - 1) /\ pc' \in {"varint", "loop"}
    BY <1>3, ReadByteMoves DEF IndexInv, Types, IsSlice, ReadVarint, l
  <2>3. m[Name(msg, field)] \in Values(Type)
    BY <1>0, <2>1 DEF IsRecord, FieldType
  <2>4. OrInto(m[Name(msg, field)]) \in Values(Type)
    BY <2>1, <2>2, <2>3, OrIntoType DEF IndexInv
  <2>5. m' = [m EXCEPT ![Name(msg, field)] = OrInto(m[Name(msg, field)])]
    BY <1>3 DEF ReadVarint
  <2> QED BY <1>3, <1>a, <2>1, <2>2, <2>4, <2>5 DEF ReadVarint
<1>4. CASE StartLength
  <2>1. Known /\ WireType(Type) = 2 /\ Type = FieldType(msg, field)
    BY <1>4 DEF StartLength, FieldOf, Type, FieldType
  <2>2. Type \in Scalars \cup {"string", "time"}
    BY <1>0, <2>1, FieldFacts DEF Known
  <2>3. Type \in {"string", "time"}
    BY <2>1, <2>2 DEF WireType, Scalars
  <2> QED BY <1>4, <1>0, <2>1, <2>3 DEF StartLength, RecordInv, Known, Type
<1>5. CASE ReadLength
  <2>1. pc' \in {"length", "check"}
    BY <1>5 DEF ReadLength, ReadByte
  <2> QED BY <1>5, <2>1 DEF ReadLength, RecordInv, Known, Type
<1>6. CASE LengthTaken
  BY <1>6 DEF LengthTaken, CheckLength, RecordInv, Known, Type
<1>s. Slice \in Seq(Byte)
  BY DEF IndexInv, Types, IsSlice, Slice, l
<1>7. CASE TakeString
  <2>1. Known /\ Type = "string" /\ Type = FieldType(msg, field)
    BY <1>7 DEF TakeString, RecordInv, Type, FieldType
  <2>2. Slice \in Values(FieldType(msg, field)) /\ field \in DOMAIN Fields(msg)
    BY <2>1, <1>s DEF Values, Known
  <2> QED BY <1>7, <1>a, <2>1, <2>2 DEF TakeString, TakeSlice
<1>8. CASE TakeTime
  <2>1. PICK t \in Times : TakeSlice("slice", "updated_at", Time(t))
    BY <1>8 DEF TakeTime
  <2>2. PICK i \in DOMAIN Fields(msg) : Name(msg, i) = "updated_at" /\ FieldType(msg, i) = "time"
    BY <1>0, UpdatedAt
  <2>3. Time(t) \in Values(FieldType(msg, i))
    BY <2>2 DEF Values
  <2> QED BY <1>a, <2>1, <2>2, <2>3 DEF TakeSlice
<1>9. CASE TakeTimeErr
  <2>1. PICK i \in DOMAIN Fields(msg) : Name(msg, i) = "updated_at" /\ FieldType(msg, i) = "time"
    BY <1>0, UpdatedAt
  <2>2. PICK v : v = IF m.updated_at.nil THEN Time(ZeroTime) ELSE m.updated_at
    OBVIOUS
  <2>3. m["updated_at"] \in Values("time")
    BY <1>0, <2>1 DEF IsRecord, FieldType
  <2>4. v \in Values(FieldType(msg, i))
    BY <2>1, <2>2, <2>3, WireAssumption DEF Values
  <2>5. m' = [m EXCEPT !["updated_at"] = v]
    BY <1>9, <2>2 DEF TakeTimeErr
  <2> QED BY <1>9, <1>a, <2>1, <2>4, <2>5 DEF TakeTimeErr
<1>10. CASE TakeUnknown
  <2>1. m["unrecognized"] \in Seq(Byte)
    BY <1>0 DEF IsRecord
  <2>2. m["unrecognized"] \o Slice \in Seq(Byte)
    BY <2>1, <1>s, ConcatProperties
  <2>3. m' = [m EXCEPT !["unrecognized"] = m["unrecognized"] \o Slice]
    BY <1>10 DEF TakeUnknown, TakeSlice
  <2>4. IsRecord(msg, m')
    BY <1>0, <2>2, <2>3, SetUnknown
  <2> QED BY <1>10, <1>0, <2>4 DEF TakeUnknown, TakeSlice, RecordInv
<1>11. CASE ~(\/ ReadTag \/ StartVarint \/ ReadVarint \/ StartLength \/ ReadLength \/ LengthTaken
              \/ TakeString \/ TakeTime \/ TakeTimeErr \/ TakeUnknown)
  <2>1. UNCHANGED <<msg, m, field>> /\ pc' \notin {"varint", "length", "check", "slice"}
    BY <1>11 DEF UnmarshalStep, FieldStep, SkipStep, Fail, NextField, ReadStopped, BadTag,
                 LengthRefused, Finish, StartSkip, SkipNext, SkipStopped, SkipTag, SkipVarint,
                 SkipLength, SkipRead, ReadByte, SkipType, SkipGoto, SkipBytes, SkipEnd,
                 SkipTaken, CheckLength, SkipRefused
  <2> QED BY <2>1, <1>k
<1> QED BY <1>1, <1>2, <1>3, <1>4, <1>5, <1>6, <1>7, <1>8, <1>9, <1>10, <1>11

-----------------------------------------------------------------------------
(* Marshal and Size.                                                         *)

\* The types of each message's fields, by their names.
LEMMA ERC20Types ==
    ASSUME NEW r, IsRecord("erc20", r)
    PROVE  /\ r.id \in 0..(Word - 1) /\ r.token \in Seq(Byte) /\ r.sender \in Seq(Byte)
           /\ r.amount \in Seq(Byte) /\ r.retry \in 0..(Word32 - 1)
           /\ r.status \in -Sign32..(Sign32 - 1) /\ r.updated_at \in Values("time")
           /\ r.unrecognized \in Seq(Byte)
<1>1. Fields("erc20") = ERC20Fields /\ DOMAIN ERC20Fields = 1..7
  BY DEF Fields, ERC20Fields
<1>2. \A i \in 1..7 : r[ERC20Fields[i].name] \in Values(ERC20Fields[i].type)
  BY <1>1 DEF IsRecord, Name
<1>3. /\ r["id"] \in Values("uint64") /\ r["token"] \in Values("string")
      /\ r["sender"] \in Values("string") /\ r["amount"] \in Values("string")
      /\ r["retry"] \in Values("uint32") /\ r["status"] \in Values("int32")
      /\ r["updated_at"] \in Values("time")
  BY <1>2 DEF ERC20Fields, Field
<1> QED BY <1>3 DEF Values, IsRecord

\* The Go types of the fields of an NFT deposit, ...
LEMMA NFTTypes ==
    ASSUME NEW r, IsRecord("nft", r)
    PROVE  /\ r.id \in 0..(Word - 1) /\ r.token \in Seq(Byte) /\ r.sender \in Seq(Byte)
           /\ r.tokenid \in 0..(Word - 1) /\ r.retry \in 0..(Word32 - 1)
           /\ r.status \in -Sign32..(Sign32 - 1) /\ r.updated_at \in Values("time")
           /\ r.unrecognized \in Seq(Byte)
<1>1. Fields("nft") = NFTFields /\ DOMAIN NFTFields = 1..7
  BY DEF Fields, NFTFields
<1>2. \A i \in 1..7 : r[NFTFields[i].name] \in Values(NFTFields[i].type)
  BY <1>1 DEF IsRecord, Name
<1>3. /\ r["id"] \in Values("uint64") /\ r["token"] \in Values("string")
      /\ r["sender"] \in Values("string") /\ r["tokenid"] \in Values("uint64")
      /\ r["retry"] \in Values("uint32") /\ r["status"] \in Values("int32")
      /\ r["updated_at"] \in Values("time")
  BY <1>2 DEF NFTFields, Field
<1> QED BY <1>3 DEF Values, IsRecord

\* ... of a pair, ...
LEMMA PairTypes ==
    ASSUME NEW r, IsRecord("pair", r)
    PROVE  /\ r.inaddr \in Seq(Byte) /\ r.outaddr \in Seq(Byte)
           /\ r.intype \in -Sign32..(Sign32 - 1) /\ r.outtype \in -Sign32..(Sign32 - 1)
           /\ r.updated_at \in Values("time") /\ r.unrecognized \in Seq(Byte)
<1>1. Fields("pair") = PairFields /\ DOMAIN PairFields = 1..5
  BY DEF Fields, PairFields
<1>2. \A i \in 1..5 : r[PairFields[i].name] \in Values(PairFields[i].type)
  BY <1>1 DEF IsRecord, Name
<1>3. /\ r["inaddr"] \in Values("string") /\ r["outaddr"] \in Values("string")
      /\ r["intype"] \in Values("int32") /\ r["outtype"] \in Values("int32")
      /\ r["updated_at"] \in Values("time")
  BY <1>2 DEF PairFields, Field
<1> QED BY <1>3 DEF Values, IsRecord

\* ... and of a confirmed block.
LEMMA BlockTypes ==
    ASSUME NEW r, IsRecord("block", r)
    PROVE  /\ r.hash \in Seq(Byte) /\ r.number \in 0..(Word - 1)
           /\ r.updated_at \in Values("time") /\ r.unrecognized \in Seq(Byte)
<1>1. Fields("block") = BlockFields /\ DOMAIN BlockFields = 1..3
  BY DEF Fields, BlockFields
<1>2. \A i \in 1..3 : r[BlockFields[i].name] \in Values(BlockFields[i].type)
  BY <1>1 DEF IsRecord, Name
<1>3. /\ r["hash"] \in Values("string") /\ r["number"] \in Values("uint64")
      /\ r["updated_at"] \in Values("time")
  BY <1>2 DEF BlockFields, Field
<1> QED BY <1>3 DEF Values, IsRecord

\* One part of a message after another.
HasSize(bytes, n) == bytes \in Seq(Byte) /\ Len(bytes) = n

\* The length of two byte strings joined.
LEMMA SizeOfTwo ==
    ASSUME NEW a, NEW b, NEW i \in Nat, NEW j \in Nat, HasSize(a, i), HasSize(b, j)
    PROVE  HasSize(a \o b, i + j)
BY ConcatProperties DEF HasSize

\* A tag, or another byte.
LEMMA SizeOfTag ==
    ASSUME NEW tag \in Byte PROVE HasSize(<<tag>>, 1)
BY DEF HasSize

\* A varint, ...
LEMMA SizeOfVarint ==
    ASSUME NEW v \in Nat PROVE HasSize(encodeVarint[v], sov(v)) /\ sov(v) \in Nat
<1>1. encodeVarint[v] \in Seq(Byte) /\ Len(encodeVarint[v]) = sov(v)
  BY EncodeVarintDef, SovExact
<1> QED BY <1>1, LenProperties DEF HasSize

\* ... a field of one, ...
LEMMA SizeOfVarintField ==
    ASSUME NEW tag \in Byte, NEW v \in Int, v >= -Word
    PROVE  HasSize(VarintField(tag, v), VarintSize(v)) /\ VarintSize(v) \in Nat
<1>1. CASE v = 0
  <2>1. <<>> \in Seq(Byte) /\ Len(<<>>) = 0
    BY EmptySeq
  <2> QED BY <1>1, <2>1 DEF VarintField, VarintSize, HasSize
<1>2. CASE v # 0
  <2>1. PICK u \in Nat : u = Unsigned(v)
    <3>1. Unsigned(v) \in Nat
      BY WireAssumption DEF Unsigned, Word
    <3> QED BY <3>1, Zenon
  <2>2. HasSize(<<tag>> \o encodeVarint[u], 1 + sov(u)) /\ sov(u) \in Nat
    BY SizeOfTag, SizeOfVarint, SizeOfTwo
  <2> QED BY <1>2, <2>1, <2>2 DEF VarintField, VarintSize
<1> QED BY <1>1, <1>2

\* ... a length with its bytes, ...
LEMMA SizeOfBytes ==
    ASSUME NEW tag \in Byte, NEW s \in Seq(Byte)
    PROVE  /\ HasSize(<<tag>> \o encodeVarint[Len(s)] \o s, 1 + Len(s) + sov(Len(s)))
           /\ 1 + Len(s) + sov(Len(s)) \in Nat
<1>1. PICK n \in Nat : n = Len(s)
  <2>1. Len(s) \in Nat
    BY LenProperties
  <2> QED BY <2>1, Zenon
<1>2. HasSize(<<tag>> \o encodeVarint[n], 1 + sov(n)) /\ sov(n) \in Nat
  BY SizeOfTag, SizeOfVarint, SizeOfTwo
<1>3. HasSize(s, n)
  BY <1>1 DEF HasSize
<1>4. HasSize((<<tag>> \o encodeVarint[n]) \o s, (1 + sov(n)) + n)
  BY <1>2, <1>3, SizeOfTwo
<1>5. (1 + sov(n)) + n = 1 + n + sov(n) /\ 1 + n + sov(n) \in Nat
  BY <1>2
<1> QED BY <1>1, <1>4, <1>5

\* ... a field of a string, ...
LEMMA SizeOfStringField ==
    ASSUME NEW tag \in Byte, NEW s \in Seq(Byte)
    PROVE  HasSize(StringField(tag, s), StringSize(s)) /\ StringSize(s) \in Nat
<1>1. HasSize(<<>>, 0)
  BY EmptySeq DEF HasSize
<1> QED BY <1>1, SizeOfBytes DEF StringField, StringSize

\* ... and one of a time.
LEMMA SizeOfTimeField ==
    ASSUME NEW tag \in Byte, NEW t \in Values("time")
    PROVE  HasSize(TimeField(tag, t), TimeSize(t)) /\ TimeSize(t) \in Nat
<1>1. HasSize(<<>>, 0)
  BY EmptySeq DEF HasSize
<1>2. t.bytes \in Seq(Byte)
  <2>1. t = Nil \/ \E b \in Times : t = Time(b)
    BY DEF Values
  <2>2. ASSUME t = Nil PROVE t.bytes \in Seq(Byte)
    <3>1. t.bytes = <<>>
      BY <2>2 DEF Nil
    <3> QED BY <3>1, EmptySeq
  <2>3. ASSUME NEW b \in Times, t = Time(b) PROVE t.bytes \in Seq(Byte)
    <3>1. t.bytes = b
      BY <2>3 DEF Time
    <3> QED BY <3>1, WireAssumption DEF Byte
  <2> QED BY <2>1, <2>2, <2>3
<1> QED BY <1>1, <1>2, SizeOfBytes DEF TimeField, TimeSize

\* Four strings one after the other.
LEMMA SizeOfFour ==
    ASSUME NEW a, NEW b, NEW c, NEW d, NEW i \in Nat, NEW j \in Nat, NEW k \in Nat, NEW n \in Nat,
           HasSize(a, i), HasSize(b, j), HasSize(c, k), HasSize(d, n)
    PROVE  HasSize(a \o b \o c \o d, i + j + k + n) /\ i + j + k + n \in Nat
<1>1. HasSize(a \o b, i + j) /\ i + j \in Nat
  BY SizeOfTwo
<1>2. HasSize((a \o b) \o c, (i + j) + k) /\ (i + j) + k \in Nat
  BY <1>1, SizeOfTwo
<1>3. HasSize(((a \o b) \o c) \o d, ((i + j) + k) + n) /\ ((i + j) + k) + n \in Nat
  BY <1>2, SizeOfTwo
<1> QED BY <1>3

\* Size says of every record how many bytes Marshal writes (event.pb.go:586).
LEMMA SizeOfMessage ==
    ASSUME NEW message \in Messages, NEW r, IsRecord(message, r)
    PROVE  HasSize(Bytes(message, r), Size(message, r)) /\ Size(message, r) \in Nat
<1> DEFINE tags == {8, 10, 16, 18, 24, 26, 32, 34, 40, 42, 48, 58}
<1>0. /\ tags \subseteq Byte
      /\ \A v \in 0..(Word - 1) : v \in Int /\ v >= -Word
      /\ \A v \in 0..(Word32 - 1) : v \in Int /\ v >= -Word
      /\ \A v \in -Sign32..(Sign32 - 1) : v \in Int /\ v >= -Word
  BY WireAssumption DEF Byte, Word, Word32
<1>v. ASSUME NEW tag \in tags, NEW v, v \in 0..(Word - 1) \cup 0..(Word32 - 1) \cup -Sign32..(Sign32 - 1)
      PROVE  HasSize(VarintField(tag, v), VarintSize(v)) /\ VarintSize(v) \in Nat
  BY <1>v, <1>0, SizeOfVarintField
<1>s. ASSUME NEW tag \in tags, NEW s \in Seq(Byte)
      PROVE  HasSize(StringField(tag, s), StringSize(s)) /\ StringSize(s) \in Nat
  BY <1>0, SizeOfStringField
<1>t. ASSUME NEW tag \in tags, NEW t \in Values("time")
      PROVE  HasSize(TimeField(tag, t), TimeSize(t)) /\ TimeSize(t) \in Nat
  BY <1>0, SizeOfTimeField
<1>u. HasSize(r.unrecognized, Len(r.unrecognized)) /\ Len(r.unrecognized) \in Nat
  BY LenProperties DEF IsRecord, HasSize
<1>1. CASE message = "erc20"
  <2>0. IsRecord("erc20", r)
    BY <1>1
  <2> DEFINE first == VarintField(8, r.id) \o StringField(18, r.token) \o StringField(26, r.sender)
                      \o StringField(34, r.amount)
             firstSize == VarintSize(r.id) + StringSize(r.token) + StringSize(r.sender)
                          + StringSize(r.amount)
             second == VarintField(40, r.retry) \o VarintField(48, r.status)
  <2>1. HasSize(first, firstSize) /\ firstSize \in Nat
    BY <2>0, <1>v, <1>s, ERC20Types, SizeOfFour
  <2>2. /\ HasSize(VarintField(40, r.retry), VarintSize(r.retry)) /\ VarintSize(r.retry) \in Nat
        /\ HasSize(VarintField(48, r.status), VarintSize(r.status)) /\ VarintSize(r.status) \in Nat
        /\ HasSize(TimeField(58, r.updated_at), TimeSize(r.updated_at))
        /\ TimeSize(r.updated_at) \in Nat
    BY <2>0, <1>v, <1>t, ERC20Types
  <2> HIDE DEF first, firstSize
  <2>3. /\ HasSize(first \o VarintField(40, r.retry) \o VarintField(48, r.status)
                   \o TimeField(58, r.updated_at),
                   firstSize + VarintSize(r.retry) + VarintSize(r.status) + TimeSize(r.updated_at))
        /\ firstSize + VarintSize(r.retry) + VarintSize(r.status) + TimeSize(r.updated_at) \in Nat
    BY <2>1, <2>2, SizeOfFour
  <2>4. /\ HasSize(ERC20Bytes(r), ERC20Size(r)) /\ ERC20Size(r) \in Nat
    BY <2>3, <1>u, SizeOfTwo DEF first, firstSize, ERC20Bytes, ERC20Size
  <2> QED BY <1>1, <2>4 DEF Bytes, Size
<1>2. CASE message = "nft"
  <2>0. IsRecord("nft", r)
    BY <1>2
  <2> DEFINE first == VarintField(8, r.id) \o StringField(18, r.token) \o StringField(26, r.sender)
                      \o VarintField(32, r.tokenid)
             firstSize == VarintSize(r.id) + StringSize(r.token) + StringSize(r.sender)
                          + VarintSize(r.tokenid)
  <2>1. HasSize(first, firstSize) /\ firstSize \in Nat
    BY <2>0, <1>v, <1>s, NFTTypes, SizeOfFour
  <2>2. /\ HasSize(VarintField(40, r.retry), VarintSize(r.retry)) /\ VarintSize(r.retry) \in Nat
        /\ HasSize(VarintField(48, r.status), VarintSize(r.status)) /\ VarintSize(r.status) \in Nat
        /\ HasSize(TimeField(58, r.updated_at), TimeSize(r.updated_at))
        /\ TimeSize(r.updated_at) \in Nat
    BY <2>0, <1>v, <1>t, NFTTypes
  <2> HIDE DEF first, firstSize
  <2>3. /\ HasSize(first \o VarintField(40, r.retry) \o VarintField(48, r.status)
                   \o TimeField(58, r.updated_at),
                   firstSize + VarintSize(r.retry) + VarintSize(r.status) + TimeSize(r.updated_at))
        /\ firstSize + VarintSize(r.retry) + VarintSize(r.status) + TimeSize(r.updated_at) \in Nat
    BY <2>1, <2>2, SizeOfFour
  <2>4. /\ HasSize(NFTBytes(r), NFTSize(r)) /\ NFTSize(r) \in Nat
    BY <2>3, <1>u, SizeOfTwo DEF first, firstSize, NFTBytes, NFTSize
  <2> QED BY <1>2, <2>4 DEF Bytes, Size
<1>3. CASE message = "pair"
  <2>0. IsRecord("pair", r)
    BY <1>3
  <2> DEFINE first == StringField(10, r.inaddr) \o StringField(18, r.outaddr)
                      \o VarintField(24, r.intype) \o VarintField(32, r.outtype)
             firstSize == StringSize(r.inaddr) + StringSize(r.outaddr) + VarintSize(r.intype)
                          + VarintSize(r.outtype)
  <2>1. HasSize(first, firstSize) /\ firstSize \in Nat
    BY <2>0, <1>v, <1>s, PairTypes, SizeOfFour
  <2>2. HasSize(TimeField(42, r.updated_at), TimeSize(r.updated_at)) /\ TimeSize(r.updated_at) \in Nat
    BY <2>0, <1>t, PairTypes
  <2> HIDE DEF first, firstSize
  <2>3. /\ HasSize(first \o TimeField(42, r.updated_at), firstSize + TimeSize(r.updated_at))
        /\ firstSize + TimeSize(r.updated_at) \in Nat
    BY <2>1, <2>2, SizeOfTwo
  <2>4. /\ HasSize(PairBytes(r), PairSize(r)) /\ PairSize(r) \in Nat
    BY <2>3, <1>u, SizeOfTwo DEF first, firstSize, PairBytes, PairSize
  <2> QED BY <1>3, <2>4 DEF Bytes, Size
<1>4. CASE message = "block"
  <2>0. IsRecord("block", r)
    BY <1>4
  <2>1. /\ HasSize(StringField(10, r.hash), StringSize(r.hash)) /\ StringSize(r.hash) \in Nat
        /\ HasSize(VarintField(16, r.number), VarintSize(r.number)) /\ VarintSize(r.number) \in Nat
        /\ HasSize(TimeField(26, r.updated_at), TimeSize(r.updated_at))
        /\ TimeSize(r.updated_at) \in Nat
    BY <2>0, <1>v, <1>s, <1>t, BlockTypes
  <2>2. /\ HasSize(BlockBytes(r), BlockSize(r)) /\ BlockSize(r) \in Nat
    BY <2>1, <1>u, SizeOfFour DEF BlockBytes, BlockSize
  <2> QED BY <1>4, <2>2 DEF Bytes, Size
<1> QED BY <1>1, <1>2, <1>3, <1>4 DEF Messages

\* So Marshal returns what MarshalToSizedBuffer wrote, all of it.
LEMMA MarshalIsBytes ==
    ASSUME NEW message \in Messages, NEW r, IsRecord(message, r)
    PROVE  Marshal(message, r) = Bytes(message, r)
<1> DEFINE written == Bytes(message, r)
           unused == [i \in 1..(Size(message, r) - Len(written)) |-> 0]
<1>1. written \in Seq(Byte) /\ Size(message, r) - Len(written) = 0
  BY SizeOfMessage DEF HasSize
<1>2. unused = <<>>
  BY <1>1
<1>3. unused \o written = written
  BY <1>1, <1>2, ConcatEmptySeq
<1>4. SubSeq(written, 1, Len(written)) = written
  <2> HIDE DEF written
  <2> QED BY <1>1, SubSeqFull
<1> QED BY <1>3, <1>4 DEF Marshal
=============================================================================
