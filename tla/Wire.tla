-------------------------------- MODULE Wire --------------------------------
(***************************************************************************)
(* The records the daemon keeps and their protobuf form: what Marshal       *)
(* writes, what Size reserves and which field numbers Unmarshal knows, each *)
(* translated from its own function of the generated code.  Strings are     *)
(* sequences of bytes.  Words are scaled: Sign stands for 2^63 and Sign32   *)
(* for 2^31; a byte has its 7 bits and the continuation bit.                *)
(***************************************************************************)
EXTENDS Integers, Sequences

CONSTANTS Sign,     \* 2^63: an int is in -Sign .. Sign - 1
          Sign32,   \* 2^31: the same for an int32
          Times,    \* the byte strings StdTimeMarshalTo writes
          ZeroTime  \* the one of time.Time{}

ASSUME WireAssumption ==
    /\ Sign \in Nat /\ Sign > 64 /\ Sign32 \in Nat /\ Sign32 > 8 /\ Sign32 <= Sign
    /\ Times \subseteq Seq(0..255) /\ ZeroTime \in Times

Word == 2 * Sign
Word32 == 2 * Sign32
Byte == 0..255

\* Go's conversions between the signed and the unsigned type of one width.
Signed(u) == IF u < Sign THEN u ELSE u - Word
Signed32(u) == IF u < Sign32 THEN u ELSE u - Word32
Unsigned(n) == IF n < 0 THEN n + Word ELSE n
Unsigned32(n) == IF n < 0 THEN n + Word32 ELSE n

\* Bug: an int of any size.
PlusUnwrapped(a, b) == a + b

\* The sum of two ints, which wraps around.
Plus(a, b) == IF a + b >= Sign THEN a + b - Word
              ELSE IF a + b < -Sign THEN a + b + Word ELSE a + b

-----------------------------------------------------------------------------
(* Records.  A *time.Time is nil or the bytes it marshals to.               *)

Nil == [nil |-> TRUE, bytes |-> <<>>]
Time(b) == [nil |-> FALSE, bytes |-> b]

ERC20Record(id, token, sender, amount, retry, status) ==
    [id |-> id, token |-> token, sender |-> sender, amount |-> amount,
     retry |-> retry, status |-> status, updated_at |-> Nil, unrecognized |-> <<>>]
NFTRecord(id, token, sender, tokenid, retry, status) ==
    [id |-> id, token |-> token, sender |-> sender, tokenid |-> tokenid,
     retry |-> retry, status |-> status, updated_at |-> Nil, unrecognized |-> <<>>]
PairRecord(inaddr, outaddr, intype, outtype) ==
    [inaddr |-> inaddr, outaddr |-> outaddr, intype |-> intype,
     outtype |-> outtype, updated_at |-> Nil, unrecognized |-> <<>>]
BlockRecord(hash, number) ==
    [hash |-> hash, number |-> number, updated_at |-> Nil, unrecognized |-> <<>>]

-----------------------------------------------------------------------------
(* MarshalToSizedBuffer.  It fills the buffer from its end, so the fields    *)
(* are read here in the order of the buffer.  A zero field is not written.  *)

encodeVarint[v \in Nat] ==
    IF v < 128 THEN <<v>> ELSE <<128 + (v % 128)>> \o encodeVarint[v \div 128]

VarintField(tag, v) == IF v = 0 THEN <<>> ELSE <<tag>> \o encodeVarint[Unsigned(v)]
StringField(tag, s) == IF s = <<>> THEN <<>> ELSE <<tag>> \o encodeVarint[Len(s)] \o s
TimeField(tag, t) ==
    IF t.nil THEN <<>> ELSE <<tag>> \o encodeVarint[Len(t.bytes)] \o t.bytes

ERC20Bytes(m) ==
    VarintField(8, m.id) \o StringField(18, m.token) \o StringField(26, m.sender)
    \o StringField(34, m.amount) \o VarintField(40, m.retry)
    \o VarintField(48, m.status) \o TimeField(58, m.updated_at) \o m.unrecognized
NFTBytes(m) ==
    VarintField(8, m.id) \o StringField(18, m.token) \o StringField(26, m.sender)
    \o VarintField(32, m.tokenid) \o VarintField(40, m.retry)
    \o VarintField(48, m.status) \o TimeField(58, m.updated_at) \o m.unrecognized
PairBytes(m) ==
    StringField(10, m.inaddr) \o StringField(18, m.outaddr) \o VarintField(24, m.intype)
    \o VarintField(32, m.outtype) \o TimeField(42, m.updated_at) \o m.unrecognized
BlockBytes(m) ==
    StringField(10, m.hash) \o VarintField(16, m.number)
    \o TimeField(26, m.updated_at) \o m.unrecognized

-----------------------------------------------------------------------------
(* Size.                                                                     *)

\* math/bits.Len64.
BitLen[x \in Nat] == IF x = 0 THEN 0 ELSE 1 + BitLen[x \div 2]

\* Bug: sov without rounding up.
sovFloor(x) == BitLen[IF x = 0 THEN 1 ELSE x] \div 7 + 1

sov(x) == (BitLen[IF x = 0 THEN 1 ELSE x] + 6) \div 7

VarintSize(v) == IF v = 0 THEN 0 ELSE 1 + sov(Unsigned(v))
StringSize(s) == IF s = <<>> THEN 0 ELSE 1 + Len(s) + sov(Len(s))
TimeSize(t) == IF t.nil THEN 0 ELSE 1 + Len(t.bytes) + sov(Len(t.bytes))

ERC20Size(m) ==
    VarintSize(m.id) + StringSize(m.token) + StringSize(m.sender)
    + StringSize(m.amount) + VarintSize(m.retry) + VarintSize(m.status)
    + TimeSize(m.updated_at) + Len(m.unrecognized)
NFTSize(m) ==
    VarintSize(m.id) + StringSize(m.token) + StringSize(m.sender)
    + VarintSize(m.tokenid) + VarintSize(m.retry) + VarintSize(m.status)
    + TimeSize(m.updated_at) + Len(m.unrecognized)
PairSize(m) ==
    StringSize(m.inaddr) + StringSize(m.outaddr) + VarintSize(m.intype)
    + VarintSize(m.outtype) + TimeSize(m.updated_at) + Len(m.unrecognized)
BlockSize(m) ==
    StringSize(m.hash) + VarintSize(m.number)
    + TimeSize(m.updated_at) + Len(m.unrecognized)

-----------------------------------------------------------------------------
(* The switch of Unmarshal: what each field number is read as.               *)

Field(name, type) == [name |-> name, type |-> type]

ERC20Fields ==
    <<Field("id", "uint64"), Field("token", "string"), Field("sender", "string"),
      Field("amount", "string"), Field("retry", "uint32"), Field("status", "int32"),
      Field("updated_at", "time")>>
NFTFields ==
    <<Field("id", "uint64"), Field("token", "string"), Field("sender", "string"),
      Field("tokenid", "uint64"), Field("retry", "uint32"), Field("status", "int32"),
      Field("updated_at", "time")>>
PairFields ==
    <<Field("inaddr", "string"), Field("outaddr", "string"), Field("intype", "int32"),
      Field("outtype", "int32"), Field("updated_at", "time")>>
BlockFields ==
    <<Field("hash", "string"), Field("number", "uint64"), Field("updated_at", "time")>>

WireType(type) == IF type \in {"string", "time"} THEN 2 ELSE 0

\* The Go types of the fields.
Values(type) ==
    CASE type = "uint64" -> 0..(Word - 1)
      [] type = "uint32" -> 0..(Word32 - 1)
      [] type = "int32"  -> -Sign32..(Sign32 - 1)
      [] type = "string" -> Seq(Byte)
      [] type = "time"   -> {Nil} \cup {Time(b) : b \in Times}

-----------------------------------------------------------------------------
(* By message.                                                               *)

Messages == {"erc20", "nft", "pair", "block"}

Bytes(msg, m) ==
    CASE msg = "erc20" -> ERC20Bytes(m) [] msg = "nft" -> NFTBytes(m)
      [] msg = "pair" -> PairBytes(m) [] msg = "block" -> BlockBytes(m)
Size(msg, m) ==
    CASE msg = "erc20" -> ERC20Size(m) [] msg = "nft" -> NFTSize(m)
      [] msg = "pair" -> PairSize(m) [] msg = "block" -> BlockSize(m)
Fields(msg) ==
    CASE msg = "erc20" -> ERC20Fields [] msg = "nft" -> NFTFields
      [] msg = "pair" -> PairFields [] msg = "block" -> BlockFields

\* m is a value of the message's struct.
Name(msg, i) == Fields(msg)[i].name
IsRecord(msg, m) ==
    /\ m = [name \in {Name(msg, i) : i \in DOMAIN Fields(msg)} \cup {"unrecognized"} |-> m[name]]
    /\ \A i \in DOMAIN Fields(msg) : m[Name(msg, i)] \in Values(Fields(msg)[i].type)
    /\ m.unrecognized \in Seq(Byte)

\* Marshal: a buffer of Size zeros is filled from its end, and its first n bytes are
\* returned, where n were written: the two agree only if Size is exact.
Marshal(msg, m) ==
    LET written == Bytes(msg, m)
        unused  == [i \in 1..(Size(msg, m) - Len(written)) |-> 0]
    IN  SubSeq(unused \o written, 1, Len(written))
=============================================================================
