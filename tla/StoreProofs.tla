----------------------------- MODULE StoreProofs -----------------------------
(***************************************************************************)
(* What the daemon's database holds and what Get makes of it, for every      *)
(* word size and for every database.                                         *)
(***************************************************************************)
EXTENDS Store, UnmarshalProofs

(* The records that are made without Unmarshal.                              *)

\* The names of the fields, by message.
LEMMA FieldNames ==
    /\ {Name("erc20", i) : i \in DOMAIN Fields("erc20")}
       = {"id", "token", "sender", "amount", "retry", "status", "updated_at"}
    /\ {Name("nft", i) : i \in DOMAIN Fields("nft")}
       = {"id", "token", "sender", "tokenid", "retry", "status", "updated_at"}
    /\ {Name("pair", i) : i \in DOMAIN Fields("pair")}
       = {"inaddr", "outaddr", "intype", "outtype", "updated_at"}
    /\ {Name("block", i) : i \in DOMAIN Fields("block")}
       = {"hash", "number", "updated_at"}
<1>1. {Name("erc20", i) : i \in DOMAIN Fields("erc20")}
      = {"id", "token", "sender", "amount", "retry", "status", "updated_at"}
  <2>1. DOMAIN Fields("erc20") = {1, 2, 3, 4, 5, 6, 7}
    BY DEF Fields, ERC20Fields
  <2>2. /\ Name("erc20", 1) = "id" /\ Name("erc20", 2) = "token"
        /\ Name("erc20", 3) = "sender" /\ Name("erc20", 4) = "amount"
        /\ Name("erc20", 5) = "retry" /\ Name("erc20", 6) = "status"
        /\ Name("erc20", 7) = "updated_at"
    BY DEF Name, Fields, ERC20Fields, Field
  <2> QED BY <2>1, <2>2
<1>2. {Name("nft", i) : i \in DOMAIN Fields("nft")}
      = {"id", "token", "sender", "tokenid", "retry", "status", "updated_at"}
  <2>1. DOMAIN Fields("nft") = {1, 2, 3, 4, 5, 6, 7}
    BY DEF Fields, NFTFields
  <2>2. /\ Name("nft", 1) = "id" /\ Name("nft", 2) = "token" /\ Name("nft", 3) = "sender"
        /\ Name("nft", 4) = "tokenid" /\ Name("nft", 5) = "retry"
        /\ Name("nft", 6) = "status" /\ Name("nft", 7) = "updated_at"
    BY DEF Name, Fields, NFTFields, Field
  <2> QED BY <2>1, <2>2
<1>3. {Name("pair", i) : i \in DOMAIN Fields("pair")}
      = {"inaddr", "outaddr", "intype", "outtype", "updated_at"}
  <2>1. DOMAIN Fields("pair") = {1, 2, 3, 4, 5}
    BY DEF Fields, PairFields
  <2>2. /\ Name("pair", 1) = "inaddr" /\ Name("pair", 2) = "outaddr"
        /\ Name("pair", 3) = "intype" /\ Name("pair", 4) = "outtype"
        /\ Name("pair", 5) = "updated_at"
    BY DEF Name, Fields, PairFields, Field
  <2> QED BY <2>1, <2>2
<1>4. {Name("block", i) : i \in DOMAIN Fields("block")}
      = {"hash", "number", "updated_at"}
  <2>1. DOMAIN Fields("block") = {1, 2, 3}
    BY DEF Fields, BlockFields
  <2>2. /\ Name("block", 1) = "hash" /\ Name("block", 2) = "number"
        /\ Name("block", 3) = "updated_at"
    BY DEF Name, Fields, BlockFields, Field
  <2> QED BY <2>1, <2>2
<1> QED BY <1>1, <1>2, <1>3, <1>4

\* Whatever has the types of a message's fields is a record of it: an event ...
LEMMA ERC20IsRecord ==
    ASSUME NEW id \in 0..(Word - 1), NEW token \in Seq(Byte), NEW sender \in Seq(Byte),
           NEW amount \in Seq(Byte), NEW retry \in 0..(Word32 - 1),
           NEW status \in -Sign32..(Sign32 - 1)
    PROVE  IsRecord("erc20", ERC20Record(id, token, sender, amount, retry, status))
<1> DEFINE r == ERC20Record(id, token, sender, amount, retry, status)
           names == {Name("erc20", i) : i \in DOMAIN Fields("erc20")} \cup {"unrecognized"}
<1>1. names = {"id", "token", "sender", "amount", "retry", "status", "updated_at",
               "unrecognized"}
  BY FieldNames
<1>2. r = [name \in names |-> r[name]]
  <2> HIDE DEF names
  <2> QED BY <1>1 DEF ERC20Record
<1>3. /\ r["id"] \in Values("uint64") /\ r["token"] \in Values("string")
      /\ r["sender"] \in Values("string") /\ r["amount"] \in Values("string")
      /\ r["retry"] \in Values("uint32") /\ r["status"] \in Values("int32")
      /\ r["updated_at"] \in Values("time")
      /\ r.unrecognized \in Seq(Byte)
  <2>1. Nil \in Values("time") /\ <<>> \in Seq(Byte)
    BY EmptySeq DEF Values
  <2> QED BY <2>1 DEF ERC20Record, Values
<1> HIDE DEF r
<1>4. ASSUME NEW i \in DOMAIN Fields("erc20")
      PROVE  r[Name("erc20", i)] \in Values(Fields("erc20")[i].type)
  BY <1>3 DEF Name, Fields, ERC20Fields, Field
<1>5. IsRecord("erc20", r)
  BY <1>2, <1>3, <1>4 DEF IsRecord
<1> QED BY <1>5 DEF r

\* ... of either kind,
LEMMA NFTIsRecord ==
    ASSUME NEW id \in 0..(Word - 1), NEW token \in Seq(Byte), NEW sender \in Seq(Byte),
           NEW tokenid \in 0..(Word - 1), NEW retry \in 0..(Word32 - 1),
           NEW status \in -Sign32..(Sign32 - 1)
    PROVE  IsRecord("nft", NFTRecord(id, token, sender, tokenid, retry, status))
<1> DEFINE r == NFTRecord(id, token, sender, tokenid, retry, status)
           names == {Name("nft", i) : i \in DOMAIN Fields("nft")} \cup {"unrecognized"}
<1>1. names = {"id", "token", "sender", "tokenid", "retry", "status", "updated_at",
               "unrecognized"}
  BY FieldNames
<1>2. r = [name \in names |-> r[name]]
  <2> HIDE DEF names
  <2> QED BY <1>1 DEF NFTRecord
<1>3. /\ r["id"] \in Values("uint64") /\ r["token"] \in Values("string")
      /\ r["sender"] \in Values("string") /\ r["tokenid"] \in Values("uint64")
      /\ r["retry"] \in Values("uint32") /\ r["status"] \in Values("int32")
      /\ r["updated_at"] \in Values("time")
      /\ r.unrecognized \in Seq(Byte)
  <2>1. Nil \in Values("time") /\ <<>> \in Seq(Byte)
    BY EmptySeq DEF Values
  <2> QED BY <2>1 DEF NFTRecord, Values
<1> HIDE DEF r
<1>4. ASSUME NEW i \in DOMAIN Fields("nft")
      PROVE  r[Name("nft", i)] \in Values(Fields("nft")[i].type)
  BY <1>3 DEF Name, Fields, NFTFields, Field
<1>5. IsRecord("nft", r)
  BY <1>2, <1>3, <1>4 DEF IsRecord
<1> QED BY <1>5 DEF r

\* a pair
LEMMA PairIsRecord ==
    ASSUME NEW inaddr \in Seq(Byte), NEW outaddr \in Seq(Byte),
           NEW intype \in -Sign32..(Sign32 - 1), NEW outtype \in -Sign32..(Sign32 - 1)
    PROVE  IsRecord("pair", PairRecord(inaddr, outaddr, intype, outtype))
<1> DEFINE r == PairRecord(inaddr, outaddr, intype, outtype)
           names == {Name("pair", i) : i \in DOMAIN Fields("pair")} \cup {"unrecognized"}
<1>1. names = {"inaddr", "outaddr", "intype", "outtype", "updated_at", "unrecognized"}
  BY FieldNames
<1>2. r = [name \in names |-> r[name]]
  <2> HIDE DEF names
  <2> QED BY <1>1 DEF PairRecord
<1>3. /\ r["inaddr"] \in Values("string") /\ r["outaddr"] \in Values("string")
      /\ r["intype"] \in Values("int32") /\ r["outtype"] \in Values("int32")
      /\ r["updated_at"] \in Values("time")
      /\ r.unrecognized \in Seq(Byte)
  <2>1. Nil \in Values("time") /\ <<>> \in Seq(Byte)
    BY EmptySeq DEF Values
  <2> QED BY <2>1 DEF PairRecord, Values
<1> HIDE DEF r
<1>4. ASSUME NEW i \in DOMAIN Fields("pair")
      PROVE  r[Name("pair", i)] \in Values(Fields("pair")[i].type)
  BY <1>3 DEF Name, Fields, PairFields, Field
<1>5. IsRecord("pair", r)
  BY <1>2, <1>3, <1>4 DEF IsRecord
<1> QED BY <1>5 DEF r

\* and a confirmed block.
LEMMA BlockIsRecord ==
    ASSUME NEW hash \in Seq(Byte), NEW number \in 0..(Word - 1)
    PROVE  IsRecord("block", BlockRecord(hash, number))
<1> DEFINE r == BlockRecord(hash, number)
           names == {Name("block", i) : i \in DOMAIN Fields("block")} \cup {"unrecognized"}
<1>1. names = {"hash", "number", "updated_at", "unrecognized"}
  BY FieldNames
<1>2. r = [name \in names |-> r[name]]
  <2> HIDE DEF names
  <2> QED BY <1>1 DEF BlockRecord
<1>3. /\ r["hash"] \in Values("string") /\ r["number"] \in Values("uint64")
      /\ r["updated_at"] \in Values("time")
      /\ r.unrecognized \in Seq(Byte)
  <2>1. Nil \in Values("time") /\ <<>> \in Seq(Byte)
    BY EmptySeq DEF Values
  <2> QED BY <2>1 DEF BlockRecord, Values
<1> HIDE DEF r
<1>4. ASSUME NEW i \in DOMAIN Fields("block")
      PROVE  r[Name("block", i)] \in Values(Fields("block")[i].type)
  BY <1>3 DEF Name, Fields, BlockFields, Field
<1>5. IsRecord("block", r)
  BY <1>2, <1>3, <1>4 DEF IsRecord
<1> QED BY <1>5 DEF r

-----------------------------------------------------------------------------
(* What a caller asks with, and what it stores.                              *)

\* The low word of a uint256 is a word.
LEMMA WordOfUint ==
    ASSUME NEW x \in Nat PROVE ToUint64(x) \in 0..(Word - 1)
BY WireAssumption DEF ToUint64, Word

\* What callers ask with has the types of its message.
LEMMA NewIsRecord ==
    /\ \A e \in ERC20Logs : IsRecord("erc20", ToEventERC20Deposited(e))
    /\ \A e \in NFTLogs : IsRecord("nft", ToEventNFTDeposited(e))
    /\ \A a \in Seq(Byte) : IsRecord("pair", NewPair(a))
    /\ IsRecord("block", NewBlock)
<1>0. /\ 0 \in 0..(Word - 1) /\ 0 \in 0..(Word32 - 1) /\ 0 \in -Sign32..(Sign32 - 1)
      /\ <<>> \in Seq(Byte)
  BY WireAssumption, EmptySeq DEF Word, Word32
<1>1. ASSUME NEW e \in ERC20Logs PROVE IsRecord("erc20", ToEventERC20Deposited(e))
  <2>1. e.id \in Nat /\ e.token \in Seq(Byte) /\ e.sender \in Seq(Byte) /\ e.amount \in Seq(Byte)
    BY StoreAssumption
  <2>2. ToUint64(e.id) \in 0..(Word - 1)
    BY <2>1, WordOfUint
  <2> QED BY <1>0, <2>1, <2>2, ERC20IsRecord DEF ToEventERC20Deposited, UNDEFINED
<1>2. ASSUME NEW e \in NFTLogs PROVE IsRecord("nft", ToEventNFTDeposited(e))
  <2>1. e.id \in Nat /\ e.tokenid \in Nat /\ e.token \in Seq(Byte) /\ e.sender \in Seq(Byte)
    BY StoreAssumption
  <2>2. ToUint64(e.id) \in 0..(Word - 1) /\ ToUint64(e.tokenid) \in 0..(Word - 1)
    BY <2>1, WordOfUint
  <2> QED BY <1>0, <2>1, <2>2, NFTIsRecord DEF ToEventNFTDeposited, UNDEFINED
<1>3. ASSUME NEW a \in Seq(Byte) PROVE IsRecord("pair", NewPair(a))
  BY <1>0, PairIsRecord DEF NewPair, ORIGINAL
<1>4. IsRecord("block", NewBlock)
  BY <1>0, BlockIsRecord DEF NewBlock
<1> QED BY <1>1, <1>2, <1>3, <1>4

\* The handlers set the status and the retries of an event, and the number of a block.
LEMMA EventIsRecord ==
    ASSUME NEW message \in {"erc20", "nft"}, NEW r, IsRecord(message, r),
           NEW status \in {FAILED, SUCCEEDED}, NEW retry \in Retries
    PROVE  IsRecord(message, [r EXCEPT !.status = status, !.retry = retry])
<1>1. message \in Messages /\ 5 \in DOMAIN Fields(message) /\ 6 \in DOMAIN Fields(message)
  BY DEF Messages, Fields, ERC20Fields, NFTFields
<1>2. /\ Name(message, 6) = "status" /\ FieldType(message, 6) = "int32"
      /\ Name(message, 5) = "retry" /\ FieldType(message, 5) = "uint32"
  BY DEF Name, FieldType, Fields, ERC20Fields, NFTFields, Field
<1>3. status \in Values("int32")
  BY WireAssumption DEF FAILED, SUCCEEDED, Values
<1>4. retry \in Values("uint32")
  BY StoreAssumption DEF Values
<1>5. IsRecord(message, [r EXCEPT !["status"] = status])
  BY <1>1, <1>2, <1>3, SetField
<1>6. IsRecord(message, [[r EXCEPT !["status"] = status] EXCEPT !["retry"] = retry])
  BY <1>1, <1>2, <1>4, <1>5, SetField
<1> QED BY <1>6

\* ... and the main loop the number of a block.
LEMMA NumberIsRecord ==
    ASSUME NEW r, IsRecord("block", r), NEW n \in BlockNumbers
    PROVE  IsRecord("block", [r EXCEPT !.number = n])
<1>1. /\ "block" \in Messages /\ 2 \in DOMAIN Fields("block")
      /\ Name("block", 2) = "number" /\ FieldType("block", 2) = "uint64"
  BY DEF Messages, Name, FieldType, Fields, BlockFields, Field
<1>2. n \in Values("uint64")
  BY StoreAssumption DEF Values
<1> QED BY <1>1, <1>2, SetField

-----------------------------------------------------------------------------
(* The invariant.                                                            *)

\* A record in the database is there as the bytes of the one last put.
Stored(k) ==
    /\ MessageOf(k) \in Messages /\ IsRecord(MessageOf(k), records[k])
    /\ db[k] = Bytes(MessageOf(k), records[k]) /\ IsSlice(db[k])

\* A Get that runs reads the bytes it found, and a caller holds a record of its key.
StoreInv ==
    /\ IndexInv /\ RecordInv
    /\ DOMAIN db = DOMAIN records /\ \A k \in DOMAIN db : Stored(k)
    /\ calling # NoKey =>
          calling \in DOMAIN db /\ msg = MessageOf(calling) /\ dAtA = db[calling]
    /\ pc = "idle" => calling = NoKey
    /\ MessageOf(held.key) \in Messages => IsRecord(MessageOf(held.key), held.rec)

\* The key of no record has none of the four messages.
LEMMA NoKeyMessage == MessageOf(NoKey) \notin Messages
BY DEF MessageOf, NoKey, Messages

\* While no Unmarshal runs.
LEMMA IdleInv == Idle => IndexInv' /\ RecordInv' /\ pc' = "idle"
<1> SUFFICES ASSUME Idle PROVE IndexInv' /\ RecordInv' /\ pc' = "idle"
  OBVIOUS
<1>1. IndexInv'
  BY WireAssumption, EmptySeq
     DEF Idle, IndexInv, Types, IsSlice, Ahead, FieldSteps, SkipSteps, Word, l
<1>2. RecordInv'
  BY WireAssumption, NewIsRecord DEF Idle, RecordInv, Messages
<1> QED BY <1>1, <1>2 DEF Idle

\* The invariant holds of every database a daemon starts with, ...
LEMMA InitStoreInv == Init => StoreInv
<1> SUFFICES ASSUME Init PROVE StoreInv
  OBVIOUS
<1>1. IndexInv
  BY WireAssumption, EmptySeq
     DEF Init, IndexInv, Types, IsSlice, Ahead, FieldSteps, SkipSteps, Word, l
<1>2. RecordInv
  BY WireAssumption, NewIsRecord DEF Init, RecordInv, Messages
<1>3. PICK i \in InitialDbs : db = i.db /\ records = i.records
  BY DEF Init
<1>4. DOMAIN db = DOMAIN records
  BY <1>3, StoreAssumption
<1>5. ASSUME NEW k \in DOMAIN db PROVE Stored(k)
  <2>1. /\ k[1] \in Messages /\ IsRecord(k[1], records[k])
        /\ db[k] = Marshal(k[1], records[k]) /\ IsSlice(db[k])
    BY <1>3, StoreAssumption
  <2> QED BY <2>1, MarshalIsBytes DEF Stored, MessageOf
<1>6. held.key = NoKey /\ calling = NoKey /\ pc = "idle"
  BY DEF Init, NoRecord
<1> QED BY <1>1, <1>2, <1>4, <1>5, <1>6, NoKeyMessage DEF StoreInv

\* A Get that finds a record calls Unmarshal on its bytes with the caller's own.
LEMMA GetStoreInv ==
    ASSUME StoreInv, NEW k, NEW r, MessageOf(k) \in Messages, IsRecord(MessageOf(k), r),
           GetRecord(k, r)
    PROVE  StoreInv'
<1>1. CASE GetMissing(k, r)
  <2>1. IndexInv' /\ RecordInv'
    BY <1>1 DEF GetMissing, StoreInv, unmarshalVars, indexVars, skipVars, IndexInv, Types,
                IsSlice, Ahead, l, RecordInv, Known, Type
  <2>2. held'.key = k /\ held'.rec = r
    BY <1>1 DEF GetMissing
  <2> QED BY <1>1, <2>1, <2>2 DEF GetMissing, StoreInv, Stored, unmarshalVars
<1>2. CASE GetFound(k, r)
  <2>1. Stored(k) /\ k \in DOMAIN db /\ Call(MessageOf(k), db[k], r)
    BY <1>2 DEF GetFound, StoreInv
  <2>2. IndexInv'
    BY <2>1, CallIndexInv DEF Stored
  <2>3. RecordInv'
    BY <2>1, WireAssumption DEF Call, RecordInv
  <2> QED BY <1>2, <2>1, <2>2, <2>3 DEF GetFound, StoreInv, Stored, Call
<1> QED BY <1>1, <1>2 DEF GetRecord

\* A Put stores the bytes of a record, and Size(r) of them.
LEMMA PutStoreInv ==
    ASSUME StoreInv, NEW k, NEW r, MessageOf(k) \in Messages, IsRecord(MessageOf(k), r),
           PutRecord(k, r)
    PROVE  StoreInv'
<1>1. IndexInv' /\ RecordInv'
  BY DEF PutRecord, StoreInv, unmarshalVars, indexVars, skipVars, IndexInv, Types,
         IsSlice, Ahead, l, RecordInv, Known, Type
<1>2. /\ Marshal(MessageOf(k), r) = Bytes(MessageOf(k), r)
      /\ IsSlice(Bytes(MessageOf(k), r))
  BY MarshalIsBytes, SizeOfMessage DEF PutRecord, HasSize, IsSlice
<1>3. DOMAIN db' = DOMAIN db \cup {k} /\ DOMAIN records' = DOMAIN records \cup {k}
  BY DEF PutRecord
<1>4. ASSUME NEW x \in DOMAIN db' PROVE Stored(x)'
  <2>1. CASE x = k
    <3>1. db'[k] = Bytes(MessageOf(k), r) /\ records'[k] = r
      BY <1>2 DEF PutRecord
    <3> QED BY <2>1, <3>1, <1>2 DEF Stored
  <2>2. CASE x # k
    <3>1. x \in DOMAIN db /\ db'[x] = db[x] /\ records'[x] = records[x]
      BY <2>2, <1>3 DEF PutRecord, StoreInv
    <3> QED BY <3>1 DEF Stored, StoreInv
  <2> QED BY <2>1, <2>2
<1>5. held'.key = k /\ held'.rec = r /\ calling' = NoKey
  BY DEF PutRecord, StoreInv
<1> QED BY <1>1, <1>3, <1>4, <1>5 DEF StoreInv

\* What Unmarshal does not touch.
LEMMA StepKeepsCall ==
    ASSUME UnmarshalStep PROVE UNCHANGED <<msg, dAtA>> /\ pc # "idle" /\ pc' # "idle"
<1> USE DEF Fail, ReadByte, indexVars, skipVars
<1>1. CASE FieldStep
  BY <1>1 DEF FieldStep, NextField, ReadTag, ReadStopped, BadTag, StartVarint, FieldOf, ReadVarint,
              StartLength, ReadLength, LengthTaken, LengthRefused, CheckLength, TakeString,
              TakeTime, TakeTimeErr, TakeSlice, Finish
<1>2. CASE SkipStep
  BY <1>2 DEF SkipStep, StartSkip, SkipNext, SkipStopped, SkipTag, SkipVarint, SkipLength,
              SkipRead, SkipType, SkipGoto, SkipBytes, SkipEnd, SkipTaken, SkipRefused,
              CheckLength, TakeUnknown, TakeSlice
<1> QED BY <1>1, <1>2 DEF UnmarshalStep

\* ... every step keeps it, ...
LEMMA NextStoreInv == StoreInv /\ [Next]_vars => StoreInv'
<1> SUFFICES ASSUME StoreInv, [Next]_vars PROVE StoreInv'
  OBVIOUS
<1>1. ASSUME NEW e \in ERC20Logs, GetEventERC20(e) PROVE StoreInv'
  BY <1>1, NewIsRecord, GetStoreInv DEF GetEventERC20, eventKey, MessageOf, Messages
<1>2. ASSUME NEW e \in NFTLogs, GetEventNFT(e) PROVE StoreInv'
  BY <1>2, NewIsRecord, GetStoreInv DEF GetEventNFT, eventKey, MessageOf, Messages
<1>3. ASSUME NEW a \in Addresses, GetPair(a) PROVE StoreInv'
  <2>1. a \in Seq(Byte)
    BY StoreAssumption
  <2> QED BY <1>3, <2>1, NewIsRecord, GetStoreInv DEF GetPair, pairKey, MessageOf, Messages
<1>4. ASSUME NEW type, GetBlock(type) PROVE StoreInv'
  BY <1>4, NewIsRecord, GetStoreInv DEF GetBlock, blockKey, MessageOf, Messages
<1>5. CASE Parse
  <2>1. PICK message \in Messages, s \in Inputs : Call(message, s, Empty[message])
    BY <1>5 DEF Parse
  <2>2. IsSlice(s) /\ IsRecord(message, Empty[message])
    BY UnmarshalAssumption
  <2>3. IndexInv'
    BY <2>1, <2>2, CallIndexInv
  <2>4. RecordInv'
    BY <2>1, <2>2, WireAssumption DEF Call, RecordInv
  <2> QED BY <1>5, <2>1, <2>3, <2>4 DEF Parse, StoreInv, Stored, Call
<1>6. CASE Decode
  <2>1. UnmarshalStep
    BY <1>6 DEF Decode
  <2>2. IndexInv' /\ RecordInv'
    BY <2>1, NextIndexInv, StepRecordInv DEF StoreInv
  <2>3. UNCHANGED <<msg, dAtA>> /\ pc' # "idle"
    BY <2>1, StepKeepsCall
  <2> QED BY <1>6, <2>2, <2>3 DEF Decode, StoreInv, Stored
<1>7. CASE Return
  <2>1. IndexInv' /\ RecordInv'
    BY <1>7, IdleInv DEF Return
  <2>2. MessageOf(held'.key) \in Messages => IsRecord(MessageOf(held'.key), held'.rec)
    <3>1. CASE held' = NoRecord
      BY <3>1, NoKeyMessage DEF NoRecord
    <3>2. CASE calling # NoKey /\ held' = [key |-> calling, rec |-> m]
      <4>1. held'.key = calling /\ held'.rec = m
        BY <3>2
      <4> QED BY <3>2, <4>1 DEF StoreInv, RecordInv
    <3> QED BY <1>7, <3>1, <3>2 DEF Return
  <2> QED BY <1>7, <2>1, <2>2 DEF Return, StoreInv, Stored
<1>8. ASSUME NEW status \in {FAILED, SUCCEEDED}, NEW retry \in Retries, PutEvent(status, retry)
      PROVE  StoreInv'
  <2> DEFINE message == MessageOf(held.key)
             r == [held.rec EXCEPT !.status = status, !.retry = retry]
  <2>1. message \in {"erc20", "nft"} /\ PutRecord(eventKey(message, r), r)
    BY <1>8 DEF PutEvent
  <2>2. IsRecord(message, held.rec)
    BY <2>1 DEF StoreInv, Messages
  <2> HIDE DEF message
  <2>3. IsRecord(message, r)
    BY <2>1, <2>2, EventIsRecord
  <2> HIDE DEF r
  <2>4. MessageOf(eventKey(message, r)) = message
    BY DEF MessageOf, eventKey
  <2> QED BY <2>1, <2>3, <2>4, PutStoreInv DEF Messages
<1>9. ASSUME NEW a \in Addresses, NEW b \in Addresses, NEW type \in {ORIGINAL, WRAPPED},
             PutPair(a, b, type)
      PROVE  StoreInv'
  <2> DEFINE r == PairRecord(a, b, type, ORIGINAL)
  <2>1. a \in Seq(Byte) /\ b \in Seq(Byte)
    BY StoreAssumption
  <2>2. type \in -Sign32..(Sign32 - 1) /\ ORIGINAL \in -Sign32..(Sign32 - 1)
    BY WireAssumption DEF ORIGINAL, WRAPPED
  <2>3. IsRecord("pair", r)
    BY <2>1, <2>2, PairIsRecord
  <2>4. PutRecord(pairKey(r), r)
    BY <1>9 DEF PutPair
  <2> HIDE DEF r
  <2> QED BY <2>3, <2>4, PutStoreInv DEF pairKey, MessageOf, Messages
<1>10. ASSUME NEW n \in BlockNumbers, PutBlock(n) PROVE StoreInv'
  <2>1. MessageOf(held.key) = "block"
    BY <1>10 DEF PutBlock
  <2>2. IsRecord("block", [held.rec EXCEPT !.number = n])
    BY <2>1, NumberIsRecord DEF StoreInv, Messages
  <2> QED BY <1>10, <2>1, <2>2, PutStoreInv DEF PutBlock, Messages
<1>11. CASE UNCHANGED vars
  BY <1>11 DEF vars, StoreInv, Stored, unmarshalVars, indexVars, skipVars, IndexInv, Types,
               IsSlice, Ahead, l, RecordInv, Known, Type
<1> QED BY <1>1, <1>2, <1>3, <1>4, <1>5, <1>6, <1>7, <1>8, <1>9, <1>10, <1>11 DEF Next

\* ... so it holds always.
LEMMA StoreInvariant == Spec => []StoreInv
BY InitStoreInv, NextStoreInv, PTL DEF Spec

-----------------------------------------------------------------------------
(* The theorems.                                                             *)

\* Whatever bytes Unmarshal is given, and whatever an earlier version left in the
\* database, the record it fills has the Go types of its fields, the varint it reads
\* is a word and its indices are ints; the database holds slices (event.pb.go, Unmarshal).
THEOREM StoreTypeCorrect == Spec => []TypeOK
<1>1. StoreInv => TypeOK
  <2> SUFFICES ASSUME StoreInv PROVE TypeOK
    OBVIOUS
  <2>1. l \in Nat /\ l < Sign /\ Sign \in Nat
    BY WireAssumption DEF StoreInv, IndexInv, Types, IsSlice, l
  <2>2. {iNdEx, preIndex, postIndex, skip} \subseteq -Sign..(Sign - 1)
    BY <2>1 DEF StoreInv, IndexInv, Types
  <2> QED BY <2>2 DEF StoreInv, IndexInv, Types, RecordInv, Stored, TypeOK
<1> QED BY <1>1, StoreInvariant, PTL

\* Size reserves for every record Unmarshal can fill exactly the bytes Marshal writes
\* for it (event.pb.go, Size and MarshalToSizedBuffer).
THEOREM SizesExact == Spec => []SizeExact
<1>1. StoreInv => SizeExact
  BY SizeOfMessage DEF StoreInv, RecordInv, SizeExact, HasSize
<1> QED BY <1>1, StoreInvariant, PTL

\* No bytes make Unmarshal or skipEvent read outside their slice.
THEOREM UnmarshalReadsInBounds == Spec => []ReadsInBounds
<1>1. StoreInv => ReadsInBounds
  BY IndexInvReads DEF StoreInv
<1> QED BY <1>1, StoreInvariant, PTL

\* Each turn of Unmarshal's loop ends further on in the bytes than it began.
THEOREM UnmarshalConsumes == Spec => FieldsConsume
<1>1. StoreInv /\ [Next]_vars
      => [pc \notin {"idle", "loop"} /\ pc' = "loop" => iNdEx' > preIndex]_unmarshalVars
  <2> SUFFICES ASSUME StoreInv, Next, pc \notin {"idle", "loop"}, pc' = "loop"
               PROVE  iNdEx' > preIndex
    BY DEF vars
  <2>1. CASE Decode
    BY <2>1, StepConsumes DEF Decode, StoreInv
  <2>2. CASE Return
    BY <2>2 DEF Return, Idle
  <2> QED BY <2>1, <2>2 DEF Next, GetEventERC20, GetEventNFT, GetPair, GetBlock, GetRecord,
                            GetMissing, GetFound, Parse, PutEvent, PutPair, PutBlock, PutRecord,
                            unmarshalVars
<1> QED BY <1>1, StoreInvariant, PTL DEF Spec, FieldsConsume

-----------------------------------------------------------------------------
(* Reading back: the bytes.                                                  *)

\* The bytes Unmarshal has not read yet.
Suffix(i) == SubSeq(dAtA, i + 1, l)

\* What begins the bytes to read is read first, and leaves the others.
LEMMA TakeOff ==
    ASSUME IsSlice(dAtA), NEW i \in 0..l, NEW a \in Seq(Byte), NEW b \in Seq(Byte),
           Suffix(i) = a \o b
    PROVE  /\ i + Len(a) \in 0..l
           /\ \A x \in 1..Len(a) : dAtA[i + x] = a[x]
           /\ SubSeq(dAtA, i + 1, i + Len(a)) = a
           /\ Suffix(i + Len(a)) = b
<1>1. dAtA \in Seq(Byte) /\ l = Len(dAtA) /\ l \in Nat
  BY LenProperties DEF IsSlice, l
<1>2. \A x \in 1..l : dAtA[x] \in Byte
  BY <1>1, ElementOfSeq
<1>3. /\ Len(Suffix(i)) = l - i
      /\ \A x \in 1..(l - i) : Suffix(i)[x] = dAtA[i + x]
  <2>1. \A x \in (i + 1)..l : dAtA[x] \in Byte
    BY <1>1, <1>2
  <2>2. /\ Len(SubSeq(dAtA, i + 1, l)) = IF i + 1 <= l THEN l - (i + 1) + 1 ELSE 0
        /\ \A x \in 1..(l - (i + 1) + 1) : SubSeq(dAtA, i + 1, l)[x] = dAtA[(i + 1) + x - 1]
    BY <1>1, <2>1, SubSeqProperties
  <2>3. \A x \in 1..(l - i) : (i + 1) + x - 1 = i + x
    BY <1>1
  <2>4. l - (i + 1) + 1 = l - i
    BY <1>1
  <2> QED BY <1>1, <2>2, <2>3, <2>4 DEF Suffix
<1>4. PICK n \in Nat, k \in Nat : n = Len(a) /\ k = Len(b)
  BY LenProperties
<1>5. /\ Len(a \o b) = n + k
      /\ \A x \in 1..(n + k) : (a \o b)[x] = IF x <= n THEN a[x] ELSE b[x - n]
  BY <1>4, ConcatProperties
<1>6. l - i = n + k
  BY <1>3, <1>5
<1>7. ASSUME NEW x \in 1..n PROVE dAtA[i + x] = a[x]
  <2>1. x \in 1..(n + k) /\ x <= n
    OBVIOUS
  <2>2. (a \o b)[x] = a[x]
    BY <1>5, <2>1
  <2>3. Suffix(i)[x] = dAtA[i + x]
    BY <1>3, <1>6, <2>1
  <2> QED BY <2>2, <2>3
<1>8. SubSeq(dAtA, i + 1, i + n) = a
  <2>1. \A x \in (i + 1)..(i + n) : dAtA[x] \in Byte
    BY <1>1, <1>2, <1>6
  <2>2. /\ SubSeq(dAtA, i + 1, i + n) \in Seq(Byte)
        /\ Len(SubSeq(dAtA, i + 1, i + n)) = n
        /\ \A x \in 1..n : SubSeq(dAtA, i + 1, i + n)[x] = dAtA[i + x]
    <3>1. /\ SubSeq(dAtA, i + 1, i + n) \in Seq(Byte)
          /\ Len(SubSeq(dAtA, i + 1, i + n)) = IF i + 1 <= i + n THEN i + n - (i + 1) + 1 ELSE 0
          /\ \A x \in 1..(i + n - (i + 1) + 1) :
                SubSeq(dAtA, i + 1, i + n)[x] = dAtA[(i + 1) + x - 1]
      <4>1. i + 1 \in Int /\ i + n \in Int
        BY <1>1
      <4> QED BY <2>1, <4>1, SubSeqProperties
    <3>2. i + n - (i + 1) + 1 = n /\ \A x \in 1..n : (i + 1) + x - 1 = i + x
      BY <1>1
    <3> QED BY <3>1, <3>2
  <2> QED BY <1>4, <1>7, <2>2, SeqEqual
<1>9. Suffix(i + n) = b
  <2>1. \A x \in (i + n + 1)..l : dAtA[x] \in Byte
    BY <1>1, <1>2
  <2>2. /\ Suffix(i + n) \in Seq(Byte)
        /\ Len(Suffix(i + n)) = k
        /\ \A x \in 1..k : Suffix(i + n)[x] = dAtA[i + n + x]
    <3>1. /\ SubSeq(dAtA, i + n + 1, l) \in Seq(Byte)
          /\ Len(SubSeq(dAtA, i + n + 1, l))
             = IF i + n + 1 <= l THEN l - (i + n + 1) + 1 ELSE 0
          /\ \A x \in 1..(l - (i + n + 1) + 1) :
                SubSeq(dAtA, i + n + 1, l)[x] = dAtA[(i + n + 1) + x - 1]
      BY <1>1, <2>1, SubSeqProperties
    <3>2. l - (i + n + 1) + 1 = k /\ \A x \in 1..k : (i + n + 1) + x - 1 = i + n + x
      BY <1>1, <1>6
    <3> QED BY <1>1, <1>6, <3>1, <3>2 DEF Suffix
  <2>3. \A x \in 1..k : dAtA[i + n + x] = b[x]
    <3>1. ASSUME NEW x \in 1..k PROVE dAtA[i + n + x] = b[x]
      <4>1. PICK y \in 1..(n + k) : y = n + x
        OBVIOUS
      <4>2. (a \o b)[y] = b[y - n]
        BY <1>5, <4>1
      <4>3. Suffix(i)[y] = dAtA[i + y]
        BY <1>3, <1>6
      <4>4. y - n = x /\ i + y = i + n + x
        BY <1>1, <4>1
      <4> QED BY <4>2, <4>3, <4>4
    <3> QED BY <3>1
  <2> QED BY <1>4, <2>2, <2>3, SeqEqual
<1>10. i + n \in 0..l
  BY <1>1, <1>6
<1>11. Len(a) = n
  BY <1>4
<1> QED BY <1>7, <1>8, <1>9, <1>10, <1>11

\* The same for a byte.
LEMMA TakeByte ==
    ASSUME IsSlice(dAtA), NEW i \in 0..l, NEW b \in Byte, NEW t \in Seq(Byte),
           Suffix(i) = <<b>> \o t
    PROVE  i < l /\ dAtA[i + 1] = b /\ Suffix(i + 1) = t
<1>1. <<b>> \in Seq(Byte) /\ Len(<<b>>) = 1 /\ <<b>>[1] = b
  OBVIOUS
<1>2. i + 1 \in 0..l /\ (\A x \in 1..1 : dAtA[i + x] = <<b>>[x]) /\ Suffix(i + 1) = t
  BY <1>1, TakeOff
<1>3. l \in Nat
  BY LenProperties DEF IsSlice, l
<1> QED BY <1>1, <1>2, <1>3

\* Arithmetic: a number below the modulus, a byte without its continuation bit, and a
\* product with a factor that is not 0.
LEMMA SmallMod ==
    ASSUME NEW s \in Nat, NEW n \in Nat, s < n PROVE s % n = s
OBVIOUS

\* The lowest seven bits and the others.
LEMMA LowBits ==
    ASSUME NEW b \in 0..127 PROVE b % 128 = b /\ (128 + b) % 128 = b
OBVIOUS

\* A factor is no more than the product.
LEMMA FactorBelow ==
    ASSUME NEW w \in Nat \ {0}, NEW c \in Nat, NEW v \in Nat, NEW n \in Nat, v + w * c < n
    PROVE  c < n
<1>1. PICK d \in Nat : w = d + 1
  <2>1. w - 1 \in Nat /\ w = (w - 1) + 1
    OBVIOUS
  <2> QED BY <2>1
<1>2. (d + 1) * c = d * c + c /\ d * c \in Nat
  OBVIOUS
<1>3. PICK e \in Nat : e = d * c
  BY <1>2
<1>4. v + e + c < n
  BY <1>1, <1>2, <1>3
<1> QED BY <1>4

\* A loop that reads the varint of n, at i in the bytes and with 1 << shift at s, has v
\* of it so far, and the rest still to come.
Left(i, s, v, n, X) ==
    \E w \in Nat : /\ s = 1 \/ w >= 1
                   /\ Suffix(i) = encodeVarint[w] \o X
                   /\ v + w * s = n

\* The loop does not stop, and a byte brings it nearer to what is left.
LEMMA VarintStep ==
    ASSUME Types, NEW i \in 0..l, NEW w \in Nat, NEW X \in Seq(Byte),
           Suffix(i) = encodeVarint[w] \o X, scale = 1 \/ w >= 1,
           NEW width \in Nat, NEW v \in Nat, v + w * scale < width, width <= Word
    PROVE  /\ ~Stopped(i, l)
           /\ \/ /\ ~More(i) /\ Or(v, i, width) = v + w * scale /\ Suffix(i + 1) = X
              \/ /\ More(i)
                 /\ \E u \in Nat \ {0} : /\ Suffix(i + 1) = encodeVarint[u] \o X
                                         /\ Or(v, i, width) + u * (128 * scale) = v + w * scale
                                         /\ Or(v, i, width) \in Nat
<1>0. scale \in Nat /\ scale >= 1 /\ IsSlice(dAtA) /\ l \in Nat /\ Word \in Nat
  BY WireAssumption, LenProperties DEF Types, IsSlice, l, Word
<1>1. scale < Word
  <2>1. CASE w = 0
    BY <2>1, <1>0, WireAssumption DEF Word
  <2>2. CASE w # 0
    <3>1. scale < width
      BY <1>0, <2>2, FactorBelow
    <3> QED BY <3>1, <1>0
  <2> QED BY <2>1, <2>2
<1>2. CASE w < 128
  <2>1. encodeVarint[w] = <<w>>
    BY <1>2, EncodeVarintDef, Zenon
  <2>2. w \in Byte
    BY <1>2 DEF Byte
  <2>3. i < l /\ dAtA[i + 1] = w /\ Suffix(i + 1) = X
    BY <1>0, <2>1, <2>2, TakeByte
  <2>4. ~Stopped(i, l) /\ ~More(i)
    BY <1>0, <1>1, <1>2, <2>3 DEF Stopped, More
  <2>5. Or(v, i, width) = v + w * scale
    <3>1. w % 128 = w
      <4>1. w \in 0..127
        BY <1>2
      <4> QED BY <4>1, LowBits
    <3>2. PICK s \in Nat : s = v + w * scale
      <4>1. w * scale \in Nat
        BY <1>0
      <4> QED BY <4>1
    <3>3. s % width = s
      BY <3>2, SmallMod
    <3>4. Or(v, i, width) = (v + w * scale) % width
      BY <2>3, <3>1 DEF Or
    <3> QED BY <3>2, <3>3, <3>4, Zenon
  <2> QED BY <2>3, <2>4, <2>5
<1>3. CASE ~(w < 128)
  <2>1. PICK u \in Nat, b \in Nat : u = w \div 128 /\ b = w % 128
    OBVIOUS
  <2>2. w = 128 * u + b /\ b < 128 /\ u # 0
    BY <1>3, <2>1
  <2>3. encodeVarint[w] = <<128 + b>> \o encodeVarint[u]
    BY <1>3, <2>1, EncodeVarintDef, Zenon
  <2>4. PICK e \in Seq(Byte) : e = encodeVarint[u]
    BY EncodeVarintDef
  <2>5. 128 + b \in Byte
    BY <2>2 DEF Byte
  <2>6. Suffix(i) = <<128 + b>> \o (e \o X)
    <3>1. <<128 + b>> \in Seq(Byte)
      BY <2>5
    <3>2. (<<128 + b>> \o e) \o X = <<128 + b>> \o (e \o X)
      BY <3>1, ConcatAssociative
    <3> QED BY <2>3, <2>4, <3>2
  <2>7. i < l /\ dAtA[i + 1] = 128 + b /\ Suffix(i + 1) = e \o X
    <3>1. PICK t \in Seq(Byte) : t = e \o X
      BY ConcatProperties
    <3>2. PICK x \in Byte : x = 128 + b
      BY <2>5
    <3>3. Suffix(i) = <<x>> \o t
      BY <2>6, <3>1, <3>2
    <3>4. i < l /\ dAtA[i + 1] = x /\ Suffix(i + 1) = t
      BY <1>0, <3>3, TakeByte
    <3> QED BY <3>1, <3>2, <3>4
  <2>8. ~Stopped(i, l) /\ More(i)
    BY <1>0, <1>1, <2>2, <2>7 DEF Stopped, More
  <2>9. (128 + b) % 128 = b
    <3>1. b \in 0..127
      BY <2>2
    <3> QED BY <3>1, LowBits
  <2>10. PICK p \in Nat, q \in Nat : p = b * scale /\ q = u * scale
    <3>1. b * scale \in Nat /\ u * scale \in Nat
      BY <1>0
    <3> QED BY <3>1
  <2>11. w * scale = 128 * q + p /\ u * (128 * scale) = 128 * q
    BY <1>0, <2>2, <2>10
  <2>12. PICK s \in Nat : s = v + p
    BY <2>10
  <2>13. s < width
    BY <2>11, <2>12
  <2>14. s % width = s
    BY <2>13, SmallMod
  <2>15. Or(v, i, width) = (v + p) % width
    BY <2>7, <2>9, <2>10 DEF Or
  <2>16. Or(v, i, width) = s
    BY <2>12, <2>14, <2>15
  <2>17. Or(v, i, width) + u * (128 * scale) = v + w * scale
    BY <2>10, <2>11, <2>12, <2>16
  <2> QED BY <2>2, <2>4, <2>7, <2>8, <2>16, <2>17
<1> QED BY <1>2, <1>3

\* So it reads n.
LEMMA VarintLeft ==
    ASSUME Types, NEW i \in 0..l, NEW X \in Seq(Byte), NEW width \in Nat, width <= Word,
           NEW n \in Nat, n < width, NEW v \in Nat, Left(i, scale, v, n, X)
    PROVE  /\ ~Stopped(i, l) /\ Or(v, i, width) \in Nat /\ v <= n /\ Or(v, i, width) <= n
           /\ \/ ~More(i) /\ Or(v, i, width) = n /\ Suffix(i + 1) = X
              \/ More(i) /\ Left(i + 1, 128 * scale, Or(v, i, width), n, X)
<1>1. PICK w \in Nat : /\ scale = 1 \/ w >= 1
                       /\ Suffix(i) = encodeVarint[w] \o X
                       /\ v + w * scale = n
  BY DEF Left
<1>2. /\ ~Stopped(i, l)
      /\ \/ /\ ~More(i) /\ Or(v, i, width) = n /\ Suffix(i + 1) = X
         \/ /\ More(i)
            /\ \E u \in Nat \ {0} : /\ Suffix(i + 1) = encodeVarint[u] \o X
                                    /\ Or(v, i, width) + u * (128 * scale) = n
                                    /\ Or(v, i, width) \in Nat
  <2>1. v + w * scale < width
    BY <1>1, Zenon
  <2>2. /\ ~Stopped(i, l)
        /\ \/ /\ ~More(i) /\ Or(v, i, width) = v + w * scale /\ Suffix(i + 1) = X
           \/ /\ More(i)
              /\ \E u \in Nat \ {0} : /\ Suffix(i + 1) = encodeVarint[u] \o X
                                      /\ Or(v, i, width) + u * (128 * scale) = v + w * scale
                                      /\ Or(v, i, width) \in Nat
    BY <1>1, <2>1, VarintStep, Zenon
  <2> QED BY <1>1, <2>2, Zenon
<1>3. scale \in Nat
  BY WireAssumption DEF Types, Word
<1>4. v <= n
  <2>1. PICK k \in Nat : k = w * scale
    <3>1. w * scale \in Nat
      BY <1>3
    <3> QED BY <3>1
  <2>2. v + k = n
    BY <1>1, <2>1
  <2> QED BY <2>2
<1>5. CASE ~More(i)
  BY <1>2, <1>4, <1>5
<1>6. CASE More(i)
  <2>1. PICK u \in Nat \ {0} : /\ Suffix(i + 1) = encodeVarint[u] \o X
                               /\ Or(v, i, width) + u * (128 * scale) = n
                               /\ Or(v, i, width) \in Nat
    BY <1>2, <1>6
  <2>2. PICK o \in Nat : o = Or(v, i, width)
    BY <2>1
  <2>3. o <= n
    <3>1. PICK k \in Nat : k = u * (128 * scale)
      <4>1. u * (128 * scale) \in Nat
        BY <1>3
      <4> QED BY <4>1
    <3>2. o + k = n
      BY <2>1, <2>2, <3>1
    <3> QED BY <3>2
  <2>4. Left(i + 1, 128 * scale, o, n, X)
    <3>1. u \in Nat /\ u >= 1
      OBVIOUS
    <3>2. o + u * (128 * scale) = n
      BY <2>1, <2>2
    <3> QED BY <2>1, <3>1, <3>2, Zenon DEF Left
  <2> QED BY <1>2, <1>4, <1>6, <2>2, <2>3, <2>4
<1> QED BY <1>5, <1>6

-----------------------------------------------------------------------------
(* Reading back: the fields.                                                 *)

\* The zero of a type, which Marshal leaves out, and the bytes of any other value.
Blank(type) == IF type \in Scalars THEN 0 ELSE IF type = "string" THEN <<>> ELSE Nil
Content(type, v) == IF type = "string" THEN v ELSE v.bytes
Payload(type, v) ==
    IF type \in Scalars THEN encodeVarint[v]
                        ELSE encodeVarint[Len(Content(type, v))] \o Content(type, v)

Tag(message, j) == 8 * j + WireType(FieldType(message, j))
Absent(message, r, j) ==
    j \in DOMAIN Fields(message) => r[Name(message, j)] = Blank(FieldType(message, j))
Part(message, r, j) ==
    IF Absent(message, r, j) THEN <<>>
    ELSE <<Tag(message, j)>> \o Payload(FieldType(message, j), r[Name(message, j)])

\* A record of this version: no fields it does not know, and enumerations that are
\* not negative.
Plain(message, r) ==
    /\ IsRecord(message, r) /\ r.unrecognized = <<>>
    /\ \A j \in DOMAIN Fields(message) : FieldType(message, j) \in Scalars => r[Name(message, j)] \in Nat

\* The field numbers of a message begin at 1 and end at 7 at most.
LEMMA FieldNumbers ==
    ASSUME NEW message \in Messages
    PROVE  /\ DOMAIN Fields(message) \subseteq 1..7
           /\ \A j \in DOMAIN Fields(message) :
                 Tag(message, j) \in 0..127 /\ Tag(message, j) \div 8 = j
                 /\ Tag(message, j) % 8 = WireType(FieldType(message, j))
<1>1. DOMAIN Fields(message) \subseteq 1..7
  BY DEF Messages, Fields, ERC20Fields, NFTFields, PairFields, BlockFields
<1>2. ASSUME NEW j \in DOMAIN Fields(message)
      PROVE  Tag(message, j) \in 0..127 /\ Tag(message, j) \div 8 = j
             /\ Tag(message, j) % 8 = WireType(FieldType(message, j))
  <2>1. PICK t \in {0, 2} : t = WireType(FieldType(message, j))
    BY DEF WireType
  <2>2. j \in 1..7
    BY <1>1
  <2>3. 8 * j + t \in 0..127 /\ (8 * j + t) \div 8 = j /\ (8 * j + t) % 8 = t
    BY <2>2
  <2> QED BY <2>1, <2>3 DEF Tag
<1> QED BY <1>1, <1>2

\* What follows a tag may be joined first.
LEMMA TagFirst ==
    ASSUME NEW tag \in Byte, NEW e \in Seq(Byte), NEW c \in Seq(Byte)
    PROVE  (<<tag>> \o e) \o c = <<tag>> \o (e \o c) /\ <<tag>> \o e \in Seq(Byte)
<1>1. <<tag>> \in Seq(Byte)
  OBVIOUS
<1> QED BY <1>1, ConcatAssociative, ConcatProperties

\* A field's value, and its bytes if it is not zero.
LEMMA ContentType ==
    ASSUME NEW message \in Messages, NEW r, Plain(message, r), NEW j \in DOMAIN Fields(message)
    PROVE  LET type == FieldType(message, j)
               v == r[Name(message, j)]
           IN  /\ v \in Values(type)
               /\ type \in Scalars => v \in Nat
               /\ type \notin Scalars /\ v # Blank(type) => Content(type, v) \in Seq(Byte)
               /\ type = "time" /\ v # Blank(type) =>
                     Content(type, v) \in Times /\ v = Time(Content(type, v))
               /\ v # Blank(type) => Payload(type, v) \in Seq(Byte)
<1> DEFINE type == FieldType(message, j)
           v == r[Name(message, j)]
<1>1. v \in Values(type) /\ type \in Scalars \cup {"string", "time"}
  BY FieldFacts DEF Plain, IsRecord, FieldType
<1>2. type \in Scalars => v \in Nat
  BY DEF Plain
<1> HIDE DEF type, v
<1>3. ASSUME type = "time", v # Blank(type)
      PROVE  Content(type, v) \in Times /\ v = Time(Content(type, v))
  <2>1. v \in {Nil} \cup {Time(b) : b \in Times} /\ v # Nil
    BY <1>1, <1>3 DEF Values, Blank, Scalars
  <2>2. PICK b \in Times : v = Time(b)
    BY <2>1
  <2>3. v.bytes = b
    BY <2>2 DEF Time
  <2> QED BY <1>3, <2>2, <2>3 DEF Content
<1>4. ASSUME type \notin Scalars, v # Blank(type) PROVE Content(type, v) \in Seq(Byte)
  <2>1. CASE type = "string"
    BY <1>1, <2>1 DEF Content, Values
  <2>2. CASE type = "time"
    BY <1>3, <1>4, <2>2, WireAssumption DEF Byte
  <2> QED BY <1>1, <1>4, <2>1, <2>2
<1>5. ASSUME v # Blank(type) PROVE Payload(type, v) \in Seq(Byte)
  <2>1. CASE type \in Scalars
    BY <1>2, <2>1, EncodeVarintDef DEF Payload
  <2>2. CASE type \notin Scalars
    <3>1. PICK c \in Seq(Byte) : c = Content(type, v)
      BY <1>4, <1>5, <2>2
    <3>2. PICK n \in Nat : n = Len(c)
      BY LenProperties
    <3>3. encodeVarint[n] \in Seq(Byte)
      BY EncodeVarintDef
    <3>4. encodeVarint[n] \o c \in Seq(Byte)
      BY <3>3, ConcatProperties
    <3> QED BY <2>2, <3>1, <3>2, <3>4 DEF Payload
  <2> QED BY <2>1, <2>2
<1> QED BY <1>1, <1>2, <1>3, <1>4, <1>5 DEF type, v

\* The parts of a record are byte strings.
LEMMA PartType ==
    ASSUME NEW message \in Messages, NEW r, Plain(message, r), NEW j \in Nat
    PROVE  Part(message, r, j) \in Seq(Byte)
<1>1. CASE Absent(message, r, j)
  BY <1>1, EmptySeq DEF Part
<1>2. CASE ~Absent(message, r, j)
  <2>1. /\ j \in DOMAIN Fields(message)
        /\ r[Name(message, j)] # Blank(FieldType(message, j))
    BY <1>2 DEF Absent
  <2>2. PICK p \in Seq(Byte) : p = Payload(FieldType(message, j), r[Name(message, j)])
    BY <2>1, ContentType
  <2>3. PICK t \in Byte : t = Tag(message, j)
    <3>1. Tag(message, j) \in 0..127
      BY <2>1, FieldNumbers
    <3> QED BY <3>1 DEF Byte
  <2>4. <<t>> \o p \in Seq(Byte)
    BY TagFirst
  <2> QED BY <1>2, <2>2, <2>3, <2>4 DEF Part
<1> QED BY <1>1, <1>2

\* So they are the bytes that MarshalToSizedBuffer writes.
LEMMA PartIsField ==
    ASSUME NEW message \in Messages, NEW r, Plain(message, r), NEW j \in DOMAIN Fields(message)
    PROVE  LET type == FieldType(message, j)
               v == r[Name(message, j)]
           IN  /\ type \in Scalars => Part(message, r, j) = VarintField(8 * j, v)
               /\ type = "string" => Part(message, r, j) = StringField(8 * j + 2, v)
               /\ type = "time" => Part(message, r, j) = TimeField(8 * j + 2, v)
<1> DEFINE type == FieldType(message, j)
           v == r[Name(message, j)]
<1>0. j \in Nat /\ 8 * j + 2 \in Byte
  <2>1. j \in 1..7
    BY FieldNumbers
  <2> QED BY <2>1 DEF Byte
<1>1. /\ v \in Values(type) /\ (type \in Scalars => v \in Nat)
      /\ type = "time" /\ v # Blank(type) => v = Time(Content(type, v))
  BY ContentType
<1>2. Part(message, r, j) = IF v = Blank(type) THEN <<>> ELSE <<8 * j + WireType(type)>> \o Payload(type, v)
  BY DEF Part, Absent, Tag
<1> HIDE DEF type, v
<1>3. ASSUME type \in Scalars PROVE Part(message, r, j) = VarintField(8 * j, v)
  <2>1. WireType(type) = 0 /\ Blank(type) = 0 /\ Payload(type, v) = encodeVarint[v]
    BY <1>3 DEF WireType, Scalars, Blank, Payload
  <2>2. Unsigned(v) = v /\ 8 * j + 0 = 8 * j
    BY <1>0, <1>1, <1>3 DEF Unsigned
  <2> QED BY <1>2, <2>1, <2>2 DEF VarintField
<1>4. ASSUME type = "string" PROVE Part(message, r, j) = StringField(8 * j + 2, v)
  <2>1. /\ WireType(type) = 2 /\ Blank(type) = <<>>
        /\ Payload(type, v) = encodeVarint[Len(v)] \o v
    BY <1>4 DEF WireType, Scalars, Blank, Payload, Content
  <2>2. PICK n \in Nat : n = Len(v)
    BY <1>1, <1>4, LenProperties DEF Values
  <2>3. (<<8 * j + 2>> \o encodeVarint[n]) \o v = <<8 * j + 2>> \o (encodeVarint[n] \o v)
    <3>1. encodeVarint[n] \in Seq(Byte) /\ v \in Seq(Byte)
      BY <1>1, <1>4, EncodeVarintDef DEF Values
    <3> QED BY <1>0, <3>1, TagFirst
  <2> QED BY <1>2, <2>1, <2>2, <2>3 DEF StringField
<1>5. ASSUME type = "time" PROVE Part(message, r, j) = TimeField(8 * j + 2, v)
  <2>1. /\ WireType(type) = 2 /\ Blank(type) = Nil
        /\ Payload(type, v) = encodeVarint[Len(v.bytes)] \o v.bytes
    BY <1>5 DEF WireType, Scalars, Blank, Payload, Content
  <2>2. CASE v = Nil
    <3>1. v.nil = TRUE
      BY <2>2 DEF Nil
    <3> QED BY <1>2, <2>1, <2>2, <3>1 DEF TimeField
  <2>3. CASE v # Nil
    <3>1. v.nil = FALSE
      BY <1>1, <1>5, <2>1, <2>3 DEF Time
    <3>2. PICK c \in Seq(Byte) : c = v.bytes
      <4>1. Content(type, v) \in Seq(Byte)
        BY <1>5, <2>1, <2>3, ContentType DEF type, v, Scalars
      <4> QED BY <1>5, <4>1 DEF Content
    <3>3. PICK n \in Nat : n = Len(c)
      BY LenProperties
    <3>4. (<<8 * j + 2>> \o encodeVarint[n]) \o c = <<8 * j + 2>> \o (encodeVarint[n] \o c)
      <4>1. encodeVarint[n] \in Seq(Byte)
        BY EncodeVarintDef
      <4> QED BY <1>0, <4>1, TagFirst
    <3> QED BY <1>2, <2>1, <2>3, <3>1, <3>2, <3>3, <3>4 DEF TimeField
  <2> QED BY <2>2, <2>3
<1> QED BY <1>3, <1>4, <1>5 DEF type, v

-----------------------------------------------------------------------------
(* Reading back: the message.                                                *)

\* from[j] are the bytes of the fields j and up.
Splits(message, r, from) ==
    /\ \A j \in 1..8 : from[j] \in Seq(Byte)
    /\ from[8] = <<>>
    /\ \A j \in 1..7 : from[j] = Part(message, r, j) \o from[j + 1]

\* Concatenations of byte strings, joined and regrouped.
LEMMA Regroup ==
    ASSUME NEW s \in Seq(Byte), NEW t \in Seq(Byte), NEW u \in Seq(Byte)
    PROVE  s \o (t \o u) = (s \o t) \o u
BY ConcatAssociative

\* Two byte strings joined are one.
LEMMA Joined ==
    ASSUME NEW s \in Seq(Byte), NEW t \in Seq(Byte)
    PROVE  s \o t \in Seq(Byte)
BY ConcatProperties

\* A concatenation of seven, from the right as from the left.
LEMMA FromTheRight ==
    ASSUME NEW p, \A i \in 1..7 : p[i] \in Seq(Byte)
    PROVE  p[1] \o (p[2] \o (p[3] \o (p[4] \o (p[5] \o (p[6] \o p[7])))))
           = p[1] \o p[2] \o p[3] \o p[4] \o p[5] \o p[6] \o p[7]
<1> DEFINE a == p[1]
           b == p[2]
           c == p[3]
           d == p[4]
           e == p[5]
           f == p[6]
           g == p[7]
<1>1. a \in Seq(Byte)
  OBVIOUS
<1>2. b \in Seq(Byte)
  OBVIOUS
<1>3. c \in Seq(Byte)
  OBVIOUS
<1>4. d \in Seq(Byte)
  OBVIOUS
<1>5. e \in Seq(Byte)
  OBVIOUS
<1>6. f \in Seq(Byte)
  OBVIOUS
<1>7. g \in Seq(Byte)
  OBVIOUS
<1> HIDE DEF a, b, c, d, e, f, g
<1>8. f \o g \in Seq(Byte)
  BY <1>6, <1>7, Joined
<1>9. e \o (f \o g) \in Seq(Byte)
  BY <1>5, <1>8, Joined
<1>10. d \o (e \o (f \o g)) \in Seq(Byte)
  BY <1>4, <1>9, Joined
<1>11. c \o (d \o (e \o (f \o g))) \in Seq(Byte)
  BY <1>3, <1>10, Joined
<1>12. a \o b \in Seq(Byte)
  BY <1>1, <1>2, Joined
<1>13. a \o b \o c \in Seq(Byte)
  BY <1>12, <1>3, Joined
<1>14. a \o b \o c \o d \in Seq(Byte)
  BY <1>13, <1>4, Joined
<1>15. a \o b \o c \o d \o e \in Seq(Byte)
  BY <1>14, <1>5, Joined
<1>16. a \o (b \o (c \o (d \o (e \o (f \o g))))) = (a \o b) \o (c \o (d \o (e \o (f \o g))))
  BY <1>1, <1>2, <1>11, Regroup, Zenon
<1>17. (a \o b) \o (c \o (d \o (e \o (f \o g)))) = (a \o b \o c) \o (d \o (e \o (f \o g)))
  BY <1>12, <1>3, <1>10, Regroup, Zenon
<1>18. (a \o b \o c) \o (d \o (e \o (f \o g))) = (a \o b \o c \o d) \o (e \o (f \o g))
  BY <1>13, <1>4, <1>9, Regroup, Zenon
<1>19. (a \o b \o c \o d) \o (e \o (f \o g)) = (a \o b \o c \o d \o e) \o (f \o g)
  BY <1>14, <1>5, <1>8, Regroup, Zenon
<1>20. (a \o b \o c \o d \o e) \o (f \o g) = a \o b \o c \o d \o e \o f \o g
  BY <1>15, <1>6, <1>7, Regroup, Zenon
<1> QED BY <1>16, <1>17, <1>18, <1>19, <1>20, Zenon DEF a, b, c, d, e, f, g

\* Seven parts, some of them empty, and what they are from each on.
LEMMA SplitsExist ==
    ASSUME NEW message \in Messages, NEW r, Plain(message, r)
    PROVE  \E from : /\ Splits(message, r, from)
                     /\ from[1] = Part(message, r, 1) \o Part(message, r, 2) \o Part(message, r, 3)
                                  \o Part(message, r, 4) \o Part(message, r, 5)
                                  \o Part(message, r, 6) \o Part(message, r, 7)
<1>1. PICK a \in Seq(Byte) : a = Part(message, r, 1)
  BY PartType
<1>2. PICK b \in Seq(Byte) : b = Part(message, r, 2)
  BY PartType
<1>3. PICK c \in Seq(Byte) : c = Part(message, r, 3)
  BY PartType
<1>4. PICK d \in Seq(Byte) : d = Part(message, r, 4)
  BY PartType
<1>5. PICK e \in Seq(Byte) : e = Part(message, r, 5)
  BY PartType
<1>6. PICK f \in Seq(Byte) : f = Part(message, r, 6)
  BY PartType
<1>7. PICK g \in Seq(Byte) : g = Part(message, r, 7)
  BY PartType
<1>8. PICK t6 \in Seq(Byte) : t6 = f \o g
  BY ConcatProperties
<1>9. PICK t5 \in Seq(Byte) : t5 = e \o t6
  BY ConcatProperties
<1>10. PICK t4 \in Seq(Byte) : t4 = d \o t5
  BY ConcatProperties
<1>11. PICK t3 \in Seq(Byte) : t3 = c \o t4
  BY ConcatProperties
<1>12. PICK t2 \in Seq(Byte) : t2 = b \o t3
  BY ConcatProperties
<1>13. PICK t1 \in Seq(Byte) : t1 = a \o t2
  BY ConcatProperties
<1> DEFINE from == <<t1, t2, t3, t4, t5, t6, g, <<>>>>
<1>14. g = g \o <<>> /\ <<>> \in Seq(Byte)
  BY ConcatEmptySeq, EmptySeq
<1>15. /\ from[1] = t1 /\ from[2] = t2 /\ from[3] = t3 /\ from[4] = t4
       /\ from[5] = t5 /\ from[6] = t6 /\ from[7] = g /\ from[8] = <<>>
  OBVIOUS
<1> HIDE DEF from
<1>16. ASSUME NEW j \in 1..8 PROVE from[j] \in Seq(Byte)
  <2>1. j \in {1, 2, 3, 4, 5, 6, 7, 8}
    OBVIOUS
  <2> QED BY <1>14, <1>15, <2>1, Zenon
<1>17. ASSUME NEW j \in 1..7 PROVE from[j] = Part(message, r, j) \o from[j + 1]
  <2>1. /\ from[1] = Part(message, r, 1) \o from[2] /\ from[2] = Part(message, r, 2) \o from[3]
        /\ from[3] = Part(message, r, 3) \o from[4] /\ from[4] = Part(message, r, 4) \o from[5]
        /\ from[5] = Part(message, r, 5) \o from[6] /\ from[6] = Part(message, r, 6) \o from[7]
        /\ from[7] = Part(message, r, 7) \o from[8]
    BY <1>1, <1>2, <1>3, <1>4, <1>5, <1>6, <1>7, <1>8, <1>9, <1>10, <1>11, <1>12, <1>13, <1>14,
       <1>15, Zenon
  <2>2. <<j, j + 1>> \in {<<1, 2>>, <<2, 3>>, <<3, 4>>, <<4, 5>>, <<5, 6>>, <<6, 7>>, <<7, 8>>}
    OBVIOUS
  <2> QED BY <2>1, <2>2, Zenon
<1>18. from[1] = a \o b \o c \o d \o e \o f \o g
  <2>1. from[1] = a \o (b \o (c \o (d \o (e \o (f \o g)))))
    BY <1>8, <1>9, <1>10, <1>11, <1>12, <1>13, <1>15, Zenon
  <2> DEFINE p == [j \in 1..7 |-> Part(message, r, j)]
  <2>2. \A i \in 1..7 : p[i] \in Seq(Byte)
    <3>1. ASSUME NEW i \in 1..7 PROVE Part(message, r, i) \in Seq(Byte)
      <4>1. i \in Nat
        OBVIOUS
      <4> QED BY <4>1, PartType
    <3> QED BY <3>1, Zenon
  <2>3. /\ p[1] = a /\ p[2] = b /\ p[3] = c /\ p[4] = d /\ p[5] = e /\ p[6] = f /\ p[7] = g
    BY <1>1, <1>2, <1>3, <1>4, <1>5, <1>6, <1>7
  <2> HIDE DEF p
  <2>4. p[1] \o (p[2] \o (p[3] \o (p[4] \o (p[5] \o (p[6] \o p[7])))))
        = p[1] \o p[2] \o p[3] \o p[4] \o p[5] \o p[6] \o p[7]
    BY <2>2, FromTheRight
  <2> QED BY <2>1, <2>3, <2>4, Zenon
<1>19. Splits(message, r, from)
  BY <1>15, <1>16, <1>17 DEF Splits
<1> QED BY <1>1, <1>2, <1>3, <1>4, <1>5, <1>6, <1>7, <1>18, <1>19

\* From a field on, the next bytes are those of the first field that is not absent.
LEMMA NextPart ==
    ASSUME NEW message \in Messages, NEW r, Plain(message, r), NEW from, Splits(message, r, from),
           NEW j \in 1..8
    PROVE  \/ from[j] = <<>> /\ \A i \in j..7 : Absent(message, r, i)
           \/ \E k \in j..7 : /\ ~Absent(message, r, k)
                              /\ from[j] = Part(message, r, k) \o from[k + 1]
                              /\ \A i \in j..(k - 1) : Absent(message, r, i)
<1> DEFINE Next8(n) ==
       \/ from[n] = <<>> /\ \A i \in n..7 : Absent(message, r, i)
       \/ \E k \in n..7 : /\ ~Absent(message, r, k)
                          /\ from[n] = Part(message, r, k) \o from[k + 1]
                          /\ \A i \in n..(k - 1) : Absent(message, r, i)
<1>1. Next8(8)
  BY DEF Splits
<1>0. \A n \in 1..7 : from[n] = Part(message, r, n) \o from[n + 1] /\ from[n + 1] \in Seq(Byte)
  <2> HIDE DEF Next8
  <2>1. \A n \in 1..7 : n + 1 \in 1..8
    OBVIOUS
  <2> QED BY <2>1, Zenon DEF Splits
<1>2. ASSUME NEW n \in 1..7, Next8(n + 1) PROVE Next8(n)
  <2>1. from[n] = Part(message, r, n) \o from[n + 1] /\ from[n + 1] \in Seq(Byte)
    <3> HIDE DEF Next8
    <3> QED BY <1>0
  <2>2. CASE ~Absent(message, r, n)
    <3>1. n \in n..7 /\ \A i \in n..(n - 1) : Absent(message, r, i)
      OBVIOUS
    <3> QED BY <2>1, <2>2, <3>1, Zenon
  <2>3. CASE Absent(message, r, n)
    <3>1. from[n] = from[n + 1]
      <4>1. Part(message, r, n) = <<>>
        BY <2>3 DEF Part
      <4> QED BY <2>1, <4>1, ConcatEmptySeq
    <3>2. CASE from[n + 1] = <<>> /\ \A i \in (n + 1)..7 : Absent(message, r, i)
      <4>1. \A i \in n..7 : Absent(message, r, i)
        BY <2>3, <3>2
      <4> QED BY <3>1, <3>2, <4>1
    <3>3. CASE \E k \in (n + 1)..7 : /\ ~Absent(message, r, k)
                                     /\ from[n + 1] = Part(message, r, k) \o from[k + 1]
                                     /\ \A i \in (n + 1)..(k - 1) : Absent(message, r, i)
      <4>1. PICK k \in (n + 1)..7 : /\ ~Absent(message, r, k)
                                    /\ from[n + 1] = Part(message, r, k) \o from[k + 1]
                                    /\ \A i \in (n + 1)..(k - 1) : Absent(message, r, i)
        BY <3>3
      <4>2. k \in n..7 /\ \A i \in n..(k - 1) : Absent(message, r, i)
        BY <2>3, <4>1
      <4> QED BY <3>1, <4>1, <4>2
    <3> QED BY <1>2, <3>2, <3>3
  <2> QED BY <2>2, <2>3
<1> HIDE DEF Next8
<1>3. Next8(7)
  BY <1>1, <1>2
<1>4. Next8(6)
  BY <1>2, <1>3
<1>5. Next8(5)
  BY <1>2, <1>4
<1>6. Next8(4)
  BY <1>2, <1>5
<1>7. Next8(3)
  BY <1>2, <1>6
<1>8. Next8(2)
  BY <1>2, <1>7
<1>9. Next8(1)
  BY <1>2, <1>8
<1>10. Next8(j)
  BY <1>1, <1>3, <1>4, <1>5, <1>6, <1>7, <1>8, <1>9
<1> QED BY <1>10 DEF Next8

\* Marshal writes the parts of a record, one after the other.
LEMMA BytesAreParts ==
    ASSUME NEW message \in Messages, NEW r, Plain(message, r)
    PROVE  Bytes(message, r)
           = Part(message, r, 1) \o Part(message, r, 2) \o Part(message, r, 3)
             \o Part(message, r, 4) \o Part(message, r, 5)
             \o Part(message, r, 6) \o Part(message, r, 7)
<1> DEFINE p(j) == Part(message, r, j)
<1>1. /\ p(1) \o p(2) \in Seq(Byte) /\ p(1) \o p(2) \o p(3) \in Seq(Byte)
      /\ p(1) \o p(2) \o p(3) \o p(4) \o p(5) \in Seq(Byte)
      /\ p(1) \o p(2) \o p(3) \o p(4) \o p(5) \o p(6) \o p(7) \in Seq(Byte)
  <2>1. /\ p(1) \in Seq(Byte) /\ p(2) \in Seq(Byte) /\ p(3) \in Seq(Byte) /\ p(4) \in Seq(Byte)
        /\ p(5) \in Seq(Byte) /\ p(6) \in Seq(Byte) /\ p(7) \in Seq(Byte)
    BY PartType
  <2> HIDE DEF p
  <2>2. p(1) \o p(2) \in Seq(Byte)
    BY <2>1, Joined
  <2>3. p(1) \o p(2) \o p(3) \in Seq(Byte)
    BY <2>1, <2>2, Joined
  <2>4. p(1) \o p(2) \o p(3) \o p(4) \in Seq(Byte)
    BY <2>1, <2>3, Joined
  <2>5. p(1) \o p(2) \o p(3) \o p(4) \o p(5) \in Seq(Byte)
    BY <2>1, <2>4, Joined
  <2>6. p(1) \o p(2) \o p(3) \o p(4) \o p(5) \o p(6) \in Seq(Byte)
    BY <2>1, <2>5, Joined
  <2>7. p(1) \o p(2) \o p(3) \o p(4) \o p(5) \o p(6) \o p(7) \in Seq(Byte)
    BY <2>1, <2>6, Joined
  <2> QED BY <2>2, <2>3, <2>5, <2>7
<1>2. r.unrecognized = <<>>
  BY DEF Plain
<1>3. \A s \in Seq(Byte) : s \o <<>> = s
  BY ConcatEmptySeq
<1> SUFFICES Bytes(message, r) = p(1) \o p(2) \o p(3) \o p(4) \o p(5) \o p(6) \o p(7)
  OBVIOUS
<1>4. CASE message = "erc20"
  <2>1. /\ p(1) = VarintField(8, r.id) /\ p(2) = StringField(18, r.token)
        /\ p(3) = StringField(26, r.sender) /\ p(4) = StringField(34, r.amount)
        /\ p(5) = VarintField(40, r.retry) /\ p(6) = VarintField(48, r.status)
        /\ p(7) = TimeField(58, r.updated_at)
    <3>1. /\ DOMAIN Fields(message) = 1..7
          /\ Name(message, 1) = "id" /\ FieldType(message, 1) = "uint64"
          /\ Name(message, 2) = "token" /\ FieldType(message, 2) = "string"
          /\ Name(message, 3) = "sender" /\ FieldType(message, 3) = "string"
          /\ Name(message, 4) = "amount" /\ FieldType(message, 4) = "string"
          /\ Name(message, 5) = "retry" /\ FieldType(message, 5) = "uint32"
          /\ Name(message, 6) = "status" /\ FieldType(message, 6) = "int32"
          /\ Name(message, 7) = "updated_at" /\ FieldType(message, 7) = "time"
      BY <1>4 DEF Name, FieldType, Fields, ERC20Fields, Field
    <3> QED BY <3>1, PartIsField DEF Scalars
  <2>2. Bytes(message, r) = ERC20Bytes(r)
    BY <1>4 DEF Bytes
  <2> HIDE DEF p
  <2>3. ERC20Bytes(r) = p(1) \o p(2) \o p(3) \o p(4) \o p(5) \o p(6) \o p(7) \o <<>>
    BY <1>2, <2>1, Zenon DEF ERC20Bytes
  <2> QED BY <1>1, <1>3, <2>2, <2>3, Zenon
<1>5. CASE message = "nft"
  <2>1. /\ p(1) = VarintField(8, r.id) /\ p(2) = StringField(18, r.token)
        /\ p(3) = StringField(26, r.sender) /\ p(4) = VarintField(32, r.tokenid)
        /\ p(5) = VarintField(40, r.retry) /\ p(6) = VarintField(48, r.status)
        /\ p(7) = TimeField(58, r.updated_at)
    <3>1. /\ DOMAIN Fields(message) = 1..7
          /\ Name(message, 1) = "id" /\ FieldType(message, 1) = "uint64"
          /\ Name(message, 2) = "token" /\ FieldType(message, 2) = "string"
          /\ Name(message, 3) = "sender" /\ FieldType(message, 3) = "string"
          /\ Name(message, 4) = "tokenid" /\ FieldType(message, 4) = "uint64"
          /\ Name(message, 5) = "retry" /\ FieldType(message, 5) = "uint32"
          /\ Name(message, 6) = "status" /\ FieldType(message, 6) = "int32"
          /\ Name(message, 7) = "updated_at" /\ FieldType(message, 7) = "time"
      BY <1>5 DEF Name, FieldType, Fields, NFTFields, Field
    <3> QED BY <3>1, PartIsField DEF Scalars
  <2>2. Bytes(message, r) = NFTBytes(r)
    BY <1>5 DEF Bytes
  <2> HIDE DEF p
  <2>3. NFTBytes(r) = p(1) \o p(2) \o p(3) \o p(4) \o p(5) \o p(6) \o p(7) \o <<>>
    BY <1>2, <2>1, Zenon DEF NFTBytes
  <2> QED BY <1>1, <1>3, <2>2, <2>3, Zenon
<1>6. CASE message = "pair"
  <2>0. /\ DOMAIN Fields(message) = 1..5
        /\ Name(message, 1) = "inaddr" /\ FieldType(message, 1) = "string"
        /\ Name(message, 2) = "outaddr" /\ FieldType(message, 2) = "string"
        /\ Name(message, 3) = "intype" /\ FieldType(message, 3) = "int32"
        /\ Name(message, 4) = "outtype" /\ FieldType(message, 4) = "int32"
        /\ Name(message, 5) = "updated_at" /\ FieldType(message, 5) = "time"
    BY <1>6 DEF Name, FieldType, Fields, PairFields, Field
  <2>1. /\ p(1) = StringField(10, r.inaddr) /\ p(2) = StringField(18, r.outaddr)
        /\ p(3) = VarintField(24, r.intype) /\ p(4) = VarintField(32, r.outtype)
        /\ p(5) = TimeField(42, r.updated_at)
    BY <2>0, PartIsField DEF Scalars
  <2>2. p(6) = <<>> /\ p(7) = <<>>
    BY <2>0 DEF Part, Absent
  <2>3. Bytes(message, r) = PairBytes(r)
    BY <1>6 DEF Bytes
  <2> HIDE DEF p
  <2>4. PairBytes(r) = p(1) \o p(2) \o p(3) \o p(4) \o p(5) \o <<>>
    BY <1>2, <2>1, Zenon DEF PairBytes
  <2> QED BY <1>1, <1>3, <2>2, <2>3, <2>4, Zenon
<1>7. CASE message = "block"
  <2>0. /\ DOMAIN Fields(message) = 1..3
        /\ Name(message, 1) = "hash" /\ FieldType(message, 1) = "string"
        /\ Name(message, 2) = "number" /\ FieldType(message, 2) = "uint64"
        /\ Name(message, 3) = "updated_at" /\ FieldType(message, 3) = "time"
    BY <1>7 DEF Name, FieldType, Fields, BlockFields, Field
  <2>1. /\ p(1) = StringField(10, r.hash) /\ p(2) = VarintField(16, r.number)
        /\ p(3) = TimeField(26, r.updated_at)
    BY <2>0, PartIsField DEF Scalars
  <2>2. p(4) = <<>> /\ p(5) = <<>> /\ p(6) = <<>> /\ p(7) = <<>>
    BY <2>0 DEF Part, Absent
  <2>3. Bytes(message, r) = BlockBytes(r)
    BY <1>7 DEF Bytes
  <2> HIDE DEF p
  <2>4. BlockBytes(r) = p(1) \o p(2) \o p(3) \o <<>>
    BY <1>2, <2>1, Zenon DEF BlockBytes
  <2> QED BY <1>1, <1>3, <2>2, <2>3, <2>4, Zenon
<1> QED BY <1>4, <1>5, <1>6, <1>7 DEF Messages

-----------------------------------------------------------------------------
(* Reading back: the steps of Unmarshal.                                     *)

\* The record that is filled has the fields of r below j, and those that r's bytes
\* do not mention.
Agrees(r, j) ==
    /\ m.unrecognized = <<>>
    /\ \A i \in DOMAIN Fields(msg) :
          i < j \/ Absent(msg, r, i) => m[Name(msg, i)] = r[Name(msg, i)]

\* Unmarshal reads the bytes of r: what it has read so far and the bytes to come
\* are r, and it has not failed.
Value(r) == r[Name(msg, field)]
Reads(r, from) ==
    /\ pc \in {"loop", "tag", "field", "varint", "length", "check", "slice", "ok"}
    /\ pc \in {"loop", "tag"} => \E j \in 1..8 : Suffix(iNdEx) = from[j] /\ Agrees(r, j)
    /\ pc = "tag" => iNdEx < l /\ wire = 0 /\ scale = 1
    /\ pc \in {"field", "varint", "length", "check", "slice"} =>
          Known /\ ~Absent(msg, r, field) /\ Agrees(r, field)
    /\ pc = "field" =>
          /\ wire = Tag(msg, field) /\ scale = 1
          /\ Suffix(iNdEx) = Payload(Type, Value(r)) \o from[field + 1]
    /\ pc = "varint" =>
          /\ m[Name(msg, field)] \in Nat
          /\ Left(iNdEx, scale, m[Name(msg, field)], Value(r), from[field + 1])
    /\ pc = "length" => Left(iNdEx, scale, wire, Len(Content(Type, Value(r))),
                             Content(Type, Value(r)) \o from[field + 1])
    /\ pc \in {"check", "slice"} =>
          Suffix(iNdEx) = Content(Type, Value(r)) \o from[field + 1]
    /\ pc = "check" => wire = Len(Content(Type, Value(r)))
    /\ pc = "slice" => postIndex = iNdEx + Len(Content(Type, Value(r)))
    /\ pc = "ok" => m = r

\* A field set, and the fields below the next one.
LEMMA FieldSet ==
    ASSUME msg \in Messages, IsRecord(msg, m), NEW r, NEW j \in DOMAIN Fields(msg),
           Agrees(r, j), ~Absent(msg, r, j), NEW v,
           msg' = msg, m' = [m EXCEPT ![Name(msg, j)] = v]
    PROVE  /\ Agrees(r, j)' /\ m'[Name(msg, j)] = v
           /\ v = r[Name(msg, j)] => Agrees(r, j + 1)'
<1> DEFINE names == {Name(msg, i) : i \in DOMAIN Fields(msg)} \cup {"unrecognized"}
<1>1. m = [name \in names |-> m[name]]
  BY DEF IsRecord
<1>2. /\ Name(msg, j) \in names /\ Name(msg, j) # "unrecognized" /\ "unrecognized" \in names
      /\ \A i \in DOMAIN Fields(msg) : Name(msg, i) \in names
  BY FieldFacts
<1> HIDE DEF names
<1>3. \A name \in names : m'[name] = IF name = Name(msg, j) THEN v ELSE m[name]
  BY <1>1, <1>2
<1>4. m'.unrecognized = <<>>
  BY <1>2, <1>3 DEF Agrees
<1>5. m'[Name(msg, j)] = v
  BY <1>2, <1>3
<1>6. ASSUME NEW i \in DOMAIN Fields(msg), i # j PROVE m'[Name(msg, i)] = m[Name(msg, i)]
  <2>1. Name(msg, i) # Name(msg, j)
    BY <1>6, FieldFacts
  <2> QED BY <1>2, <1>3, <2>1
<1>7. j \in Nat /\ \A i \in DOMAIN Fields(msg) : i \in Nat
  <2>1. DOMAIN Fields(msg) \subseteq 1..7
    BY FieldNumbers
  <2> QED BY <2>1
<1>8. Agrees(r, j)'
  <2>1. ASSUME NEW i \in DOMAIN Fields(msg), i < j \/ Absent(msg, r, i)
        PROVE  m'[Name(msg, i)] = r[Name(msg, i)]
    <3>1. i # j
      BY <1>7, <2>1
    <3> QED BY <1>6, <2>1, <3>1 DEF Agrees
  <2> QED BY <1>4, <2>1 DEF Agrees
<1>9. ASSUME v = r[Name(msg, j)] PROVE Agrees(r, j + 1)'
  <2>1. ASSUME NEW i \in DOMAIN Fields(msg), i < j + 1 \/ Absent(msg, r, i)
        PROVE  m'[Name(msg, i)] = r[Name(msg, i)]
    <3>1. CASE i = j
      BY <1>5, <1>9, <3>1
    <3>2. CASE i # j
      <4>1. i < j \/ Absent(msg, r, i)
        BY <1>7, <2>1, <3>2
      <4> QED BY <1>6, <3>2, <4>1 DEF Agrees
    <3> QED BY <3>1, <3>2
  <2> QED BY <1>4, <2>1 DEF Agrees
<1> QED BY <1>5, <1>8, <1>9

\* All fields read.
LEMMA AllFields ==
    ASSUME msg \in Messages, IsRecord(msg, m), NEW r, Plain(msg, r), Agrees(r, 8)
    PROVE  m = r
<1> DEFINE names == {Name(msg, i) : i \in DOMAIN Fields(msg)} \cup {"unrecognized"}
<1>1. m = [name \in names |-> m[name]] /\ r = [name \in names |-> r[name]]
  BY DEF IsRecord, Plain
<1>2. ASSUME NEW name \in names PROVE m[name] = r[name]
  <2>1. CASE name = "unrecognized"
    BY <2>1 DEF Agrees, Plain
  <2>2. CASE name # "unrecognized"
    <3>1. PICK i \in DOMAIN Fields(msg) : name = Name(msg, i)
      BY <2>2
    <3>2. i < 8
      <4>1. i \in 1..7
        BY FieldNumbers
      <4> QED BY <4>1
    <3> QED BY <3>1, <3>2 DEF Agrees
  <2> QED BY <2>1, <2>2
<1> HIDE DEF names
<1>3. [name \in names |-> m[name]] = [name \in names |-> r[name]]
  BY <1>2
<1> QED BY <1>1, <1>3, Zenon

\* Which actions a step may be.
LEMMA StepAt ==
    ASSUME UnmarshalStep
    PROVE  /\ pc = "loop" => NextField \/ Finish
           /\ pc = "tag" => ReadTag \/ ReadStopped
           /\ pc = "field" => BadTag \/ StartVarint \/ StartLength \/ StartSkip
           /\ pc = "varint" => ReadVarint \/ ReadStopped
           /\ pc = "length" => ReadLength \/ ReadStopped
           /\ pc = "check" => LengthTaken \/ LengthRefused
           /\ pc = "slice" => TakeString \/ TakeTime \/ TakeTimeErr
           /\ pc # "ok"
<1>1. CASE FieldStep
  BY <1>1 DEF FieldStep, NextField, ReadTag, ReadStopped, BadTag, StartVarint, FieldOf, ReadVarint,
              StartLength, ReadLength, LengthTaken, LengthRefused, CheckLength, TakeString,
              TakeTime, TakeTimeErr, TakeSlice, Finish
<1>2. CASE SkipStep
  BY <1>2 DEF SkipStep, StartSkip, SkipNext, SkipStopped, SkipTag, SkipVarint, SkipLength,
              SkipRead, SkipType, SkipGoto, SkipBytes, SkipEnd, SkipTaken, SkipRefused,
              CheckLength, TakeUnknown, TakeSlice
<1> QED BY <1>1, <1>2 DEF UnmarshalStep

\* What is left to read is empty at the end, and only there.
LEMMA EmptySuffix ==
    ASSUME IsSlice(dAtA), NEW i \in 0..l
    PROVE  Suffix(i) = <<>> <=> i = l
<1>1. dAtA \in Seq(Byte) /\ l = Len(dAtA) /\ l \in Nat
  BY LenProperties DEF IsSlice, l
<1>2. \A x \in (i + 1)..l : dAtA[x] \in Byte
  BY <1>1, ElementOfSeq
<1>3. Suffix(i) \in Seq(Byte) /\ Len(Suffix(i)) = l - i
  <2>1. i + 1 \in Int /\ l \in Int
    BY <1>1
  <2>2. /\ SubSeq(dAtA, i + 1, l) \in Seq(Byte)
        /\ Len(SubSeq(dAtA, i + 1, l)) = IF i + 1 <= l THEN l - (i + 1) + 1 ELSE 0
    BY <1>2, <2>1, SubSeqProperties
  <2> QED BY <1>1, <2>2 DEF Suffix
<1>4. Suffix(i) = <<>> <=> Len(Suffix(i)) = 0
  BY <1>3, EmptySeq
<1> QED BY <1>1, <1>3, <1>4

\* Between two fields: the loop goes on while there are bytes, and at their end the
\* record is read.
LEMMA ReadsLoop ==
    ASSUME IndexInv, RecordInv, NEW r, Plain(msg, r), NEW from, Splits(msg, r, from),
           Reads(r, from), pc = "loop", NextField \/ Finish
    PROVE  Reads(r, from)'
<1>0. IsSlice(dAtA) /\ iNdEx \in 0..l /\ l \in Nat /\ msg \in Messages /\ IsRecord(msg, m)
  BY LenProperties DEF IndexInv, Types, RecordInv, IsSlice, l
<1>1. PICK j \in 1..8 : Suffix(iNdEx) = from[j] /\ Agrees(r, j)
  BY DEF Reads
<1>2. CASE NextField
  <2>1. /\ UNCHANGED <<msg, dAtA, m, iNdEx>> /\ pc' = "tag" /\ wire' = 0 /\ scale' = 1
        /\ iNdEx < l
    BY <1>2 DEF NextField
  <2>2. Suffix(iNdEx)' = from[j] /\ Agrees(r, j)' /\ l' = l
    BY <1>1, <2>1 DEF Suffix, Agrees, l
  <2> QED BY <2>1, <2>2 DEF Reads
<1>3. CASE Finish
  <2>1. UNCHANGED <<msg, dAtA, m, iNdEx>> /\ pc' = "ok" /\ iNdEx = l
    BY <1>0, <1>3 DEF Finish, indexVars
  <2>2. from[j] = <<>>
    BY <1>0, <1>1, <2>1, EmptySuffix
  <2>3. \A i \in j..7 : Absent(msg, r, i)
    <3>1. SUFFICES ASSUME NEW k \in j..7, ~Absent(msg, r, k),
                          from[j] = Part(msg, r, k) \o from[k + 1]
                   PROVE  FALSE
      BY <1>0, NextPart
    <3>2. Part(msg, r, k) # <<>>
      BY <3>1 DEF Part
    <3>3. Part(msg, r, k) \in Seq(Byte) /\ from[k + 1] \in Seq(Byte)
      <4>1. k \in Nat /\ k + 1 \in 1..8
        OBVIOUS
      <4> QED BY <1>0, <4>1, PartType DEF Splits
    <3> QED BY <2>2, <3>1, <3>2, <3>3, ConcatEmptySeq
  <2>4. Agrees(r, 8)
    <3>1. ASSUME NEW i \in DOMAIN Fields(msg) PROVE i < j \/ Absent(msg, r, i)
      <4>1. i \in 1..7
        BY <1>0, FieldNumbers
      <4>2. i < j \/ i \in j..7
        BY <4>1
      <4> QED BY <2>3, <4>2
    <3> QED BY <1>1, <3>1 DEF Agrees
  <2>5. m = r
    BY <1>0, <2>4, AllFields
  <2> QED BY <2>1, <2>5 DEF Reads
<1> QED BY <1>2, <1>3

\* The bytes of a tag.
LEMMA NextTag ==
    ASSUME IndexInv, RecordInv, NEW r, Plain(msg, r), NEW from, Splits(msg, r, from),
           NEW j \in 1..8, Suffix(iNdEx) = from[j], Agrees(r, j), iNdEx < l
    PROVE  \E k \in DOMAIN Fields(msg) :
              /\ ~Absent(msg, r, k) /\ Agrees(r, k)
              /\ dAtA[iNdEx + 1] = Tag(msg, k)
              /\ Suffix(iNdEx + 1) = Payload(FieldType(msg, k), r[Name(msg, k)]) \o from[k + 1]
<1>0. IsSlice(dAtA) /\ iNdEx \in 0..l /\ l \in Nat /\ msg \in Messages
  BY LenProperties DEF IndexInv, Types, RecordInv, IsSlice, l
<1>1. from[j] # <<>>
  BY <1>0, EmptySuffix
<1>2. PICK k \in j..7 : /\ ~Absent(msg, r, k)
                        /\ from[j] = Part(msg, r, k) \o from[k + 1]
                        /\ \A i \in j..(k - 1) : Absent(msg, r, i)
  BY <1>0, <1>1, NextPart
<1>3. k \in DOMAIN Fields(msg) /\ r[Name(msg, k)] # Blank(FieldType(msg, k))
  BY <1>2 DEF Absent
<1>4. PICK p \in Seq(Byte) : p = Payload(FieldType(msg, k), r[Name(msg, k)])
  BY <1>0, <1>3, ContentType
<1>5. PICK t \in Byte : t = Tag(msg, k)
  <2>1. Tag(msg, k) \in 0..127
    BY <1>0, <1>3, FieldNumbers
  <2> QED BY <2>1 DEF Byte
<1>6. PICK x \in Seq(Byte) : x = from[k + 1]
  <2>1. k + 1 \in 1..8
    OBVIOUS
  <2> QED BY <2>1 DEF Splits
<1>7. PICK y \in Seq(Byte) : y = p \o x
  BY Joined
<1>8. Part(msg, r, k) = <<t>> \o p
  BY <1>2, <1>4, <1>5 DEF Part
<1>9. Suffix(iNdEx) = <<t>> \o y
  <2>1. (<<t>> \o p) \o x = <<t>> \o (p \o x)
    BY TagFirst
  <2> QED BY <1>2, <1>6, <1>7, <1>8, <2>1, Zenon
<1>10. dAtA[iNdEx + 1] = t /\ Suffix(iNdEx + 1) = y
  BY <1>0, <1>9, TakeByte
<1>11. Agrees(r, k)
  <2>1. ASSUME NEW i \in DOMAIN Fields(msg), i < k \/ Absent(msg, r, i)
        PROVE  i < j \/ Absent(msg, r, i)
    <3>1. i \in 1..7
      BY <1>0, FieldNumbers
    <3>2. i < k => i < j \/ i \in j..(k - 1)
      BY <3>1
    <3> QED BY <1>2, <2>1, <3>2
  <2> QED BY <2>1 DEF Agrees
<1> QED BY <1>2, <1>3, <1>4, <1>5, <1>6, <1>7, <1>10, <1>11

\* A tag is one byte, and names its field.
LEMMA ReadsTag ==
    ASSUME IndexInv, RecordInv, NEW r, Plain(msg, r), NEW from, Splits(msg, r, from),
           Reads(r, from), pc = "tag", ReadTag \/ ReadStopped
    PROVE  Reads(r, from)'
<1>0. msg \in Messages /\ iNdEx < l /\ wire = 0 /\ scale = 1
  BY DEF Reads, RecordInv
<1>1. PICK j \in 1..8 : Suffix(iNdEx) = from[j] /\ Agrees(r, j)
  BY DEF Reads
<1>2. PICK k \in DOMAIN Fields(msg) :
              /\ ~Absent(msg, r, k) /\ Agrees(r, k)
              /\ dAtA[iNdEx + 1] = Tag(msg, k)
              /\ Suffix(iNdEx + 1) = Payload(FieldType(msg, k), r[Name(msg, k)]) \o from[k + 1]
  BY <1>0, <1>1, NextTag
<1>3. PICK t \in 0..127 : t = Tag(msg, k) /\ t \div 8 = k /\ k \in 1..7
  BY <1>0, FieldNumbers
<1>4. ~Stopped(iNdEx, l) /\ ~More(iNdEx)
  <2>1. ~(scale >= Word)
    BY <1>0, WireAssumption DEF Word
  <2>2. ~(iNdEx >= l)
    BY <1>0, LenProperties DEF IndexInv, Types, IsSlice, l
  <2> QED BY <1>2, <1>3, <2>1, <2>2 DEF Stopped, More
<1>5. ReadTag /\ pc' = "field" /\ scale' = 1 /\ UNCHANGED <<msg, dAtA, m>> /\ iNdEx' = iNdEx + 1
  BY <1>4 DEF ReadStopped, ReadTag, ReadByte
<1>6. wire' = t
  <2>1. wire' = (0 + (t % 128) * 1) % Word
    BY <1>0, <1>2, <1>3, <1>5 DEF ReadTag, Or
  <2>2. t % 128 = t /\ Word \in Nat /\ t < Word
    BY WireAssumption, LowBits DEF Word
  <2>3. t % Word = t
    BY <2>2, SmallMod
  <2> QED BY <2>1, <2>2, <2>3
<1>7. field' = k
  <2>1. field' = Signed32(k % Word32)
    BY <1>3, <1>5, <1>6 DEF ReadTag
  <2>2. Word32 \in Nat /\ k \in Nat /\ k < Word32 /\ k < Sign32
    BY <1>3, WireAssumption DEF Word32
  <2>3. k % Word32 = k
    BY <2>2, SmallMod
  <2> QED BY <2>1, <2>2, <2>3 DEF Signed32
<1>8. /\ Suffix(iNdEx)' = Payload(FieldType(msg, k), r[Name(msg, k)]) \o from[k + 1]
      /\ Agrees(r, field)'
  BY <1>2, <1>5, <1>7 DEF Suffix, l, Agrees
<1>9. Known' /\ Type' = FieldType(msg, k) /\ Value(r)' = r[Name(msg, k)]
  BY <1>5, <1>7 DEF Known, Type, FieldType, Value
<1>10. ~Absent(msg', r, field') /\ Tag(msg', field') = t
  BY <1>2, <1>3, <1>5, <1>7
<1> QED BY <1>5, <1>6, <1>7, <1>8, <1>9, <1>10 DEF Reads

\* What Unmarshal knows of the field it reads.
LEMMA FieldKnown ==
    ASSUME RecordInv, NEW r, Plain(msg, r), Known, ~Absent(msg, r, field)
    PROVE  /\ field \in 1..7 /\ Type = FieldType(msg, field)
           /\ Type \in Scalars \cup {"string", "time"}
           /\ Value(r) \in Values(Type) /\ Value(r) # Blank(Type)
           /\ Type \in Scalars => Value(r) \in Nat
           /\ Type \notin Scalars => Content(Type, Value(r)) \in Seq(Byte)
           /\ Type = "time" => /\ Name(msg, field) = "updated_at"
                               /\ Content(Type, Value(r)) \in Times
                               /\ Value(r) = Time(Content(Type, Value(r)))
<1>1. msg \in Messages /\ field \in DOMAIN Fields(msg) /\ Type = FieldType(msg, field)
  BY DEF RecordInv, Known, Type, FieldType
<1>2. field \in 1..7
  BY <1>1, FieldNumbers
<1>3. Value(r) # Blank(Type)
  BY <1>1 DEF Absent, Value
<1> QED BY <1>1, <1>2, <1>3, ContentType, FieldFacts DEF Value

\* A tag that is known is never refused, and its field's value begins.
LEMMA ReadsField ==
    ASSUME IndexInv, RecordInv, NEW r, Plain(msg, r), NEW from, Splits(msg, r, from),
           Reads(r, from), pc = "field", BadTag \/ StartVarint \/ StartLength \/ StartSkip
    PROVE  Reads(r, from)'
<1>0. /\ Known /\ ~Absent(msg, r, field) /\ Agrees(r, field)
      /\ wire = Tag(msg, field) /\ scale = 1
      /\ Suffix(iNdEx) = Payload(Type, Value(r)) \o from[field + 1]
      /\ msg \in Messages /\ IsRecord(msg, m)
  BY DEF Reads, RecordInv
<1>1. /\ field \in 1..7 /\ Type = FieldType(msg, field) /\ field \in DOMAIN Fields(msg)
      /\ Type \in Scalars => Value(r) \in Nat
      /\ Type \notin Scalars => Content(Type, Value(r)) \in Seq(Byte)
  BY <1>0, FieldKnown DEF Known
<1>2. wire % 8 = WireType(Type)
  BY <1>0, <1>1, FieldNumbers
<1>3. WireType(Type) \in {0, 2} /\ (WireType(Type) = 0 <=> Type \in Scalars)
  <2>1. Type \in Scalars \cup {"string", "time"}
    BY <1>0, FieldKnown
  <2> QED BY <2>1 DEF WireType, Scalars
<1>4. ~BadTag /\ ~StartSkip
  BY <1>0, <1>1, <1>2, <1>3 DEF BadTag, StartSkip
<1>5. CASE StartVarint
  <2>1. /\ pc' = "varint" /\ m' = [m EXCEPT ![Name(msg, field)] = 0]
        /\ UNCHANGED <<msg, dAtA, iNdEx, field, scale>> /\ Type \in Scalars
    BY <1>3, <1>5 DEF StartVarint, FieldOf, indexVars
  <2>2. Agrees(r, field)' /\ m'[Name(msg, field)] = 0
    <3>2. PICK j \in DOMAIN Fields(msg) : j = field
      BY <1>1
    <3>3. Agrees(r, j)' /\ m'[Name(msg, j)] = 0
      BY <1>0, <2>1, <3>2, FieldSet
    <3> QED BY <2>1, <3>2, <3>3 DEF Agrees
  <2>3. PICK w \in Nat : w = Value(r)
    BY <1>1, <2>1
  <2>4. Left(iNdEx, 1, 0, w, from[field + 1])'
    <3>1. Suffix(iNdEx)' = encodeVarint[w] \o from[field' + 1]
      BY <1>0, <2>1, <2>3 DEF Suffix, l, Payload
    <3>2. 0 + w * 1 = w
      OBVIOUS
    <3> QED BY <3>1, <3>2, Zenon DEF Left
  <2>5. Value(r)' = w /\ Known' /\ ~Absent(msg', r, field') /\ scale' = 1
    BY <1>0, <2>1, <2>3 DEF Value, Known
  <2>6. m'[Name(msg', field')] = 0
    BY <2>1, <2>2
  <2>7. /\ m'[Name(msg', field')] \in Nat
        /\ Left(iNdEx, scale, m[Name(msg, field)], Value(r), from[field + 1])'
    BY <2>4, <2>5, <2>6
  <2> QED BY <2>1, <2>2, <2>5, <2>7 DEF Reads
<1>6. CASE StartLength
  <2>1. /\ pc' = "length" /\ wire' = 0
        /\ UNCHANGED <<msg, dAtA, m, iNdEx, field, scale>> /\ Type \notin Scalars
    BY <1>3, <1>6 DEF StartLength, FieldOf, indexVars
  <2>2. PICK c \in Seq(Byte) : c = Content(Type, Value(r))
    BY <1>1, <2>1
  <2>3. PICK n \in Nat : n = Len(c)
    BY LenProperties
  <2>4. PICK x \in Seq(Byte) : x = from[field + 1]
    <3>1. field + 1 \in 1..8
      BY <1>1
    <3> QED BY <3>1 DEF Splits
  <2>5. Suffix(iNdEx) = encodeVarint[n] \o (c \o x)
    <3>1. encodeVarint[n] \in Seq(Byte)
      BY EncodeVarintDef
    <3>2. encodeVarint[n] \o (c \o x) = (encodeVarint[n] \o c) \o x
      BY <3>1, Regroup
    <3>3. Payload(Type, Value(r)) = encodeVarint[n] \o c
      BY <2>1, <2>2, <2>3 DEF Payload
    <3> QED BY <1>0, <2>4, <3>2, <3>3, Zenon
  <2>6. /\ Value(r)' = Value(r) /\ Type' = Type /\ Known' /\ ~Absent(msg', r, field')
        /\ Agrees(r, field)' /\ scale' = 1 /\ Suffix(iNdEx)' = Suffix(iNdEx)
    BY <1>0, <2>1 DEF Value, Type, Known, Agrees, Suffix, l
  <2>7. Left(iNdEx, 1, 0, n, c \o x)'
    <3>1. 0 + n * 1 = n
      OBVIOUS
    <3>2. Suffix(iNdEx)' = encodeVarint[n] \o (c \o x)
      BY <2>5, <2>6
    <3> QED BY <3>1, <3>2, Zenon DEF Left
  <2>8. Left(iNdEx, scale, wire, Len(Content(Type, Value(r))),
             Content(Type, Value(r)) \o from[field + 1])'
    BY <2>1, <2>2, <2>3, <2>4, <2>6, <2>7
  <2> QED BY <2>1, <2>6, <2>8 DEF Reads
<1> QED BY <1>4, <1>5, <1>6

\* A length is read byte by byte, and then checked.
LEMMA ReadsLength ==
    ASSUME IndexInv, RecordInv, NEW r, Plain(msg, r), NEW from, Splits(msg, r, from),
           Reads(r, from), pc = "length", ReadLength \/ ReadStopped
    PROVE  Reads(r, from)'
<1>0. /\ Known /\ ~Absent(msg, r, field) /\ Agrees(r, field) /\ Type \notin Scalars
      /\ msg \in Messages /\ Types /\ iNdEx \in 0..l
  BY DEF Reads, RecordInv, IndexInv, Types, Scalars
<1>1. PICK c \in Seq(Byte) : c = Content(Type, Value(r))
  BY <1>0, FieldKnown
<1>2. PICK x \in Seq(Byte) : x = from[field + 1]
  <2>1. field + 1 \in 1..8
    <3>1. field \in 1..7
      BY <1>0, FieldKnown
    <3> QED BY <3>1
  <2> QED BY <2>1 DEF Splits
<1>3. PICK y \in Seq(Byte) : y = c \o x
  BY Joined
<1>4. PICK n \in Nat, v \in Nat : n = Len(c) /\ v = wire
  BY WireAssumption, LenProperties DEF IndexInv, Types, Word
<1>5. Left(iNdEx, scale, v, n, y)
  BY <1>1, <1>2, <1>3, <1>4 DEF Reads
<1>6. Word \in Nat /\ n < Word
  <2>1. PICK w \in Nat : Suffix(iNdEx) = encodeVarint[w] \o y
    BY <1>5 DEF Left
  <2>2. PICK e \in Seq(Byte) : e = encodeVarint[w]
    BY EncodeVarintDef
  <2>3. PICK i \in 0..l, k \in Nat : i = iNdEx /\ k = Len(e)
    BY <1>0, LenProperties
  <2>4. i + k \in 0..l /\ Suffix(i + k) = y
    <3>1. Suffix(i) = e \o y /\ IsSlice(dAtA)
      BY <1>0, <2>1, <2>2, <2>3 DEF Types
    <3> QED BY <2>3, <3>1, TakeOff
  <2>5. (i + k) + n \in 0..l
    BY <1>0, <1>3, <1>4, <2>4, TakeOff DEF Types
  <2>6. l \in Nat /\ Word \in Nat /\ l < Word
    BY <1>0, WireAssumption, LenProperties DEF Types, IsSlice, l, Word
  <2> QED BY <2>3, <2>5, <2>6
<1>7. Word <= Word
  BY <1>6
<1>8. /\ ~Stopped(iNdEx, l)
      /\ \/ ~More(iNdEx) /\ Or(v, iNdEx, Word) = n /\ Suffix(iNdEx + 1) = y
         \/ More(iNdEx) /\ Left(iNdEx + 1, 128 * scale, Or(v, iNdEx, Word), n, y)
  BY <1>0, <1>5, <1>6, <1>7, VarintLeft
<1>9. /\ wire' = Or(v, iNdEx, Word) /\ iNdEx' = iNdEx + 1
      /\ UNCHANGED <<msg, dAtA, m, field>>
      /\ IF More(iNdEx) THEN scale' = 128 * scale /\ pc' = "length" ELSE pc' = "check" /\ scale' = 1
  BY <1>4, <1>8 DEF ReadStopped, ReadLength, ReadByte
<1>10. /\ Value(r)' = Value(r) /\ Type' = Type /\ Known' /\ ~Absent(msg', r, field')
       /\ Agrees(r, field)' /\ Suffix(iNdEx)' = Suffix(iNdEx + 1)
  BY <1>0, <1>9 DEF Value, Type, Known, Agrees, Suffix, l
<1>11. CASE More(iNdEx)
  <2>1. Left(iNdEx + 1, 128 * scale, wire', n, y)
    BY <1>8, <1>9, <1>11
  <2>2. Left(iNdEx, scale, wire, n, y)'
    BY <1>9, <1>11, <2>1 DEF Left, Suffix, l
  <2>3. Left(iNdEx, scale, wire, Len(Content(Type, Value(r))),
             Content(Type, Value(r)) \o from[field + 1])'
    BY <1>1, <1>2, <1>3, <1>4, <1>9, <1>10, <2>2
  <2> QED BY <1>9, <1>10, <1>11, <2>3 DEF Reads
<1>12. CASE ~More(iNdEx)
  <2>1. wire' = n /\ Suffix(iNdEx + 1) = c \o x /\ pc' = "check"
    BY <1>3, <1>8, <1>9, <1>12
  <2> QED BY <1>1, <1>2, <1>4, <1>9, <1>10, <2>1 DEF Reads
<1> QED BY <1>11, <1>12

\* A byte of a number goes into its field, in the field's width: for an enumeration the
\* conversions change nothing, as no value of one is negative.
LEMMA ReadsOneByte ==
    ASSUME Types, Type \in Scalars, NEW n \in Nat, n \in Values(Type), NEW v \in Nat,
           NEW x \in Seq(Byte), Left(iNdEx, scale, v, n, x)
    PROVE  /\ ~Stopped(iNdEx, l) /\ OrInto(v) \in Nat
           /\ \/ ~More(iNdEx) /\ OrInto(v) = n /\ Suffix(iNdEx + 1) = x
              \/ More(iNdEx) /\ Left(iNdEx + 1, 128 * scale, OrInto(v), n, x)
<1> DEFINE width == IF Type = "uint64" THEN Word ELSE Word32
<1>1. width \in Nat /\ width <= Word /\ n < width /\ (Type = "int32" => n < Sign32)
  BY WireAssumption DEF Values, Word, Word32, Scalars
<1>2. iNdEx \in 0..l
  BY DEF Types
<1> HIDE DEF width
<1>3. /\ ~Stopped(iNdEx, l) /\ Or(v, iNdEx, width) \in Nat /\ v <= n /\ Or(v, iNdEx, width) <= n
      /\ \/ ~More(iNdEx) /\ Or(v, iNdEx, width) = n /\ Suffix(iNdEx + 1) = x
         \/ More(iNdEx) /\ Left(iNdEx + 1, 128 * scale, Or(v, iNdEx, width), n, x)
  BY <1>1, <1>2, VarintLeft
<1>4. PICK o \in Nat : o = Or(v, iNdEx, width)
  BY <1>3
<1>5. OrInto(v) = o
  <2>1. CASE Type = "uint64"
    BY <1>4, <2>1 DEF OrInto, width
  <2>2. CASE Type = "uint32"
    BY <1>4, <2>2 DEF OrInto, width
  <2>3. CASE Type = "int32"
    <3>1. Unsigned32(v) = v /\ Signed32(o) = o
      <4>1. v < Sign32 /\ o < Sign32
        BY <1>1, <1>3, <1>4, <2>3, WireAssumption
      <4> QED BY <4>1 DEF Unsigned32, Signed32
    <3>2. OrInto(v) = Signed32(Or(Unsigned32(v), iNdEx, Word32)) /\ width = Word32
      BY <2>3 DEF OrInto, width
    <3> QED BY <1>4, <3>1, <3>2
  <2> QED BY <2>1, <2>2, <2>3 DEF Scalars
<1> QED BY <1>3, <1>4, <1>5, Zenon

\* A number is read into its field byte by byte.
LEMMA ReadsVarint ==
    ASSUME IndexInv, RecordInv, NEW r, Plain(msg, r), NEW from, Splits(msg, r, from),
           Reads(r, from), pc = "varint", ReadVarint \/ ReadStopped
    PROVE  Reads(r, from)'
<1>0. /\ Known /\ ~Absent(msg, r, field) /\ Agrees(r, field) /\ Type \in Scalars
      /\ msg \in Messages /\ IsRecord(msg, m)
  BY DEF Reads, RecordInv
<1>1. PICK j \in 1..7 : j = field /\ j \in DOMAIN Fields(msg)
  BY <1>0, FieldKnown DEF Known
<1>2. PICK x \in Seq(Byte) : x = from[j + 1]
  <2>1. j + 1 \in 1..8
    OBVIOUS
  <2> QED BY <2>1 DEF Splits
<1>3. PICK v \in Nat, n \in Nat : /\ v = m[Name(msg, j)] /\ n = Value(r)
                                  /\ Left(iNdEx, scale, v, n, x)
  <2>1. PICK n \in Nat : n = Value(r)
    BY <1>0, FieldKnown
  <2>2. PICK v \in Nat : v = m[Name(msg, j)]
    BY <1>1 DEF Reads
  <2>3. Left(iNdEx, scale, v, n, x)
    BY <1>1, <1>2, <2>1, <2>2 DEF Reads
  <2> QED BY <2>1, <2>2, <2>3
<1>4. /\ ~Stopped(iNdEx, l) /\ OrInto(v) \in Nat
      /\ \/ ~More(iNdEx) /\ OrInto(v) = n /\ Suffix(iNdEx + 1) = x
         \/ More(iNdEx) /\ Left(iNdEx + 1, 128 * scale, OrInto(v), n, x)
  <2>1. Types /\ n \in Values(Type)
    BY <1>0, <1>3, FieldKnown DEF IndexInv
  <2> QED BY <1>0, <1>3, <2>1, ReadsOneByte
<1>5. /\ m' = [m EXCEPT ![Name(msg, j)] = OrInto(v)] /\ iNdEx' = iNdEx + 1
      /\ UNCHANGED <<msg, dAtA, field>>
      /\ IF More(iNdEx) THEN scale' = 128 * scale /\ pc' = "varint" ELSE pc' = "loop" /\ scale' = 1
  <2>1. ReadVarint
    BY <1>4 DEF ReadStopped
  <2>2. m' = [m EXCEPT ![Name(msg, j)] = OrInto(m[Name(msg, j)])]
    BY <1>1, <2>1 DEF ReadVarint
  <2> QED BY <1>3, <1>4, <2>1, <2>2 DEF ReadVarint, ReadByte
<1>6. /\ Agrees(r, j)' /\ m'[Name(msg, j)] = OrInto(v)
      /\ OrInto(v) = r[Name(msg, j)] => Agrees(r, j + 1)'
  BY <1>0, <1>1, <1>5, FieldSet
<1>7. /\ Value(r)' = n /\ n = r[Name(msg, j)] /\ Known' /\ ~Absent(msg', r, field')
      /\ Suffix(iNdEx)' = Suffix(iNdEx + 1)
  BY <1>0, <1>1, <1>3, <1>5 DEF Value, Known, Suffix, l
<1>8. CASE More(iNdEx)
  <2>1. Left(iNdEx + 1, 128 * scale, OrInto(v), n, x)
    BY <1>4, <1>8
  <2>2. Left(iNdEx, scale, m[Name(msg, j)], n, x)'
    BY <1>5, <1>6, <1>8, <2>1 DEF Left, Suffix, l
  <2>3. /\ m'[Name(msg', field')] \in Nat
        /\ Left(iNdEx, scale, m[Name(msg, field)], Value(r), from[field + 1])'
    BY <1>1, <1>2, <1>4, <1>5, <1>6, <1>7, <2>2
  <2>4. Agrees(r, field)'
    BY <1>1, <1>5, <1>6 DEF Agrees
  <2> QED BY <1>5, <1>7, <1>8, <2>3, <2>4 DEF Reads
<1>9. CASE ~More(iNdEx)
  <2>1. pc' = "loop" /\ Suffix(iNdEx)' = from[j + 1] /\ Agrees(r, j + 1)'
    BY <1>2, <1>4, <1>5, <1>6, <1>7, <1>9
  <2>2. j + 1 \in 1..8
    OBVIOUS
  <2>3. \E k \in 1..8 : Suffix(iNdEx)' = from[k] /\ Agrees(r, k)'
    BY <2>1, <2>2, Zenon
  <2> QED BY <2>1, <2>3 DEF Reads
<1> QED BY <1>8, <1>9

\* The bytes of a field that has a length are all there: the length is taken, and so
\* are they.
LEMMA ReadsContent ==
    ASSUME IndexInv, RecordInv, NEW r, Plain(msg, r), NEW from, Splits(msg, r, from),
           Known, ~Absent(msg, r, field), Type \in {"string", "time"},
           Suffix(iNdEx) = Content(Type, Value(r)) \o from[field + 1]
    PROVE  LET n == Len(Content(Type, Value(r)))
           IN  /\ n \in Nat /\ Signed(n) = n /\ LengthOk(n) /\ Plus(iNdEx, n) = iNdEx + n
               /\ SubSeq(dAtA, iNdEx + 1, iNdEx + n) = Content(Type, Value(r))
               /\ Suffix(iNdEx + n) = from[field + 1]
<1>0. Types /\ IsSlice(dAtA) /\ iNdEx \in 0..l /\ field \in 1..7 /\ Type \notin Scalars
  BY FieldKnown DEF IndexInv, Types, Scalars
<1>1. PICK c \in Seq(Byte) : c = Content(Type, Value(r))
  BY <1>0, FieldKnown
<1>2. PICK x \in Seq(Byte) : x = from[field + 1]
  <2>1. field + 1 \in 1..8
    BY <1>0
  <2> QED BY <2>1 DEF Splits
<1>3. PICK n \in Nat : n = Len(c)
  BY LenProperties
<1>4. PICK i \in 0..l : i = iNdEx
  BY <1>0
<1>5. Suffix(i) = c \o x
  BY <1>1, <1>2, <1>4
<1>6. i + n \in 0..l /\ SubSeq(dAtA, i + 1, i + n) = c /\ Suffix(i + n) = x
  BY <1>0, <1>3, <1>5, TakeOff
<1>7. l \in Nat /\ l < Sign /\ Sign \in Nat
  BY <1>0, WireAssumption, LenProperties DEF IsSlice, l
<1>8. Signed(n) = n /\ Plus(i, n) = i + n
  BY <1>6, <1>7 DEF Signed, Plus
<1>9. n >= 0 /\ i + n >= 0 /\ i + n <= l
  BY <1>6, <1>7
<1> QED BY <1>1, <1>2, <1>3, <1>4, <1>6, <1>8, <1>9 DEF LengthOk

\* The length fits into the bytes.
LEMMA ReadsCheck ==
    ASSUME IndexInv, RecordInv, NEW r, Plain(msg, r), NEW from, Splits(msg, r, from),
           Reads(r, from), pc = "check", LengthTaken \/ LengthRefused
    PROVE  Reads(r, from)'
<1>0. /\ Known /\ ~Absent(msg, r, field) /\ Agrees(r, field) /\ Type \in {"string", "time"}
      /\ Suffix(iNdEx) = Content(Type, Value(r)) \o from[field + 1]
      /\ wire = Len(Content(Type, Value(r)))
  BY DEF Reads, RecordInv
<1>1. /\ Signed(wire) = wire /\ LengthOk(wire) /\ Plus(iNdEx, wire) = iNdEx + wire
  BY <1>0, ReadsContent
<1>2. /\ pc' = "slice" /\ postIndex' = iNdEx + wire
      /\ UNCHANGED <<msg, dAtA, m, iNdEx, field>>
  BY <1>1 DEF LengthTaken, LengthRefused, CheckLength
<1>3. /\ Value(r)' = Value(r) /\ Type' = Type /\ Known' /\ ~Absent(msg', r, field')
      /\ Agrees(r, field)' /\ Suffix(iNdEx)' = Suffix(iNdEx)
  BY <1>0, <1>2 DEF Value, Type, Known, Agrees, Suffix, l
<1> QED BY <1>0, <1>2, <1>3 DEF Reads

\* The bytes of a string or a time are taken.
LEMMA ReadsSlice ==
    ASSUME IndexInv, RecordInv, NEW r, Plain(msg, r), NEW from, Splits(msg, r, from),
           Reads(r, from), pc = "slice", TakeString \/ TakeTime \/ TakeTimeErr
    PROVE  Reads(r, from)'
<1>0. /\ Known /\ ~Absent(msg, r, field) /\ Agrees(r, field) /\ Type \in {"string", "time"}
      /\ Suffix(iNdEx) = Content(Type, Value(r)) \o from[field + 1]
      /\ postIndex = iNdEx + Len(Content(Type, Value(r)))
      /\ msg \in Messages /\ IsRecord(msg, m)
  BY DEF Reads, RecordInv
<1>1. PICK j \in 1..7 : j = field /\ j \in DOMAIN Fields(msg)
  BY <1>0, FieldKnown DEF Known
<1>2. Slice = Content(Type, Value(r)) /\ Suffix(postIndex) = from[j + 1]
  BY <1>0, <1>1, ReadsContent DEF Slice
<1>3. /\ pc' = "loop" /\ iNdEx' = postIndex /\ UNCHANGED <<msg, dAtA>>
      /\ m' = [m EXCEPT ![Name(msg, j)] = r[Name(msg, j)]]
  <2>1. CASE Type = "string"
    <3>1. TakeString
      BY <2>1 DEF TakeTime, TakeTimeErr
    <3>2. Slice = r[Name(msg, j)]
      BY <1>1, <1>2, <2>1 DEF Content, Value
    <3> QED BY <1>1, <3>1, <3>2 DEF TakeString, TakeSlice
  <2>2. CASE Type = "time"
    <3>1. Name(msg, field) = "updated_at" /\ Slice \in Times /\ Value(r) = Time(Slice)
      BY <1>0, <1>2, <2>2, FieldKnown
    <3>2. TakeSlice("slice", "updated_at", Time(Slice))
      BY <2>2, <3>1 DEF TakeString, TakeTime, TakeTimeErr
    <3> QED BY <1>1, <3>1, <3>2 DEF TakeSlice, Value
  <2> QED BY <1>0, <2>1, <2>2
<1>4. Agrees(r, j + 1)'
  BY <1>0, <1>1, <1>3, FieldSet
<1>5. Suffix(iNdEx)' = from[j + 1]
  BY <1>2, <1>3 DEF Suffix, l
<1>6. j + 1 \in 1..8
  OBVIOUS
<1>7. \E k \in 1..8 : Suffix(iNdEx)' = from[k] /\ Agrees(r, k)'
  BY <1>4, <1>5, <1>6, Zenon
<1> QED BY <1>3, <1>7 DEF Reads

\* Unmarshal reads on.
LEMMA ReadsOn ==
    ASSUME IndexInv, RecordInv, NEW r, Plain(msg, r), NEW from, Splits(msg, r, from),
           Reads(r, from), UnmarshalStep
    PROVE  Reads(r, from)'
<1>1. pc \in {"loop", "tag", "field", "varint", "length", "check", "slice"}
  BY StepAt DEF Reads
<1>2. CASE pc = "loop"
  BY <1>2, StepAt, ReadsLoop
<1>3. CASE pc = "tag"
  BY <1>3, StepAt, ReadsTag
<1>4. CASE pc = "field"
  BY <1>4, StepAt, ReadsField
<1>5. CASE pc = "varint"
  BY <1>5, StepAt, ReadsVarint
<1>6. CASE pc = "length"
  BY <1>6, StepAt, ReadsLength
<1>7. CASE pc = "check"
  BY <1>7, StepAt, ReadsCheck
<1>8. CASE pc = "slice"
  BY <1>8, StepAt, ReadsSlice
<1> QED BY <1>1, <1>2, <1>3, <1>4, <1>5, <1>6, <1>7, <1>8

-----------------------------------------------------------------------------
(* The promise.                                                              *)

\* Unmarshal does not touch what the bytes leave out: where r has a zero, so must the
\* record that a caller asks for k with.
Covers(k, r) ==
    \A s \in New(k), i \in DOMAIN Fields(MessageOf(k)) :
        Absent(MessageOf(k), r, i) => Absent(MessageOf(k), s, i)

\* A record of this version that belongs under k.
Belongs(k, r) ==
    /\ Plain(MessageOf(k), r)
    /\ MessageOf(k) \in {"erc20", "nft"} => r.id = k[2]
    /\ Covers(k, r)

\* What the refinement takes for granted: an id names one deposit, so that two callers
\* who ask for one key have the same zeros, and what an earlier daemon left was written
\* by this version of the code.
OneVersion ==
    /\ \A k \in Keys : \A r \in New(k) : Covers(k, r)
    /\ \A i \in InitialDbs : \A k \in DOMAIN i.db \cap Keys : Belongs(k, i.records[k])

\* The keys of the callers, by message, and the records they ask with.
LEMMA KeyCases ==
    ASSUME NEW k \in Keys
    PROVE  /\ MessageOf(k) \in Messages /\ k = <<MessageOf(k), k[2]>> /\ k # NoKey
           /\ MessageOf(k) = "erc20" =>
                 \A s \in New(k) : s.id = k[2] /\ \E e \in ERC20Logs : s = ToEventERC20Deposited(e)
           /\ MessageOf(k) = "nft" =>
                 \A s \in New(k) : s.id = k[2] /\ \E e \in NFTLogs : s = ToEventNFTDeposited(e)
           /\ MessageOf(k) = "pair" => k[2] \in Addresses /\ New(k) = {NewPair(k[2])}
           /\ MessageOf(k) = "block" => New(k) = {NewBlock}
<1>1. CASE \E e \in ERC20Logs : k = eventKey("erc20", ToEventERC20Deposited(e))
  <2>1. PICK e \in ERC20Logs : k = <<"erc20", ToEventERC20Deposited(e).id>>
    BY <1>1 DEF eventKey
  <2>2. MessageOf(k) = "erc20" /\ k = <<MessageOf(k), k[2]>> /\ k # NoKey
    BY <2>1 DEF MessageOf, NoKey
  <2>3. New(k) = {r \in {ToEventERC20Deposited(d) : d \in ERC20Logs} : r.id = k[2]}
    BY <2>2 DEF New
  <2> QED BY <2>2, <2>3 DEF Messages
<1>2. CASE \E e \in NFTLogs : k = eventKey("nft", ToEventNFTDeposited(e))
  <2>1. PICK e \in NFTLogs : k = <<"nft", ToEventNFTDeposited(e).id>>
    BY <1>2 DEF eventKey
  <2>2. MessageOf(k) = "nft" /\ k = <<MessageOf(k), k[2]>> /\ k # NoKey
    BY <2>1 DEF MessageOf, NoKey
  <2>3. New(k) = {r \in {ToEventNFTDeposited(d) : d \in NFTLogs} : r.id = k[2]}
    BY <2>2 DEF New
  <2> QED BY <2>2, <2>3 DEF Messages
<1>3. CASE k \in {"pair"} \X Addresses
  <2>1. MessageOf(k) = "pair" /\ k = <<MessageOf(k), k[2]>> /\ k[2] \in Addresses /\ k # NoKey
    BY <1>3 DEF MessageOf, NoKey
  <2> QED BY <2>1 DEF New, Messages
<1>4. CASE k \in {"block"} \X {".erc20", ".nft"}
  <2>1. MessageOf(k) = "block" /\ k = <<MessageOf(k), k[2]>> /\ k # NoKey
    BY <1>4 DEF MessageOf, NoKey
  <2> QED BY <2>1 DEF New, Messages
<1> QED BY <1>1, <1>2, <1>3, <1>4 DEF Keys, EventKeys

\* What callers ask with is of this version; only the keys' own fields are not zero.
LEMMA NewPlain ==
    ASSUME NEW k \in Keys, NEW s \in New(k)
    PROVE  /\ Plain(MessageOf(k), s)
           /\ MessageOf(k) \in {"erc20", "nft"} =>
                 s.id = k[2] /\ Absent(MessageOf(k), s, 5) /\ Absent(MessageOf(k), s, 6)
           /\ MessageOf(k) = "block" => \A i \in DOMAIN Fields("block") : Absent("block", s, i)
           /\ MessageOf(k) = "pair" => \A i \in 2..5 : Absent("pair", s, i)
<1>1. CASE MessageOf(k) = "erc20"
  <2>1. PICK e \in ERC20Logs : s = ToEventERC20Deposited(e)
    BY <1>1, KeyCases
  <2>2. IsRecord("erc20", s)
    BY <2>1, NewIsRecord
  <2>3. s.unrecognized = <<>> /\ s.retry = 0 /\ s.status = 0
    BY <2>1 DEF ToEventERC20Deposited, ERC20Record, UNDEFINED
  <2>4. /\ DOMAIN Fields("erc20") = 1..7
        /\ Name("erc20", 1) = "id" /\ FieldType("erc20", 1) = "uint64"
        /\ Name("erc20", 5) = "retry" /\ FieldType("erc20", 5) = "uint32"
        /\ Name("erc20", 6) = "status" /\ FieldType("erc20", 6) = "int32"
        /\ \A i \in {2, 3, 4, 7} : FieldType("erc20", i) \notin Scalars
    BY DEF Name, FieldType, Fields, ERC20Fields, Field, Scalars
  <2>5. s.id \in Nat
    <3>1. s[Name("erc20", 1)] \in Values(FieldType("erc20", 1))
      <4>1. 1 \in DOMAIN Fields("erc20")
        BY <2>4
      <4> QED BY <2>2, <4>1, Zenon DEF IsRecord, FieldType
    <3>2. s["id"] \in 0..(Word - 1)
      BY <2>4, <3>1 DEF Values
    <3> QED BY <3>2
  <2>6. \A i \in DOMAIN Fields("erc20") : FieldType("erc20", i) \in Scalars => s[Name("erc20", i)] \in Nat
    <3>1. \A i \in 1..7 : i \in {1, 5, 6} \/ i \in {2, 3, 4, 7}
      OBVIOUS
    <3> QED BY <2>3, <2>4, <2>5, <3>1
  <2>7. Absent("erc20", s, 5) /\ Absent("erc20", s, 6)
    BY <2>3, <2>4 DEF Absent, Blank, Scalars
  <2> QED BY <1>1, <2>2, <2>3, <2>6, <2>7, KeyCases DEF Plain
<1>2. CASE MessageOf(k) = "nft"
  <2>1. PICK e \in NFTLogs : s = ToEventNFTDeposited(e)
    BY <1>2, KeyCases
  <2>2. IsRecord("nft", s)
    BY <2>1, NewIsRecord
  <2>3. s.unrecognized = <<>> /\ s.retry = 0 /\ s.status = 0
    BY <2>1 DEF ToEventNFTDeposited, NFTRecord, UNDEFINED
  <2>4. /\ DOMAIN Fields("nft") = 1..7
        /\ Name("nft", 1) = "id" /\ FieldType("nft", 1) = "uint64"
        /\ Name("nft", 4) = "tokenid" /\ FieldType("nft", 4) = "uint64"
        /\ Name("nft", 5) = "retry" /\ FieldType("nft", 5) = "uint32"
        /\ Name("nft", 6) = "status" /\ FieldType("nft", 6) = "int32"
        /\ \A i \in {2, 3, 7} : FieldType("nft", i) \notin Scalars
    BY DEF Name, FieldType, Fields, NFTFields, Field, Scalars
  <2>5. s.id \in Nat /\ s.tokenid \in Nat
    <3>1. /\ s[Name("nft", 1)] \in Values(FieldType("nft", 1))
          /\ s[Name("nft", 4)] \in Values(FieldType("nft", 4))
      <4>1. 1 \in DOMAIN Fields("nft") /\ 4 \in DOMAIN Fields("nft")
        BY <2>4
      <4> QED BY <2>2, <4>1, Zenon DEF IsRecord, FieldType
    <3>2. s["id"] \in 0..(Word - 1) /\ s["tokenid"] \in 0..(Word - 1)
      BY <2>4, <3>1 DEF Values
    <3> QED BY <3>2
  <2>6. \A i \in DOMAIN Fields("nft") : FieldType("nft", i) \in Scalars => s[Name("nft", i)] \in Nat
    <3>1. \A i \in 1..7 : i \in {1, 4, 5, 6} \/ i \in {2, 3, 7}
      OBVIOUS
    <3> QED BY <2>3, <2>4, <2>5, <3>1
  <2>7. Absent("nft", s, 5) /\ Absent("nft", s, 6)
    BY <2>3, <2>4 DEF Absent, Blank, Scalars
  <2> QED BY <1>2, <2>2, <2>3, <2>6, <2>7, KeyCases DEF Plain
<1>3. CASE MessageOf(k) = "pair"
  <2>1. s = NewPair(k[2]) /\ k[2] \in Addresses
    BY <1>3, KeyCases
  <2>2. IsRecord("pair", s)
    BY <2>1, NewIsRecord, StoreAssumption
  <2>3. /\ s.unrecognized = <<>> /\ s.outaddr = <<>> /\ s.intype = 0 /\ s.outtype = 0
        /\ s.updated_at = Nil
    BY <2>1 DEF NewPair, PairRecord, ORIGINAL
  <2>4. /\ DOMAIN Fields("pair") = 1..5 /\ FieldType("pair", 1) = "string"
        /\ Name("pair", 2) = "outaddr" /\ FieldType("pair", 2) = "string"
        /\ Name("pair", 3) = "intype" /\ FieldType("pair", 3) = "int32"
        /\ Name("pair", 4) = "outtype" /\ FieldType("pair", 4) = "int32"
        /\ Name("pair", 5) = "updated_at" /\ FieldType("pair", 5) = "time"
    BY DEF Name, FieldType, Fields, PairFields, Field
  <2>5. \A i \in 2..5 : Absent("pair", s, i)
    <3>1. \A i \in 2..5 : i \in {2, 3, 4, 5}
      OBVIOUS
    <3> QED BY <2>3, <2>4, <3>1 DEF Absent, Blank, Scalars
  <2>6. \A i \in DOMAIN Fields("pair") : FieldType("pair", i) \in Scalars => s[Name("pair", i)] \in Nat
    <3>1. \A i \in 1..5 : i \in {1, 2, 3, 4, 5}
      OBVIOUS
    <3> QED BY <2>3, <2>4, <3>1 DEF Scalars
  <2> QED BY <1>3, <2>2, <2>3, <2>5, <2>6 DEF Plain
<1>4. CASE MessageOf(k) = "block"
  <2>1. s = NewBlock
    BY <1>4, KeyCases
  <2>2. IsRecord("block", s)
    BY <2>1, NewIsRecord
  <2>3. s.unrecognized = <<>> /\ s.hash = <<>> /\ s.number = 0 /\ s.updated_at = Nil
    BY <2>1 DEF NewBlock, BlockRecord
  <2>4. /\ DOMAIN Fields("block") = {1, 2, 3}
        /\ Name("block", 1) = "hash" /\ FieldType("block", 1) = "string"
        /\ Name("block", 2) = "number" /\ FieldType("block", 2) = "uint64"
        /\ Name("block", 3) = "updated_at" /\ FieldType("block", 3) = "time"
    BY DEF Name, FieldType, Fields, BlockFields, Field
  <2>5. \A i \in DOMAIN Fields("block") : Absent("block", s, i)
    BY <2>3, <2>4 DEF Absent, Blank, Scalars
  <2>6. \A i \in DOMAIN Fields("block") : FieldType("block", i) \in Scalars => s[Name("block", i)] \in Nat
    BY <2>3, <2>4 DEF Scalars
  <2> QED BY <1>4, <2>2, <2>3, <2>5, <2>6 DEF Plain
<1> QED BY <1>1, <1>2, <1>3, <1>4, KeyCases DEF Messages

\* An event as the handlers store it.
Handled(r, status, retry) == [r EXCEPT !.status = status, !.retry = retry]

\* What is put belongs under its key: an event with another status and other retries, ...
LEMMA EventBelongs ==
    ASSUME NEW k \in Keys, NEW message, message = MessageOf(k), message \in {"erc20", "nft"},
           NEW r, Belongs(k, r), NEW status \in {FAILED, SUCCEEDED}, NEW retry \in Retries,
           NEW q, q = Handled(r, status, retry)
    PROVE  Belongs(k, q) /\ eventKey(message, q) = k
<1> USE DEF Handled
<1> DEFINE names == {Name(message, i) : i \in DOMAIN Fields(message)} \cup {"unrecognized"}
<1>1. IsRecord(message, r) /\ message \in Messages /\ r.id = k[2]
  BY DEF Belongs, Plain, Messages
<1>2. IsRecord(message, q)
  BY <1>1, EventIsRecord
<1>3. /\ DOMAIN Fields(message) = 1..7 /\ Name(message, 1) = "id"
      /\ Name(message, 5) = "retry" /\ Name(message, 6) = "status"
  BY DEF Name, Fields, ERC20Fields, NFTFields, Field
<1>4. /\ "id" \in names /\ "status" \in names /\ "retry" \in names /\ "unrecognized" \in names
      /\ \A i \in DOMAIN Fields(message) : Name(message, i) \in names
  BY <1>3
<1>5. /\ q.status \in Nat /\ q.retry \in Nat
      /\ \A name \in names : name # "status" /\ name # "retry" => q[name] = r[name]
  <2>1. r = [x \in names |-> r[x]]
    BY <1>1 DEF IsRecord
  <2>2. status \in Nat /\ retry \in Nat
    BY StoreAssumption, WireAssumption DEF FAILED, SUCCEEDED, Word32
  <2> HIDE DEF names
  <2> QED BY <1>4, <2>1, <2>2
<1> HIDE DEF names
<1>6. ASSUME NEW i \in DOMAIN Fields(message), i # 5, i # 6
      PROVE  q[Name(message, i)] = r[Name(message, i)]
  <2>1. 5 \in DOMAIN Fields(message) /\ 6 \in DOMAIN Fields(message)
    BY <1>3
  <2>2. Name(message, i) # "retry" /\ Name(message, i) # "status"
    BY <1>1, <1>3, <1>6, <2>1, FieldFacts
  <2> QED BY <1>4, <1>5, <2>2
<1>7. Plain(message, q)
  <2>1. q.unrecognized = <<>>
    BY <1>4, <1>5 DEF Belongs, Plain
  <2>2. ASSUME NEW i \in DOMAIN Fields(message), FieldType(message, i) \in Scalars
        PROVE  q[Name(message, i)] \in Nat
    <3>1. CASE i \in {5, 6}
      BY <1>3, <1>5, <3>1
    <3>2. CASE i \notin {5, 6}
      BY <1>6, <2>2, <3>2 DEF Belongs, Plain
    <3> QED BY <3>1, <3>2
  <2> QED BY <1>2, <2>1, <2>2 DEF Plain
<1>8. Covers(k, q)
  <2>1. ASSUME NEW s \in New(k), NEW i \in DOMAIN Fields(message), Absent(message, q, i)
        PROVE  Absent(message, s, i)
    <3>1. CASE i \in {5, 6}
      BY <3>1, NewPlain
    <3>2. CASE i \notin {5, 6}
      <4>1. Absent(message, r, i)
        BY <1>6, <2>1, <3>2 DEF Absent
      <4> QED BY <4>1 DEF Belongs, Covers
    <3> QED BY <3>1, <3>2
  <2> QED BY <2>1 DEF Covers
<1>9. q.id = k[2]
  BY <1>1, <1>4, <1>5
<1>10. eventKey(message, q) = k
  <2>1. k = <<message, k[2]>>
    BY KeyCases
  <2> QED BY <1>9, <2>1 DEF eventKey
<1> QED BY <1>7, <1>8, <1>9, <1>10 DEF Belongs

\* ... a pair that the commands set, ...
LEMMA PairBelongs ==
    ASSUME NEW a \in Addresses, NEW b \in Addresses, NEW type \in {ORIGINAL, WRAPPED}
    PROVE  LET q == PairRecord(a, b, type, ORIGINAL)
           IN  pairKey(q) \in Keys /\ Belongs(pairKey(q), q)
<1> DEFINE q == PairRecord(a, b, type, ORIGINAL)
           k == pairKey(q)
<1>1. k = <<"pair", a>> /\ MessageOf(k) = "pair" /\ k[2] = a
  BY DEF pairKey, PairRecord, MessageOf
<1>2. k \in Keys
  BY <1>1 DEF Keys
<1>3. IsRecord("pair", q)
  <2>1. a \in Seq(Byte) /\ b \in Seq(Byte)
    BY StoreAssumption
  <2>2. type \in -Sign32..(Sign32 - 1) /\ ORIGINAL \in -Sign32..(Sign32 - 1)
    BY WireAssumption DEF ORIGINAL, WRAPPED
  <2> QED BY <2>1, <2>2, PairIsRecord
<1>4. /\ DOMAIN Fields("pair") = 1..5 /\ FieldType("pair", 1) = "string" /\ Name("pair", 1) = "inaddr"
      /\ FieldType("pair", 2) = "string"
      /\ Name("pair", 3) = "intype" /\ FieldType("pair", 3) = "int32"
      /\ Name("pair", 4) = "outtype" /\ FieldType("pair", 4) = "int32"
      /\ FieldType("pair", 5) = "time"
  BY DEF Name, FieldType, Fields, PairFields, Field
<1>5. /\ q.unrecognized = <<>> /\ q.intype \in Nat /\ q.outtype \in Nat /\ q.inaddr = a
      /\ NewPair(a).inaddr = a
  BY DEF PairRecord, NewPair, ORIGINAL, WRAPPED
<1>6. New(k) = {NewPair(a)}
  BY <1>1, <1>2, KeyCases
<1> HIDE DEF q, k
<1>7. Plain("pair", q)
  <2>1. \A i \in DOMAIN Fields("pair") : FieldType("pair", i) \in Scalars => q[Name("pair", i)] \in Nat
    <3>1. \A i \in 1..5 : i \in {1, 2, 3, 4, 5}
      OBVIOUS
    <3> QED BY <1>4, <1>5, <3>1 DEF Scalars
  <2> QED BY <1>3, <1>5, <2>1 DEF Plain
<1>8. Covers(k, q)
  <2>1. ASSUME NEW s \in New(k), NEW i \in DOMAIN Fields("pair"), Absent("pair", q, i)
        PROVE  Absent("pair", s, i)
    <3>1. CASE i = 1
      BY <1>4, <1>5, <1>6, <2>1, <3>1 DEF Absent
    <3>2. CASE i # 1
      <4>1. i \in 2..5
        BY <1>4, <3>2
      <4> QED BY <1>1, <1>2, <4>1, NewPlain
    <3> QED BY <3>1, <3>2
  <2> QED BY <1>1, <2>1 DEF Covers
<1>9. k \in Keys /\ Belongs(k, q)
  BY <1>1, <1>2, <1>7, <1>8 DEF Belongs
<1> QED BY <1>9 DEF q, k

\* ... and a block with another number.
LEMMA BlockBelongs ==
    ASSUME NEW k \in Keys, MessageOf(k) = "block", NEW r, Belongs(k, r), NEW n \in BlockNumbers
    PROVE  Belongs(k, [r EXCEPT !.number = n])
<1> DEFINE q == [r EXCEPT !.number = n]
<1>1. IsRecord("block", r) /\ r.unrecognized = <<>>
  BY DEF Belongs, Plain
<1>2. IsRecord("block", q)
  BY <1>1, NumberIsRecord
<1>3. /\ DOMAIN Fields("block") = {1, 2, 3}
      /\ Name("block", 1) = "hash" /\ FieldType("block", 1) = "string"
      /\ Name("block", 2) = "number" /\ FieldType("block", 2) = "uint64"
      /\ Name("block", 3) = "updated_at" /\ FieldType("block", 3) = "time"
  BY DEF Name, FieldType, Fields, BlockFields, Field
<1>4. q.unrecognized = <<>> /\ q.number \in Nat
  <2> DEFINE names == {Name("block", i) : i \in DOMAIN Fields("block")} \cup {"unrecognized"}
  <2>1. r = [x \in names |-> r[x]]
    BY <1>1 DEF IsRecord
  <2>2. "number" \in names /\ "unrecognized" \in names
    BY <1>3
  <2>3. n \in Nat
    BY StoreAssumption
  <2> HIDE DEF names
  <2> QED BY <1>1, <2>1, <2>2, <2>3
<1> HIDE DEF q
<1>5. Plain("block", q)
  BY <1>2, <1>3, <1>4 DEF Plain, Scalars
<1>6. Covers(k, q)
  BY NewPlain DEF Covers
<1> QED BY <1>5, <1>6 DEF Belongs, q

\* A Get that finds the bytes of a record starts to read it.
LEMMA ReadsFirst ==
    ASSUME NEW k \in Keys, NEW r, Belongs(k, r), IsSlice(Bytes(MessageOf(k), r)),
           NEW s \in New(k), Call(MessageOf(k), Bytes(MessageOf(k), r), s)
    PROVE  \E from : Splits(MessageOf(k), r, from) /\ Reads(r, from)'
<1> DEFINE message == MessageOf(k)
<1>1. message \in Messages /\ Plain(message, r) /\ Plain(message, s)
  BY KeyCases, NewPlain DEF Belongs
<1>2. PICK from : Splits(message, r, from) /\ from[1] = Bytes(message, r)
  BY <1>1, SplitsExist, BytesAreParts
<1>3. /\ pc' = "loop" /\ msg' = message /\ m' = s /\ iNdEx' = 0 /\ dAtA' = from[1]
  BY <1>2 DEF Call
<1>4. Suffix(iNdEx)' = from[1]
  <2>1. SubSeq(from[1], 1, Len(from[1])) = from[1]
    BY <1>2, SubSeqFull DEF IsSlice
  <2>2. Suffix(iNdEx)' = SubSeq(dAtA', 0 + 1, Len(dAtA'))
    BY <1>3 DEF Suffix, l
  <2> QED BY <1>3, <2>1, <2>2
<1>5. Agrees(r, 1)'
  <2>1. ASSUME NEW i \in DOMAIN Fields(message), i < 1 \/ Absent(message, r, i)
        PROVE  s[Name(message, i)] = r[Name(message, i)]
    <3>1. ~(i < 1)
      <4>1. i \in 1..7
        BY <1>1, FieldNumbers
      <4> QED BY <4>1
    <3>2. Absent(message, s, i) /\ Absent(message, r, i)
      BY <2>1, <3>1 DEF Belongs, Covers
    <3> QED BY <3>2 DEF Absent
  <2> QED BY <1>1, <1>3, <2>1 DEF Agrees, Plain
<1>6. Reads(r, from)'
  <2>1. 1 \in 1..8
    OBVIOUS
  <2>2. \E j \in 1..8 : Suffix(iNdEx)' = from[j] /\ Agrees(r, j)'
    BY <1>4, <1>5, <2>1
  <2> QED BY <1>3, <2>2 DEF Reads
<1> QED BY <1>2, <1>6

\* A Get in progress: the bytes are those of the record last put, and are read.
Getting ==
    /\ calling \in Keys
    /\ \E r : r = records[calling] /\ \E from : Splits(msg, r, from) /\ Reads(r, from)

\* Every record belongs under its key, the caller's one as well, and a Get that runs
\* will give back the one last put.
PromiseInv ==
    /\ StoreInv
    /\ \A k \in DOMAIN records \cap Keys : Belongs(k, records[k])
    /\ held = NoRecord \/ (held.key \in Keys /\ Belongs(held.key, held.rec))
    /\ calling # NoKey => Getting
    /\ pc # "idle" /\ calling = NoKey => held = NoRecord

\* A step that the promise allows.
Allowed == [Promise!Next]_Promise!recordVars

\* An empty database and no caller, or what an earlier daemon of this version left.
LEMMA InitPromise == OneVersion /\ Init => PromiseInv
<1> SUFFICES ASSUME OneVersion, Init PROVE PromiseInv
  OBVIOUS
<1>1. StoreInv
  BY InitStoreInv
<1>2. PICK i \in InitialDbs : db = i.db /\ records = i.records
  BY DEF Init
<1>3. \A k \in DOMAIN records \cap Keys : Belongs(k, records[k])
  BY <1>1, <1>2 DEF OneVersion, StoreInv
<1> QED BY <1>1, <1>3 DEF Init, PromiseInv

\* A Get leaves its caller with what it asked with, or begins to read.
LEMMA GetPromise ==
    ASSUME PromiseInv, StoreInv', OneVersion, NEW k \in Keys, NEW s \in New(k), GetRecord(k, s)
    PROVE  PromiseInv' /\ Allowed
<1>1. CASE GetMissing(k, s)
  <2>1. /\ UNCHANGED <<records, calling, pc>> /\ held'.key = k /\ held'.rec = s
        /\ k \notin DOMAIN records /\ pc = "idle"
    BY <1>1 DEF GetMissing, PromiseInv, StoreInv, unmarshalVars
  <2>2. Belongs(k, s)
    BY NewPlain DEF OneVersion, Belongs
  <2>3. calling = NoKey
    BY <2>1 DEF PromiseInv, StoreInv
  <2>4. PromiseInv'
    BY <2>1, <2>2, <2>3 DEF PromiseInv
  <2>5. Promise!Get(k)
    BY <2>1 DEF Promise!Get
  <2> QED BY <2>4, <2>5 DEF Allowed, Promise!Next
<1>2. CASE GetFound(k, s)
  <2>1. /\ UNCHANGED <<records, held>> /\ calling' = k /\ k \in DOMAIN records
        /\ Stored(k) /\ Call(MessageOf(k), db[k], s)
    BY <1>2 DEF GetFound, PromiseInv, StoreInv
  <2>2. PICK r : r = records[k]
    OBVIOUS
  <2>3. Belongs(k, r)
    BY <2>1, <2>2 DEF PromiseInv
  <2>4. PICK from : Splits(MessageOf(k), r, from) /\ Reads(r, from)'
    BY <2>1, <2>2, <2>3, ReadsFirst DEF Stored
  <2>5. msg' = MessageOf(k) /\ pc' = "loop"
    BY <2>1 DEF Call
  <2>6. r = records'[calling'] /\ Splits(msg', r, from)
    BY <2>1, <2>2, <2>4, <2>5
  <2>7. Getting'
    BY <2>1, <2>4, <2>6 DEF Getting
  <2>8. k # NoKey
    BY KeyCases
  <2>9. PromiseInv'
    BY <2>1, <2>5, <2>7, <2>8 DEF PromiseInv
  <2> QED BY <2>1, <2>9 DEF Allowed, Promise!recordVars
<1> QED BY <1>1, <1>2 DEF GetRecord

\* A Put keeps what belongs.
LEMMA PutPromise ==
    ASSUME PromiseInv, StoreInv', NEW k \in Keys, NEW r, Belongs(k, r), PutRecord(k, r)
    PROVE  PromiseInv' /\ Allowed
<1>1. /\ pc = "idle" /\ calling = NoKey /\ UNCHANGED <<pc, calling>>
      /\ held'.key = k /\ held'.rec = r /\ held' = [key |-> k, rec |-> r]
      /\ records' = [x \in DOMAIN records \cup {k} |-> IF x = k THEN r ELSE records[x]]
  BY DEF PutRecord, PromiseInv, StoreInv, unmarshalVars
<1>2. /\ DOMAIN records' = DOMAIN records \cup {k} /\ records'[k] = r
      /\ \A x \in DOMAIN records \ {k} : records'[x] = records[x]
  BY <1>1
<1>3. PromiseInv'
  <2>1. ASSUME NEW x \in DOMAIN records' \cap Keys PROVE Belongs(x, records'[x])
    BY <1>2 DEF PromiseInv
  <2> QED BY <1>1, <2>1 DEF PromiseInv
<1>4. Promise!Put(k)
  BY <1>1, <1>2 DEF Promise!Put
<1> QED BY <1>3, <1>4 DEF Allowed, Promise!Next

\* A step of the Unmarshal that runs.
LEMMA DecodePromise == ASSUME PromiseInv, StoreInv', Decode PROVE PromiseInv' /\ Allowed
<1>1. /\ UnmarshalStep /\ UNCHANGED <<records, held, calling, msg>> /\ pc # "idle"
  BY StepKeepsCall DEF Decode
<1>2. ASSUME calling # NoKey PROVE Getting'
  <2>1. PICK r, from : r = records[calling] /\ Splits(msg, r, from) /\ Reads(r, from)
    BY <1>2 DEF PromiseInv, Getting
  <2>2. calling \in Keys /\ calling \in DOMAIN records /\ msg = MessageOf(calling)
    BY <1>2 DEF PromiseInv, StoreInv, Getting
  <2>3. Plain(msg, r)
    BY <2>1, <2>2 DEF PromiseInv, Belongs
  <2>4. IndexInv /\ RecordInv
    BY DEF PromiseInv, StoreInv
  <2>5. Reads(r, from)'
    BY <1>1, <2>1, <2>3, <2>4, ReadsOn
  <2>6. r = records'[calling'] /\ Splits(msg', r, from) /\ calling' \in Keys
    BY <1>1, <2>1, <2>2
  <2> QED BY <2>5, <2>6 DEF Getting
<1> QED BY <1>1, <1>2 DEF PromiseInv, Allowed, Promise!recordVars

\* The Get that returns has read the record last put.
LEMMA ReturnPromise == ASSUME PromiseInv, StoreInv', Return PROVE PromiseInv' /\ Allowed
<1>1. pc' = "idle" /\ calling' = NoKey /\ UNCHANGED records /\ pc \in {"ok", "failed"}
  BY DEF Return, Idle
<1>2. CASE calling = NoKey
  BY <1>1, <1>2 DEF Return, PromiseInv, Allowed, Promise!recordVars
<1>3. CASE calling # NoKey
  <2>1. PICK r, from : r = records[calling] /\ Reads(r, from)
    BY <1>3 DEF PromiseInv, Getting
  <2>2. pc = "ok" /\ m = records[calling]
    BY <1>1, <2>1 DEF Reads
  <2>3. calling \in Keys /\ calling \in DOMAIN records
    BY <1>3 DEF PromiseInv, StoreInv, Getting
  <2>4. held' = [key |-> calling, rec |-> m]
    BY <1>3, <2>2 DEF Return
  <2>5. held'.key = calling /\ held'.rec = m
    BY <2>4
  <2>6. Promise!Get(calling)
    BY <1>1, <2>2, <2>3, <2>5 DEF Promise!Get
  <2>7. PromiseInv'
    BY <1>1, <2>2, <2>3, <2>5 DEF PromiseInv
  <2> QED BY <2>3, <2>6, <2>7 DEF Allowed, Promise!Next
<1> QED BY <1>2, <1>3

\* A step that leaves Unmarshal alone.
LEMMA ReadsStill ==
    ASSUME NEW r, NEW from, Reads(r, from), UNCHANGED unmarshalVars PROVE Reads(r, from)'
<1>1. UNCHANGED <<msg, pc, dAtA, m, iNdEx, postIndex, field, wire, scale>>
  BY DEF unmarshalVars, indexVars
<1>2. /\ \A i : Suffix(i)' = Suffix(i)
      /\ Known' = Known /\ Type' = Type /\ Value(r)' = Value(r)
  BY <1>1 DEF Suffix, l, Known, Type, Value
<1>3. \A j : Agrees(r, j)' = Agrees(r, j)
  BY <1>1 DEF Agrees
<1>4. \A i, s, u, v, rest : Left(i, s, u, v, rest)' = Left(i, s, u, v, rest)
  BY <1>2 DEF Left
<1> QED BY <1>1, <1>2, <1>3, <1>4 DEF Reads, l

\* Every step keeps the invariant, and is one that the promise allows.
LEMMA NextPromise == ASSUME OneVersion, PromiseInv, [Next]_vars PROVE PromiseInv' /\ Allowed
<1>0. StoreInv'
  BY NextStoreInv DEF PromiseInv
<1>1. ASSUME NEW e \in ERC20Logs, GetEventERC20(e) PROVE PromiseInv' /\ Allowed
  <2> DEFINE r == ToEventERC20Deposited(e)
             k == eventKey("erc20", r)
  <2>1. k \in Keys
    BY DEF Keys, EventKeys
  <2>2. r \in New(k)
    BY DEF New, eventKey, MessageOf
  <2>3. GetRecord(k, r)
    BY <1>1 DEF GetEventERC20
  <2> HIDE DEF r, k
  <2> QED BY <1>0, <2>1, <2>2, <2>3, GetPromise
<1>2. ASSUME NEW e \in NFTLogs, GetEventNFT(e) PROVE PromiseInv' /\ Allowed
  <2> DEFINE r == ToEventNFTDeposited(e)
             k == eventKey("nft", r)
  <2>1. k \in Keys
    BY DEF Keys, EventKeys
  <2>2. r \in New(k)
    BY DEF New, eventKey, MessageOf
  <2>3. GetRecord(k, r)
    BY <1>2 DEF GetEventNFT
  <2> HIDE DEF r, k
  <2> QED BY <1>0, <2>1, <2>2, <2>3, GetPromise
<1>3. ASSUME NEW a \in Addresses, GetPair(a) PROVE PromiseInv' /\ Allowed
  <2> DEFINE r == NewPair(a)
             k == pairKey(r)
  <2>1. k = <<"pair", a>>
    BY DEF pairKey, NewPair, PairRecord
  <2>2. k \in Keys /\ r \in New(k)
    BY <2>1 DEF Keys, New, MessageOf
  <2>3. GetRecord(k, r)
    BY <1>3 DEF GetPair
  <2> HIDE DEF r, k
  <2> QED BY <1>0, <2>2, <2>3, GetPromise
<1>4. ASSUME NEW type \in {".erc20", ".nft"}, GetBlock(type) PROVE PromiseInv' /\ Allowed
  <2> DEFINE k == blockKey(type)
  <2>1. k \in Keys /\ NewBlock \in New(k)
    BY DEF Keys, New, MessageOf, blockKey
  <2>2. GetRecord(k, NewBlock)
    BY <1>4 DEF GetBlock
  <2> HIDE DEF k
  <2> QED BY <1>0, <2>1, <2>2, GetPromise
<1>5. CASE Parse
  BY <1>0, <1>5 DEF Parse, PromiseInv, Allowed, Promise!recordVars
<1>6. CASE Decode
  BY <1>0, <1>6, DecodePromise
<1>7. CASE Return
  BY <1>0, <1>7, ReturnPromise
<1>8. ASSUME NEW status \in {FAILED, SUCCEEDED}, NEW retry \in Retries, PutEvent(status, retry)
      PROVE  PromiseInv' /\ Allowed
  <2> DEFINE message == MessageOf(held.key)
             r == [held.rec EXCEPT !.status = status, !.retry = retry]
  <2>1. message \in {"erc20", "nft"} /\ PutRecord(eventKey(message, r), r)
    BY <1>8 DEF PutEvent
  <2>2. held # NoRecord
    <3>1. MessageOf(NoRecord.key) \notin Messages
      BY NoKeyMessage DEF NoRecord
    <3> QED BY <2>1, <3>1 DEF Messages
  <2>3. held.key \in Keys /\ Belongs(held.key, held.rec)
    BY <2>2 DEF PromiseInv
  <2>4. Belongs(held.key, r) /\ eventKey(message, r) = held.key
    <3>1. PICK k, q : k = held.key /\ q = held.rec
      OBVIOUS
    <3>2. k \in Keys /\ MessageOf(k) \in {"erc20", "nft"} /\ Belongs(k, q)
      BY <2>1, <2>3, <3>1
    <3>3. PICK kind, s : kind = MessageOf(k) /\ s = Handled(q, status, retry)
      OBVIOUS
    <3>4. Belongs(k, s) /\ eventKey(kind, s) = k
      BY <3>2, <3>3, EventBelongs
    <3> QED BY <3>1, <3>3, <3>4 DEF Handled
  <2> HIDE DEF r, message
  <2> QED BY <1>0, <2>1, <2>3, <2>4, PutPromise
<1>9. ASSUME NEW a \in Addresses, NEW b \in Addresses, NEW type \in {ORIGINAL, WRAPPED},
             PutPair(a, b, type)
      PROVE  PromiseInv' /\ Allowed
  <2> DEFINE r == PairRecord(a, b, type, ORIGINAL)
  <2>1. PutRecord(pairKey(r), r)
    BY <1>9 DEF PutPair
  <2>2. pairKey(r) \in Keys /\ Belongs(pairKey(r), r)
    BY PairBelongs
  <2> HIDE DEF r
  <2> QED BY <1>0, <2>1, <2>2, PutPromise
<1>10. ASSUME NEW n \in BlockNumbers, PutBlock(n) PROVE PromiseInv' /\ Allowed
  <2>1. MessageOf(held.key) = "block" /\ PutRecord(held.key, [held.rec EXCEPT !.number = n])
    BY <1>10 DEF PutBlock
  <2>2. held # NoRecord
    <3>1. MessageOf(NoRecord.key) \notin Messages
      BY NoKeyMessage DEF NoRecord
    <3> QED BY <2>1, <3>1 DEF Messages
  <2>3. held.key \in Keys /\ Belongs(held.key, held.rec)
    BY <2>2 DEF PromiseInv
  <2> QED BY <1>0, <2>1, <2>3, BlockBelongs, PutPromise
<1>11. CASE UNCHANGED vars
  <2>1. UNCHANGED <<records, held, calling, unmarshalVars>> /\ UNCHANGED <<pc, msg>>
    BY <1>11 DEF vars, unmarshalVars
  <2>2. ASSUME Getting PROVE Getting'
    <3>1. PICK r, from : r = records[calling] /\ Splits(msg, r, from) /\ Reads(r, from)
      BY <2>2 DEF Getting
    <3>2. Reads(r, from)'
      BY <2>1, <3>1, ReadsStill
    <3> QED BY <2>1, <2>2, <3>1, <3>2 DEF Getting
  <2> QED BY <1>0, <2>1, <2>2 DEF PromiseInv, Allowed, Promise!recordVars
<1> QED BY <1>1, <1>2, <1>3, <1>4, <1>5, <1>6, <1>7, <1>8, <1>9, <1>10, <1>11 DEF Next

\* What Get gives back is the record last put under its key, after Marshal, LevelDB and
\* Unmarshal, and a caller that finds none keeps the record it asked with: the database
\* implements a map from keys to records.  It holds where this version of the code wrote
\* all there is in the database and an id names one deposit (event.pb.go, Marshal and
\* Unmarshal; store.go, Get and Put).
THEOREM StoreKeepsPromise == ASSUME OneVersion PROVE Spec => KeepsPromise
<1>1. Init => PromiseInv
  BY InitPromise
<1>2. PromiseInv /\ [Next]_vars => PromiseInv' /\ Allowed
  BY NextPromise
<1> QED BY <1>1, <1>2, PTL DEF Spec, KeepsPromise, Promise!Spec, Allowed

=============================================================================
