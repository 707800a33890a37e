------------------------------- MODULE Store -------------------------------
(***************************************************************************)
(* The daemon's database at the level of bytes: the Get and Put of events,  *)
(* pairs and confirmed blocks, through the prefix stores, Marshal and        *)
(* Unmarshal.  A Put is atomic in LevelDB, so it is one step; a Get runs    *)
(* Unmarshal byte by byte on what it found.                                 *)
(***************************************************************************)
EXTENDS Unmarshal, FiniteSets

CONSTANTS ERC20Logs,    \* the deposits: records [id, token, sender, amount]
          NFTLogs,      \* records [id, token, sender, tokenid]
          Addresses,    \* token addresses, as byte strings
          Retries,      \* the retry counters the bridge stores
          BlockNumbers, \* the block numbers it stores
          MaxRecords,   \* the records that db holds at most
          InitialDbs    \* what an earlier daemon left: [db, records]

ASSUME StoreAssumption ==
    /\ \A e \in ERC20Logs :
          e.id \in Nat /\ {e.token, e.sender, e.amount} \subseteq Seq(Byte)
    /\ \A e \in NFTLogs :
          {e.id, e.tokenid} \subseteq Nat /\ {e.token, e.sender} \subseteq Seq(Byte)
    /\ Addresses \subseteq Seq(Byte)
    /\ Retries \subseteq 0..(Word32 - 1) /\ BlockNumbers \subseteq 0..(Word - 1)
    /\ \A i \in InitialDbs :
          /\ DOMAIN i.db = DOMAIN i.records
          /\ \A k \in DOMAIN i.db :
                /\ k[1] \in Messages /\ IsRecord(k[1], i.records[k])
                /\ i.db[k] = Marshal(k[1], i.records[k]) /\ IsSlice(i.db[k])

VARIABLES
    db,         \* LevelDB: a function from some keys to byte strings
    held,       \* the key and the record the caller's last call left it with
    calling,    \* the key of the Get that runs, or of no Get
    records     \* history: the record last put under each key of db

vars == <<unmarshalVars, db, held, calling, records>>

\* A prefix store's key is its prefix, here the message's name, and the record's key.
eventKey(kind, r) == <<kind, r.id>>
pairKey(r) == <<"pair", r.inaddr>>
blockKey(type) == <<"block", type>>
NoKey == <<"none">>
MessageOf(k) == k[1]

\* EventStatus and Pair_Type.
UNDEFINED == 0
FAILED == 1
SUCCEEDED == 2
ORIGINAL == 0
WRAPPED == 1

\* uint64(x.Int64()) of a uint256: its low word.
ToUint64(x) == x % Word

ToEventERC20Deposited(e) ==
    ERC20Record(ToUint64(e.id), e.token, e.sender, e.amount, 0, UNDEFINED)
ToEventNFTDeposited(e) ==
    NFTRecord(ToUint64(e.id), e.token, e.sender, ToUint64(e.tokenid), 0, UNDEFINED)
NewPair(inaddr) == PairRecord(inaddr, <<>>, ORIGINAL, ORIGINAL)
NewBlock == BlockRecord(<<>>, 0)

NoRecord == [key |-> NoKey, rec |-> NewBlock]

Init ==
    /\ \E i \in InitialDbs : db = i.db /\ records = i.records
    /\ held = NoRecord /\ calling = NoKey
    /\ msg = "block" /\ pc = "idle" /\ dAtA = <<>> /\ m = NewBlock
    /\ iNdEx = 0 /\ preIndex = 0 /\ postIndex = 0
    /\ field = 0 /\ wire = 0 /\ scale = 1 /\ skip = 0 /\ depth = 0

-----------------------------------------------------------------------------
(* Get.                                                                      *)

\* s.Get finds nothing: the caller keeps its record (and an error, but for a block).
GetMissing(k, r) ==
    /\ pc = "idle" /\ k \notin DOMAIN db
    /\ held' = [key |-> k, rec |-> r]
    /\ UNCHANGED <<unmarshalVars, db, calling, records>>

GetFound(k, r) ==
    /\ pc = "idle" /\ k \in DOMAIN db
    /\ Call(MessageOf(k), db[k], r)
    /\ calling' = k
    /\ UNCHANGED <<db, held, records>>

GetRecord(k, r) == GetMissing(k, r) \/ GetFound(k, r)

GetEventERC20(e) ==
    LET r == ToEventERC20Deposited(e) IN GetRecord(eventKey("erc20", r), r)
GetEventNFT(e) ==
    LET r == ToEventNFTDeposited(e) IN GetRecord(eventKey("nft", r), r)
GetPair(inaddr) ==
    LET r == NewPair(inaddr) IN GetRecord(pairKey(r), r)
\* NewBridge reads each block once, into the zero value of its field.
GetBlock(type) == GetRecord(blockKey(type), NewBlock)

\* Unmarshal alone, on bytes from anywhere, into a zero record.
Parse ==
    /\ pc = "idle" /\ held = NoRecord
    /\ \E message \in Messages, s \in Inputs : Call(message, s, Empty[message])
    /\ calling' = NoKey
    /\ UNCHANGED <<db, held, records>>

Idle == /\ msg' = "block" /\ pc' = "idle" /\ dAtA' = <<>> /\ m' = NewBlock
        /\ iNdEx' = 0 /\ preIndex' = 0 /\ postIndex' = 0
        /\ field' = 0 /\ wire' = 0 /\ scale' = 1 /\ skip' = 0 /\ depth' = 0

\* A record Unmarshal refused is dropped with its error.
Return ==
    /\ pc \in {"ok", "failed"}
    /\ held' = IF pc = "ok" /\ calling # NoKey THEN [key |-> calling, rec |-> m] ELSE NoRecord
    /\ calling' = NoKey
    /\ Idle
    /\ UNCHANGED <<db, records>>

\* One step of the Unmarshal that runs.
Decode == UnmarshalStep /\ UNCHANGED <<db, held, calling, records>>

-----------------------------------------------------------------------------
(* Put.                                                                      *)

\* Marshal makes a slice of Size(r) bytes, which is an int.
PutRecord(k, r) ==
    /\ pc = "idle"
    /\ Size(MessageOf(k), r) < Sign
    /\ Cardinality(DOMAIN db \cup {k}) <= MaxRecords
    /\ db' = [x \in DOMAIN db \cup {k} |->
                 IF x = k THEN Marshal(MessageOf(k), r) ELSE db[x]]
    /\ records' = [x \in DOMAIN records \cup {k} |-> IF x = k THEN r ELSE records[x]]
    /\ held' = [key |-> k, rec |-> r]
    /\ UNCHANGED <<unmarshalVars, calling>>

\* confirmedHandler and confirmerErrHandler store the event that handleLogs got.
PutEvent(status, retry) ==
    /\ MessageOf(held.key) \in {"erc20", "nft"}
    /\ LET r == [held.rec EXCEPT !.status = status, !.retry = retry]
       IN  PutRecord(eventKey(MessageOf(held.key), r), r)

\* pair set.
PutPair(inaddr, outaddr, type) ==
    LET r == PairRecord(inaddr, outaddr, type, ORIGINAL) IN PutRecord(pairKey(r), r)

\* The main loop stores a block with the number the last fetch ended at.
PutBlock(number) ==
    /\ MessageOf(held.key) = "block"
    /\ PutRecord(held.key, [held.rec EXCEPT !.number = number])

-----------------------------------------------------------------------------
Next ==
    \/ \E e \in ERC20Logs : GetEventERC20(e)
    \/ \E e \in NFTLogs : GetEventNFT(e)
    \/ \E a \in Addresses : GetPair(a)
    \/ \E type \in {".erc20", ".nft"} : GetBlock(type)
    \/ Parse
    \/ Decode
    \/ Return
    \/ \E status \in {FAILED, SUCCEEDED}, retry \in Retries : PutEvent(status, retry)
    \/ \E a, b \in Addresses, type \in {ORIGINAL, WRAPPED} : PutPair(a, b, type)
    \/ \E n \in BlockNumbers : PutBlock(n)

\* Unmarshal is a plain loop: once called it goes on until it returns.
Spec == Init /\ [][Next]_vars /\ WF_vars(Decode) /\ WF_vars(Return)

-----------------------------------------------------------------------------
(* Properties.                                                               *)

\* Types: the varint being read is a word, shift has not run away, an open group
\* was opened, each field of m has its Go type, and the database holds byte strings.
TypeOK ==
    /\ wire \in 0..(Word - 1)
    /\ field \in -Sign32..(Sign32 - 1)
    /\ scale \in 1..(128 * Word)
    /\ {iNdEx, preIndex, postIndex, skip} \subseteq -Sign..(Sign - 1)
    /\ depth \in 0..l
    /\ IsRecord(msg, m)
    /\ \A k \in DOMAIN db : IsSlice(db[k])
    /\ DOMAIN db = DOMAIN records

\* Size and MarshalToSizedBuffer, two functions of the generated code, agree on
\* every record Unmarshal can produce: the buffer is filled exactly.
SizeExact == pc = "ok" => Len(Bytes(msg, m)) = Size(msg, m)

\* Every call of Unmarshal returns: no bytes make it go around for ever.
GetReturns == pc # "idle" ~> pc = "idle"

\* The store keeps its promise: what Get gives back, after all the bytes, is the
\* record last put, with the fields of another version that this one does not know,
\* though Unmarshal leaves alone what the bytes do not mention.
EventKeys ==
    {eventKey("erc20", ToEventERC20Deposited(e)) : e \in ERC20Logs}
    \cup {eventKey("nft", ToEventNFTDeposited(e)) : e \in NFTLogs}
New(k) ==
    CASE MessageOf(k) = "erc20" ->
            {r \in {ToEventERC20Deposited(e) : e \in ERC20Logs} : r.id = k[2]}
      [] MessageOf(k) = "nft"   ->
            {r \in {ToEventNFTDeposited(e) : e \in NFTLogs} : r.id = k[2]}
      [] MessageOf(k) = "pair"  -> {NewPair(k[2])}
      [] MessageOf(k) = "block" -> {NewBlock}
Keys == EventKeys \cup ({"pair"} \X Addresses) \cup ({"block"} \X {".erc20", ".nft"})
Promise == INSTANCE Records
KeepsPromise == Promise!Spec
=============================================================================
