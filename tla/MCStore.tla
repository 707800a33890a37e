------------------------------ MODULE MCStore ------------------------------
(* Small instances of Store for TLC: words of 8 bits for the code's 64 and   *)
(* of 5 for its 32, so that a varint has two bytes, the second with one bit  *)
(* to spare, as the tenth has in the code.                                   *)
EXTENDS Store, SequencesExt

MCZeroTime == <<8, 1>>
MCTimes == {<<>>, MCZeroTime}

A == <<65>>
B == <<66, 66>>
MCAddresses == {A, B}
\* Numbers of no byte, one byte and two, and one that is no word.
MCERC20Logs == {[id |-> 0, token |-> A, sender |-> B, amount |-> <<48>>],
                [id |-> 200, token |-> B, sender |-> A, amount |-> <<49, 48, 48>>]}
MCNFTLogs == {[id |-> 1, token |-> A, sender |-> B, tokenid |-> 0],
              [id |-> 127, token |-> B, sender |-> A, tokenid |-> 511]}
MCRetries == {3}
MCBlockNumbers == {127, 128}

MCEmpty == [message \in Messages |->
    CASE message = "erc20" -> ERC20Record(0, <<>>, <<>>, <<>>, 0, UNDEFINED)
      [] message = "nft" -> NFTRecord(0, <<>>, <<>>, 0, 0, UNDEFINED)
      [] message = "pair" -> NewPair(<<>>)
      [] message = "block" -> NewBlock]

\* What a later version might have left: a time in a record, and fields 8 and up of
\* every wire type, a group within a group among them.
Later == <<64, 129, 1, 73, 1, 2, 3, 4, 5, 6, 7, 8, 82, 1, 9, 91, 99, 101, 1, 2, 3, 4, 100, 92>>
LaterEvent == [ToEventERC20Deposited([id |-> 200, token |-> B, sender |-> A, amount |-> <<49, 48, 48>>])
    EXCEPT !.retry = 2, !.status = FAILED, !.updated_at = Time(<<8, 1>>), !.unrecognized = Later]
LaterBlock == [NewBlock EXCEPT !.number = 1, !.updated_at = Time(<<>>), !.unrecognized = Later]
LaterRecords == (<<"erc20", 200>> :> LaterEvent) @@ (<<"block", ".nft">> :> LaterBlock)
MCInitialDbs ==
    {[db |-> <<>>, records |-> <<>>],
     [db |-> [k \in DOMAIN LaterRecords |-> Marshal(k[1], LaterRecords[k])], records |-> LaterRecords]}

\* Every short string over the bytes that matter: tags of every wire type for known
\* and unknown fields, lengths, continuation bytes, the largest word.
Alphabet == {0, 2, 8, 18, 32, 42, 65, 66, 67, 68, 70, 127, 128, 255}
MCInputs == BoundedSeq(Alphabet, 3)
            \cup {<<t, a, b, c>> : t \in {10, 18, 42, 66, 67}, a \in {67, 127, 128, 253, 255}, b \in {0, 1, 3, 66, 127}, c \in {0, 1, 68, 127}}
=============================================================================
