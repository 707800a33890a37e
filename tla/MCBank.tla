------------------------------- MODULE MCBank -------------------------------
(* Small instances of Bank for TLC: one coin, one ERC20, one NFT.          *)
EXTENDS Bank

CONSTANTS alice, operator, bank, bridge, coin, erc20, nft, erc20Contract, nftContract

ContractOfEach == [a \in Tokens |-> IF a = erc20 THEN erc20Contract ELSE nftContract]

(* Alice begins with one of each.                                          *)
OneEach == [a \in Assets |-> [u \in Accounts |-> IF u = alice THEN 1 ELSE 0]]
=============================================================================
