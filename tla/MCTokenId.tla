----------------------------- MODULE MCTokenId -----------------------------
(* Small instances of TokenId for TLC: words of 2 bits for the code's 64.  *)
EXTENDS TokenId

(* Every id that fits in a word.                                           *)
WordIds == 0..(Word - 1)
=============================================================================
