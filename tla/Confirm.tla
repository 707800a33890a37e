------------------------------ MODULE Confirm ------------------------------
(***************************************************************************)
(* ConfirmTx on a chain that may reorganise: it reads the receipt and then   *)
(* the head, two calls to the node, and reports a transaction as confirmed   *)
(* when enough blocks are on top of its own.                                 *)
(***************************************************************************)
EXTENDS Integers

CONSTANTS
    Confirmations,  \* confirmationBlocks
    ReorgDepth,     \* the blocks a reorganisation replaces at most
    MaxBlocks       \* bound on the chain's height

ASSUME ConfirmAssumption ==
    /\ Confirmations \in Nat /\ ReorgDepth \in Nat /\ MaxBlocks \in Nat
    /\ ReorgDepth <= Confirmations

VARIABLES
    height,     \* of the chain
    txBlock,    \* the block the transaction is in, or 0
    txOk,       \* its status there
    confirmer,  \* ConfirmTx: "poll", "receipt" (it has the receipt), "confirmed", or
                \* "failed": it returned another error, for the error handler
    receipt,    \* the block number of the receipt
    reorged     \* history: a reorganisation came after the receipt was read

chainVars == <<height, txBlock, txOk>>
confirmVars == <<chainVars, confirmer, receipt, reorged>>

ConfirmInit ==
    /\ height = 0 /\ txBlock = 0 /\ txOk = TRUE
    /\ confirmer = "poll" /\ receipt = 0 /\ reorged = FALSE

-----------------------------------------------------------------------------
(* The chain (external).                                                     *)

\* A block, with the transaction if it is not mined yet.
MineBlock ==
    /\ height < MaxBlocks
    /\ height' = height + 1
    /\ \/ UNCHANGED <<txBlock, txOk>>
       \/ txBlock = 0 /\ txBlock' = height' /\ txOk' \in BOOLEAN
    /\ UNCHANGED <<confirmer, receipt, reorged>>

\* The blocks above from are replaced by at least as many.  The transaction, if it
\* was in one of them, is in a new one or in none.
Reorganise ==
    /\ \E from \in 0..height, top \in height..MaxBlocks :
          /\ height - from <= ReorgDepth /\ from < height
          /\ height' = top
          /\ IF txBlock > from \/ txBlock = 0
             THEN txBlock' \in {0} \cup (from + 1)..top /\ txOk' \in BOOLEAN
             ELSE UNCHANGED <<txBlock, txOk>>
    /\ reorged' = (confirmer = "receipt" \/ reorged)
    /\ UNCHANGED <<confirmer, receipt>>

-----------------------------------------------------------------------------
(* ConfirmTx.  The confirmer polls again after ErrTxNotFound and             *)
(* ErrTxConfirmPending; any other error ends the poll in its error handler.  *)

\* TransactionReceipt fails, with an error other than NotFound.
ReceiptErr ==
    /\ confirmer = "poll"
    /\ confirmer' = "failed"
    /\ UNCHANGED <<chainVars, receipt, reorged>>

\* The receipt is there, and the transaction did not fail.
ReadReceipt ==
    /\ confirmer = "poll" /\ txBlock # 0 /\ txOk
    /\ confirmer' = "receipt" /\ receipt' = txBlock /\ reorged' = FALSE
    /\ UNCHANGED chainVars

\* A status that is not 1 is ErrTxFailed at once, in however fresh a block.
ReadFailed ==
    /\ confirmer = "poll" /\ txBlock # 0 /\ ~txOk
    /\ confirmer' = "failed"
    /\ UNCHANGED <<chainVars, receipt, reorged>>

\* Bug: the block of the transaction counts as a confirmation.
ConfirmedEarly ==
    /\ confirmer = "receipt" /\ receipt + Confirmations <= height + 1
    /\ confirmer' = "confirmed"
    /\ UNCHANGED <<chainVars, receipt, reorged>>

\* The head is read: enough blocks.
Confirmed ==
    /\ confirmer = "receipt" /\ receipt + Confirmations <= height
    /\ confirmer' = "confirmed"
    /\ UNCHANGED <<chainVars, receipt, reorged>>

\* LatestBlockNumber fails.
HeadErr ==
    /\ confirmer = "receipt"
    /\ confirmer' = "failed"
    /\ UNCHANGED <<chainVars, receipt, reorged>>

\* The head is read: ErrTxConfirmPending.
Pending ==
    /\ confirmer = "receipt" /\ receipt + Confirmations > height
    /\ confirmer' = "poll" /\ receipt' = 0 /\ reorged' = FALSE
    /\ UNCHANGED chainVars

ConfirmStep == ReceiptErr \/ ReadReceipt \/ ReadFailed \/ HeadErr \/ Confirmed \/ Pending
ConfirmNext == MineBlock \/ Reorganise \/ ConfirmStep

ConfirmSpec == ConfirmInit /\ [][ConfirmNext]_confirmVars

-----------------------------------------------------------------------------
(* Properties.                                                               *)

\* A transaction reported as confirmed is in the chain to stay, where
\* confirmationBlocks is no less than the depth of a reorganisation and none came
\* between the two reads: ConfirmTx does not look at the receipt again.
ConfirmedForGood ==
    [][confirmer = "confirmed" /\ ~reorged => UNCHANGED <<txBlock, txOk, reorged>> /\ txBlock # 0]_confirmVars
=============================================================================
