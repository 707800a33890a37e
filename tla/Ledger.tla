------------------------------- MODULE Ledger -------------------------------
(***************************************************************************)
(* What the bridge does for a depositor, without the daemon: deposits are    *)
(* logged, mints of them are attempted on the out chain, and the outcome of  *)
(* a deposit is recorded when the chain bears it out.                        *)
(***************************************************************************)
EXTENDS Naturals, Sequences, FiniteSets

CONSTANTS
    Events,     \* the deposits
    RetryLimit  \* retries after a failed mint

VARIABLES
    deposited,  \* the deposits logged on the in chain
    receipts,   \* the mints mined on the out chain, in order
    status      \* what is recorded of each deposit

books == <<deposited, receipts, status>>

Minted(e) == \E i \in 1..Len(receipts) : receipts[i] = [ev |-> e, ok |-> TRUE]
Failures(e) == {i \in 1..Len(receipts) : receipts[i] = [ev |-> e, ok |-> FALSE]}

Init ==
    /\ deposited = {}
    /\ receipts = <<>>
    /\ status = [e \in Events |-> "none"]

Deposit ==
    /\ deposited' \in SUBSET Events /\ deposited \subseteq deposited'
    /\ UNCHANGED <<receipts, status>>

Attempt(e) ==
    /\ e \in deposited
    /\ \E ok \in BOOLEAN : receipts' = Append(receipts, [ev |-> e, ok |-> ok])
    /\ UNCHANGED <<deposited, status>>

Record(e, s) ==
    /\ status' = [status EXCEPT ![e] = s]
    /\ UNCHANGED <<deposited, receipts>>

Succeed(e) == Minted(e) /\ Record(e, "SUCCEEDED")
GiveUp(e) == Cardinality(Failures(e)) > RetryLimit /\ Record(e, "FAILED")

Next == Deposit \/ \E e \in Events : Attempt(e) \/ Succeed(e) \/ GiveUp(e)

Spec == Init /\ [][Next]_books
=============================================================================
