------------------------------- MODULE Client -------------------------------
(***************************************************************************)
(* The two clients at work: the main goroutine fetches the logs of the in    *)
(* chain while a worker of the confirmer asks the out chain about a          *)
(* transaction.                                                             *)
(***************************************************************************)
EXTENDS LogFilter, Confirm

vars == <<filterVars, confirmVars>>

Init == FilterInit /\ ConfirmInit

Next ==
    \/ MainStep /\ UNCHANGED confirmVars
    \/ Deliver /\ UNCHANGED confirmVars
    \/ FilterStep /\ UNCHANGED confirmVars
    \/ ConfirmNext /\ UNCHANGED filterVars

\* The Go scheduler runs each goroutine that can go on; nothing is assumed of the
\* chains or of the confirmer.
Spec ==
    /\ Init /\ [][Next]_vars
    /\ WF_vars(MainStep /\ UNCHANGED confirmVars)
    /\ WF_vars(Deliver /\ UNCHANGED confirmVars)
    /\ WF_vars(FilterStep /\ UNCHANGED confirmVars)
=============================================================================
