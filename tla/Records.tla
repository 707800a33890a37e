------------------------------ MODULE Records ------------------------------
(***************************************************************************)
(* What the store promises to the bridge and to the pair commands: a record *)
(* is read back whole, as it was last put, and a caller that asks for one    *)
(* that was never put is left with the record it asked with.                *)
(***************************************************************************)
CONSTANTS
    Keys,
    New(_)      \* the records a caller may ask for a key with

VARIABLES
    records,    \* what was put: a function from some keys to records
    held        \* the key and the record of the caller's last Get or Put

recordVars == <<records, held>>

Get(k) ==
    /\ UNCHANGED records
    /\ held'.key = k
    /\ IF k \in DOMAIN records THEN held'.rec = records[k] ELSE held'.rec \in New(k)

Put(k) ==
    /\ DOMAIN records' = DOMAIN records \cup {k}
    /\ \A x \in DOMAIN records \ {k} : records'[x] = records[x]
    /\ held' = [key |-> k, rec |-> records'[k]]

Next == \E k \in Keys : Get(k) \/ Put(k)

Spec == [][Next]_recordVars
=============================================================================
