----------------------------- MODULE RetryProofs -----------------------------
(***************************************************************************)
(* What a retry keeps: no deposit is given up before its retries, and no    *)
(* nonce is lost on the way to the node.                                    *)
(***************************************************************************)
EXTENDS RelayerProofs, FiniteSetTheorems

(* Which steps change what.                                                  *)

\* The maps: send puts an entry, a handler takes one, the process ends.
LEMMA EventMapStep ==
    ASSUME [Next]_vars
    PROVE  \/ Exit
           \/ UNCHANGED eventMap
           \/ HandleWrite
           \/ \E w \in Workers : RetryWrite(w)
           \/ \E w \in Workers, t \in sent : \E step, r : TakeEvent(w, t, step, r)
BY DEF Next, MineIn, MineOut, PairSet, Start, Crash, Fatal, Signal,
       MainStep, TickBusy, TickFetch, Fetch, FetchLatestErr, FetchFilterErr, FetchDone,
       HandleLog, HandleSkip, HandleNoPair, HandlePanic, HandleGet, HandleNonce,
       HandleGetErr, HandleMintErr, HandleLogsErr, Enqueue, EnqueueErr,
       CloseStep, CloseWait, CloseCommitERC20, CloseCommitNFT, CloseExit,
       WorkerStep, Submit, SubmitErr, ConfirmedHandler, TxFailed, PollErr,
       PutSucceeded, PutFailed, StoreEvent, PutErr, RetryNonce, RetryBuild, RetryErr,
       RetryEnqueue, RetryEnqueueErr,
       vars, inVars, outVars, storeVars, mainVars, sharedVars

\* handleLogs' event: taken up with its stored retry count, kept until it is written.
LEMMA EventStep ==
    ASSUME [Next]_vars
    PROVE  UNCHANGED event \/ event' = NoEvent \/ \E f \in Events : HandleGet(f)
BY DEF Next, MineIn, MineOut, PairSet, Start, Crash, Exit, Fatal, Signal, MainStep,
       TickBusy, TickFetch, Fetch, FetchLatestErr, FetchFilterErr, FetchDone, HandleLog,
       HandleSkip, HandleNoPair, HandlePanic, HandleNonce, HandleWrite, HandleGetErr,
       HandleMintErr, HandleLogsErr, Enqueue, EnqueueErr, CloseStep, CloseWait,
       CloseCommitERC20, CloseCommitNFT, CloseExit, WorkerStep, Submit, SubmitErr,
       ConfirmedHandler, TxFailed, PollErr, TakeEvent, PutSucceeded, PutFailed,
       StoreEvent, PutErr, RetryNonce, RetryBuild, RetryWrite, RetryErr, RetryEnqueue,
       RetryEnqueueErr, vars, inVars, outVars, storeVars, mainVars, sharedVars

\* A transaction comes to be polled only when the node has accepted it.
LEMMA SentStep ==
    ASSUME [Next]_vars, NEW h \in sent', h \notin sent
    PROVE  NodeAccepts(h)
<1>1. \/ sent' \subseteq sent
      \/ \E w \in Workers : Submit(w)
  BY DEF Next, MineIn, MineOut, PairSet, Start, Crash, Exit, Fatal, Signal, MainStep,
       TickBusy, TickFetch, Fetch, FetchLatestErr, FetchFilterErr, FetchDone, HandleLog,
       HandleSkip, HandleNoPair, HandlePanic, HandleGet, HandleNonce, HandleWrite,
       HandleGetErr, HandleMintErr, HandleLogsErr, Enqueue, EnqueueErr, CloseStep,
       CloseWait, CloseCommitERC20, CloseCommitNFT, CloseExit, WorkerStep, SubmitErr,
       ConfirmedHandler, TxFailed, PollErr, TakeEvent, PutSucceeded, PutFailed,
       StoreEvent, PutErr, RetryNonce, RetryBuild, RetryWrite, RetryErr, RetryEnqueue,
       RetryEnqueueErr, vars, inVars, outVars, storeVars, mainVars, sharedVars
<1> QED BY <1>1 DEF Submit

-----------------------------------------------------------------------------
(* Records of failure.  Each handler that counts a retry consumes a mint of  *)
(* its own that was mined with status 0; the count an entry carries is       *)
(* covered by the failures before it.                                       *)

\* The failures of h's deposit other than h itself.
OtherFailures(h) == FailuresOf(h.ev) \ {h.nonce + 1}

\* The transaction may still be mined, or is polled.  One that a restart sent again
\* under a nonce that was taken meanwhile is neither, and never calls back.
Pending(h) == h \in sent \/ Len(mined) <= h.nonce

RecordCounts(e) ==
    /\ db[e].retry <= RetryLimit
    /\ db[e].status = "none" => db[e].retry = 0
    /\ db[e].status = "FAILED" => Cardinality(FailuresOf(e)) > RetryLimit
EntryCounts(h) ==
    /\ eventMap[h] <= RetryLimit
    /\ Pending(h) => eventMap[h] <= Cardinality(OtherFailures(h))
WorkerCounts(w) ==
    /\ worker[w].retry <= RetryLimit
    /\ worker[w].pc = "failed" => Cardinality(FailuresOf(worker[w].ev)) > RetryLimit
    /\ worker[w].pc \in {"retry", "build", "write"}
         => worker[w].retry <= Cardinality(FailuresOf(worker[w].ev))
EventCounts ==
    event # NoEvent =>
        event.retry <= RetryLimit /\ event.retry <= Cardinality(FailuresOf(event.ev))

FailedInv ==
    /\ HandInv
    /\ OwnEvent
    /\ EventCounts
    /\ \A e \in Events : RecordCounts(e)
    /\ \A h \in DOMAIN eventMap : EntryCounts(h)
    /\ \A w \in Workers : WorkerCounts(w)

LEMMA FailuresFinite ==
    ASSUME TypeOK, NEW e
    PROVE  IsFiniteSet(FailuresOf(e)) /\ Cardinality(FailuresOf(e)) \in Nat
<1>1. Len(mined) \in Nat
  BY DEF TypeOK
<1>2. IsFiniteSet(1..Len(mined))
  BY <1>1, FS_Interval
<1>3. FailuresOf(e) \in SUBSET (1..Len(mined))
  BY DEF FailuresOf
<1> QED BY <1>2, <1>3, FS_Subset, FS_CardinalityType

\* Failures are never taken back, and none is beyond the mined transactions.
LEMMA FailuresGrow ==
    ASSUME TypeOK, TypeOK', [Next]_vars, NEW e
    PROVE  /\ FailuresOf(e) \subseteq FailuresOf(e)'
           /\ Cardinality(FailuresOf(e)) <= Cardinality(FailuresOf(e)')
           /\ Cardinality(FailuresOf(e)') \in Nat
           /\ \A x : /\ Cardinality(FailuresOf(e) \ {x}) <= Cardinality(FailuresOf(e)' \ {x})
                     /\ Cardinality(FailuresOf(e) \ {x}) \in Nat
                     /\ Cardinality(FailuresOf(e)' \ {x}) \in Nat
<1>1. FailuresOf(e) \subseteq FailuresOf(e)'
  <2>1. CASE UNCHANGED mined
    BY <2>1 DEF FailuresOf
  <2>2. ASSUME NEW r, mined' = Append(mined, r) PROVE FailuresOf(e) \subseteq FailuresOf(e)'
    <3>1. mined \in Seq([ev : Events, ok : BOOLEAN])
      BY DEF TypeOK
    <3>2. \A i \in 1..Len(mined) : i \in 1..Len(mined') /\ mined'[i] = mined[i]
      BY <2>2, <3>1
    <3> QED BY <3>2 DEF FailuresOf
  <2> QED BY <2>1, <2>2, MinedStep
<1>2. IsFiniteSet(FailuresOf(e)') /\ Cardinality(FailuresOf(e)') \in Nat
  <2>1. Len(mined') \in Nat
    <3>1. mined' \in Seq([ev : Events, ok : BOOLEAN])
      BY DEF TypeOK
    <3> QED BY <3>1
  <2>2. IsFiniteSet(1..Len(mined'))
    BY <2>1, FS_Interval
  <2>3. FailuresOf(e)' \in SUBSET (1..Len(mined'))
    BY DEF FailuresOf
  <2> QED BY <2>2, <2>3, FS_Subset, FS_CardinalityType
<1>3. \A x : /\ Cardinality(FailuresOf(e) \ {x}) <= Cardinality(FailuresOf(e)' \ {x})
             /\ Cardinality(FailuresOf(e) \ {x}) \in Nat
             /\ Cardinality(FailuresOf(e)' \ {x}) \in Nat
  <2> TAKE x
  <2>1. IsFiniteSet(FailuresOf(e)' \ {x})
    BY <1>2, FS_RemoveElement
  <2>2. FailuresOf(e) \ {x} \in SUBSET (FailuresOf(e)' \ {x})
    BY <1>1
  <2>3. IsFiniteSet(FailuresOf(e) \ {x})
    BY <2>1, <2>2, FS_Subset
  <2> QED BY <2>1, <2>2, <2>3, FS_Subset, FS_CardinalityType
<1>4. Cardinality(FailuresOf(e)) <= Cardinality(FailuresOf(e)')
  BY <1>1, <1>2, FS_Subset
<1> QED BY <1>1, <1>2, <1>3, <1>4

\* Nothing becomes pending that was not.
LEMMA PendingBefore ==
    ASSUME TypeOK, TypeOK', [Next]_vars, NEW h \in Tx, Pending(h)'
    PROVE  Pending(h)
<1>1. Len(mined) \in Nat /\ Len(mined') \in Nat /\ h.nonce \in Nat
  <2>1. mined \in Seq([ev : Events, ok : BOOLEAN]) /\ mined' \in Seq([ev : Events, ok : BOOLEAN])
    BY DEF TypeOK
  <2> QED BY <2>1 DEF Tx
<1>2. Len(mined) <= Len(mined')
  <2>1. CASE UNCHANGED mined
    BY <1>1, <2>1
  <2>2. ASSUME NEW r, mined' = Append(mined, r) PROVE Len(mined) <= Len(mined')
    <3>1. mined \in Seq([ev : Events, ok : BOOLEAN])
      BY DEF TypeOK
    <3> QED BY <2>2, <3>1
  <2> QED BY <2>1, <2>2, MinedStep
<1>3. CASE h \in sent' /\ h \notin sent
  BY <1>3, SentStep DEF NodeAccepts, Pending
<1>4. CASE h \in sent
  BY <1>4 DEF Pending
<1>5. CASE Len(mined') <= h.nonce
  BY <1>1, <1>2, <1>5 DEF Pending
<1> QED BY <1>3, <1>4, <1>5 DEF Pending

\* An entry that stays as it is stays covered.
LEMMA EntryStays ==
    ASSUME FailedInv, TypeOK', [Next]_vars, NEW h \in DOMAIN eventMap,
           h \in DOMAIN eventMap', eventMap'[h] = eventMap[h]
    PROVE  EntryCounts(h)'
<1>1. TypeOK /\ h \in Tx /\ eventMap[h] \in Nat /\ RetryLimit \in Nat
  BY ConstantsAssumption DEF FailedInv, HandInv, TypeOK
<1>2. EntryCounts(h)
  BY DEF FailedInv
<1>3. ASSUME Pending(h)' PROVE eventMap'[h] <= Cardinality(OtherFailures(h)')
  <2>1. eventMap[h] <= Cardinality(OtherFailures(h))
    BY <1>1, <1>2, <1>3, PendingBefore DEF EntryCounts
  <2>2. Cardinality(OtherFailures(h)) <= Cardinality(OtherFailures(h)')
    BY <1>1, FailuresGrow DEF OtherFailures
  <2>3. Cardinality(OtherFailures(h)) \in Nat /\ Cardinality(OtherFailures(h)') \in Nat
    BY <1>1, FailuresGrow DEF OtherFailures
  <2> QED BY <1>1, <2>1, <2>2, <2>3
<1> QED BY <1>2, <1>3 DEF EntryCounts

\* A new entry carries a count that the failures of its deposit cover.
LEMMA EntryNew ==
    ASSUME FailedInv, TypeOK', [Next]_vars, UNCHANGED <<sent, mined>>,
           NEW h \in Tx, h \notin DOMAIN eventMap,
           NEW r \in Nat, r <= RetryLimit, r <= Cardinality(FailuresOf(h.ev)),
           eventMap' = MapPut(h, r)
    PROVE  EntryCounts(h)'
<1>1. eventMap'[h] = r
  BY DEF MapPut
<1>2. h \notin sent'
  BY DEF FailedInv, HandInv, OneHand, InTransit
<1>3. ASSUME Pending(h)' PROVE r <= Cardinality(OtherFailures(h)')
  <2>1. Len(mined) <= h.nonce /\ Len(mined) \in Nat /\ h.nonce \in Nat
    BY <1>2, <1>3 DEF Pending, FailedInv, HandInv, TypeOK, Tx
  <2>2. h.nonce + 1 \notin FailuresOf(h.ev)
    BY <2>1 DEF FailuresOf
  <2>3. OtherFailures(h)' = FailuresOf(h.ev)
    BY <2>2 DEF OtherFailures, FailuresOf
  <2> QED BY <2>3
<1> QED BY <1>1, <1>3 DEF EntryCounts

LEMMA EntriesCounted ==
    ASSUME FailedInv, TypeOK', [Next]_vars
    PROVE  (\A h \in DOMAIN eventMap : EntryCounts(h))'
<1> SUFFICES ASSUME NEW h \in DOMAIN eventMap' PROVE EntryCounts(h)'
  OBVIOUS
<1>0. TypeOK /\ RetryLimit \in Nat
  BY ConstantsAssumption DEF FailedInv, HandInv
<1>1. CASE Exit
  BY <1>1, EmptyMapType DEF Exit
<1>2. CASE UNCHANGED eventMap
  BY <1>2, EntryStays
<1>3. CASE HandleWrite
  <2>1. eventMap' = MapPut(cur, event.retry) /\ UNCHANGED <<sent, mined>>
    BY <1>3 DEF HandleWrite, outVars
  <2>2. cur \in Tx /\ cur \notin DOMAIN eventMap /\ cur.ev = event.ev /\ event # NoEvent
    BY <1>0, <1>3 DEF HandleWrite, TypeOK, FailedInv, OwnEvent, HandInv, OneHand, Unwritten
  <2>3. event.retry \in Nat
    BY <1>0, <2>2 DEF TypeOK
  <2>4. event.retry <= RetryLimit /\ event.retry <= Cardinality(FailuresOf(cur.ev))
    BY <2>2 DEF FailedInv, EventCounts
  <2>5. CASE h = cur
    BY <2>1, <2>2, <2>3, <2>4, <2>5, EntryNew
  <2>6. CASE h # cur
    <3>1. h \in DOMAIN eventMap /\ eventMap'[h] = eventMap[h]
      BY <2>1, <2>6 DEF MapPut
    <3> QED BY <3>1, EntryStays
  <2> QED BY <2>5, <2>6
<1>4. ASSUME NEW w \in Workers, RetryWrite(w) PROVE EntryCounts(h)'
  <2>1. PICK t : t = worker[w].tx
    OBVIOUS
  <2>2. PICK r : r = worker[w].retry
    OBVIOUS
  <2>3. worker[w].pc = "write" /\ t \in Tx /\ r \in Nat
    BY <1>0, <1>4, <2>1, <2>2 DEF RetryWrite, TypeOK, Idle
  <2>4. t \notin DOMAIN eventMap /\ t.ev = worker[w].ev
    BY <2>1, <2>3 DEF FailedInv, HandInv, OneHand, Making, Unwritten, OwnEvent
  <2>5. eventMap' = MapPut(t, r) /\ UNCHANGED <<sent, mined>>
    BY <1>4, <2>1, <2>2 DEF RetryWrite, outVars
  <2>6. r <= RetryLimit /\ r <= Cardinality(FailuresOf(t.ev))
    BY <2>2, <2>3, <2>4 DEF FailedInv, WorkerCounts
  <2>7. CASE h = t
    BY <2>3, <2>4, <2>5, <2>6, <2>7, EntryNew
  <2>8. CASE h # t
    <3>1. h \in DOMAIN eventMap /\ eventMap'[h] = eventMap[h]
      BY <2>5, <2>8 DEF MapPut
    <3> QED BY <3>1, EntryStays
  <2> QED BY <2>7, <2>8
<1>5. ASSUME NEW w \in Workers, NEW t \in sent, NEW step, NEW r, TakeEvent(w, t, step, r)
      PROVE  EntryCounts(h)'
  <2>1. h \in DOMAIN eventMap /\ eventMap'[h] = eventMap[h]
    BY <1>5 DEF TakeEvent, MapDelete
  <2> QED BY <2>1, EntryStays
<1> QED BY <1>1, <1>2, <1>3, <1>4, <1>5, EventMapStep

\* A handler of a failed mint counts it.
LEMMA FailureCounted ==
    ASSUME FailedInv, NEW t \in sent, MinedAs(t, FALSE), t \in DOMAIN eventMap
    PROVE  /\ eventMap[t] \in Nat /\ eventMap[t] <= RetryLimit
           /\ eventMap[t] + 1 <= Cardinality(FailuresOf(t.ev))
<1>1. TypeOK /\ t \in Tx /\ eventMap[t] \in Nat
  BY DEF FailedInv, HandInv, TypeOK
<1>2. eventMap[t] <= RetryLimit /\ eventMap[t] <= Cardinality(OtherFailures(t))
  BY DEF FailedInv, EntryCounts, Pending
<1>3. t.nonce + 1 \in FailuresOf(t.ev)
  BY <1>1 DEF MinedAs, FailuresOf, TypeOK, Tx
<1>4. Cardinality(OtherFailures(t)) = Cardinality(FailuresOf(t.ev)) - 1
  BY <1>1, <1>3, FailuresFinite, FS_RemoveElement DEF OtherFailures
<1> QED BY <1>1, <1>2, <1>4, FailuresFinite

\* What a worker is left with by one of its steps is covered.
LEMMA WorkerCounted ==
    ASSUME FailedInv, "poll" \notin Faults, NEW w \in Workers, WorkerStep(w)
    PROVE  /\ worker'[w].retry <= RetryLimit
           /\ worker'[w].pc = "failed" => Cardinality(FailuresOf(worker'[w].ev)) > RetryLimit
           /\ worker'[w].pc \in {"retry", "build", "write"}
                => worker'[w].retry <= Cardinality(FailuresOf(worker'[w].ev))
<1>0. TypeOK /\ RetryLimit \in Nat /\ WorkerCounts(w)
  BY ConstantsAssumption DEF FailedInv, HandInv
<1>1. CASE Submit(w) \/ SubmitErr(w)
  BY <1>0, <1>1 DEF Submit, SubmitErr, WorkerCounts
<1>2. CASE Release(w)
  <2>1. worker'[w] = Idle
    BY <1>0, <1>2 DEF Release, TypeOK
  <2> QED BY <1>0, <2>1 DEF Idle
<1>3. CASE RetryNonce(w) \/ RetryBuild(w) \/ RetryWrite(w)
  <2>1. /\ worker[w].pc \in {"retry", "build", "write"}
        /\ worker'[w].pc \in {"build", "write", "enqueue"}
        /\ worker'[w].retry = worker[w].retry /\ worker'[w].ev = worker[w].ev
    <3>1. CASE RetryNonce(w)
      BY <1>0, <3>1 DEF RetryNonce, TypeOK, Idle
    <3>2. CASE RetryBuild(w)
      BY <1>0, <3>2 DEF RetryBuild, TypeOK, Idle
    <3>3. CASE RetryWrite(w)
      BY <1>0, <3>3 DEF RetryWrite, TypeOK, Idle
    <3> QED BY <1>3, <3>1, <3>2, <3>3
  <2> QED BY <1>0, <2>1 DEF WorkerCounts
<1>4. ASSUME NEW t \in sent, NEW step, NEW r \in Nat, TakeEvent(w, t, step, r)
      PROVE  \/ worker'[w] = Handler(step, t.ev, r, NoTx) /\ t \in DOMAIN eventMap
             \/ worker'[w] = Idle
  BY <1>0, <1>4 DEF TakeEvent, TypeOK
<1>5. CASE ConfirmedHandler(w)
  <2>1. PICK t \in sent : TakeEvent(w, t, "succeeded", RetryOf(t))
    BY <1>5 DEF ConfirmedHandler
  <2>2. RetryOf(t) \in Nat /\ RetryOf(t) <= RetryLimit
    BY <1>0, RetryOfType DEF RetryOf, FailedInv, EntryCounts
  <2>3. CASE worker'[w] = Handler("succeeded", t.ev, RetryOf(t), NoTx)
    BY <2>2, <2>3 DEF Handler
  <2>4. CASE worker'[w] = Idle
    BY <1>0, <2>4 DEF Idle
  <2> QED BY <1>4, <2>1, <2>2, <2>3, <2>4
<1>6. CASE TxFailed(w)
  <2>1. PICK t \in sent :
          /\ MinedAs(t, FALSE)
          /\ IF RetryOf(t) >= RetryLimit
               THEN TakeEvent(w, t, "failed", RetryOf(t))
               ELSE TakeEvent(w, t, "retry", RetryOf(t) + 1)
    BY <1>6 DEF TxFailed
  <2>2. RetryOf(t) \in Nat /\ RetryOf(t) + 1 \in Nat
    BY <1>0, RetryOfType
  <2>3. t \in DOMAIN eventMap =>
          RetryOf(t) <= RetryLimit /\ RetryOf(t) + 1 <= Cardinality(FailuresOf(t.ev))
    BY <2>1, FailureCounted DEF RetryOf
  <2>4. CASE worker'[w] = Idle
    BY <1>0, <2>4 DEF Idle
  <2>5. CASE RetryOf(t) >= RetryLimit /\ worker'[w] # Idle
    <3>1. worker'[w] = Handler("failed", t.ev, RetryOf(t), NoTx) /\ t \in DOMAIN eventMap
      BY <1>4, <2>1, <2>2, <2>5
    <3>2. Cardinality(FailuresOf(t.ev)) > RetryLimit
      BY <1>0, <2>2, <2>3, <2>5, <3>1, FailuresFinite
    <3> QED BY <2>3, <3>1, <3>2 DEF Handler
  <2>6. CASE ~(RetryOf(t) >= RetryLimit) /\ worker'[w] # Idle
    <3>1. worker'[w] = Handler("retry", t.ev, RetryOf(t) + 1, NoTx) /\ t \in DOMAIN eventMap
      BY <1>4, <2>1, <2>2, <2>6
    <3>2. RetryOf(t) + 1 <= RetryLimit
      BY <1>0, <2>2, <2>6
    <3> QED BY <2>3, <3>1, <3>2 DEF Handler
  <2> QED BY <2>4, <2>5, <2>6
<1> QED BY <1>1, <1>2, <1>3, <1>5, <1>6
        DEF WorkerStep, PollErr, PutSucceeded, PutFailed, StoreEvent, PutErr, RetryErr,
            RetryEnqueue, RetryEnqueueErr

\* The other workers are left alone.
LEMMA OthersStay ==
    ASSUME TypeOK, NEW w \in Workers, WorkerStep(w), NEW v \in Workers, v # w
    PROVE  worker'[v] = worker[v]
BY DEF TypeOK, WorkerStep, Submit, SubmitErr, ConfirmedHandler, TxFailed, PollErr,
     TakeEvent, PutSucceeded, PutFailed, StoreEvent, PutErr, Release, RetryNonce,
     RetryBuild, RetryWrite, RetryErr, RetryEnqueue, RetryEnqueueErr

LEMMA RetryType ==
    TypeOK => \A w \in Workers : worker[w].retry \in Nat
<1> SUFFICES ASSUME TypeOK, NEW w \in Workers PROVE worker[w].retry \in Nat
  OBVIOUS
<1>1. worker[w] \in {Idle} \cup
        [pc : HandlerSteps, ev : Events, retry : Nat, tx : Tx \cup {NoTx}]
  BY DEF TypeOK
<1>2. Idle.retry = 0
  BY DEF Idle
<1> QED BY <1>1, <1>2

\* What handleLogs reads of a deposit is covered, and stays so until it is written.
LEMMA EventCounted ==
    ASSUME FailedInv, TypeOK', [Next]_vars
    PROVE  EventCounts'
<1>0. TypeOK /\ RetryLimit \in Nat
  BY ConstantsAssumption DEF FailedInv, HandInv
<1>1. CASE event' = NoEvent
  BY <1>1 DEF EventCounts
<1>2. CASE UNCHANGED event /\ event # NoEvent
  <2>1. PICK e : e = event.ev
    OBVIOUS
  <2>2. event.retry \in Nat
    BY <1>0, <1>2 DEF TypeOK
  <2>3. event.retry <= RetryLimit /\ event.retry <= Cardinality(FailuresOf(e))
    BY <1>2, <2>1 DEF FailedInv, EventCounts
  <2>4. /\ Cardinality(FailuresOf(e)) \in Nat /\ Cardinality(FailuresOf(e)') \in Nat
        /\ Cardinality(FailuresOf(e)) <= Cardinality(FailuresOf(e)')
    BY <1>0, FailuresGrow, FailuresFinite
  <2>5. Cardinality(FailuresOf(event.ev))' = Cardinality(FailuresOf(e)')
    BY <1>2, <2>1 DEF FailuresOf
  <2> QED BY <1>2, <2>2, <2>3, <2>4, <2>5 DEF EventCounts
<1>3. ASSUME NEW f \in Events, HandleGet(f) PROVE EventCounts'
  <2>1. event'.ev = f /\ event'.retry = db[f].retry /\ UNCHANGED mined
    BY <1>3 DEF HandleGet, outVars
  <2>2. db[f].status = "none" \/ db[f].status = "FAILED"
    BY <1>0, <1>3 DEF HandleGet, TypeOK, StoredEvent, Statuses
  <2>3. db[f].retry \in Nat /\ db[f].retry <= RetryLimit
    BY <1>0 DEF TypeOK, StoredEvent, FailedInv, RecordCounts
  <2>4. db[f].retry <= Cardinality(FailuresOf(f))
    BY <1>0, <2>2, <2>3, FailuresFinite DEF FailedInv, RecordCounts
  <2>5. Cardinality(FailuresOf(event.ev))' = Cardinality(FailuresOf(f))
    BY <2>1 DEF FailuresOf
  <2> QED BY <2>1, <2>3, <2>4, <2>5 DEF EventCounts
<1> QED BY <1>1, <1>2, <1>3, EventStep

LEMMA NextFailedInv == "poll" \notin Faults /\ FailedInv /\ [Next]_vars => FailedInv'
<1> SUFFICES ASSUME "poll" \notin Faults, FailedInv, [Next]_vars PROVE FailedInv'
  OBVIOUS
<1>0. TypeOK /\ TypeOK' /\ HandInv' /\ RetryLimit \in Nat
  BY NextHandInv, ConstantsAssumption DEF FailedInv, HandInv
<1>1. \A e : Cardinality(FailuresOf(e)) > RetryLimit => Cardinality(FailuresOf(e)') > RetryLimit
  BY <1>0, FailuresGrow, FailuresFinite
<1>2. ASSUME NEW e \in Events PROVE RecordCounts(e)'
  <2>1. RecordCounts(e)
    BY DEF FailedInv
  <2>2. CASE db'[e] = db[e]
    BY <1>1, <2>1, <2>2 DEF RecordCounts, FailuresOf
  <2>3. ASSUME NEW w \in Workers, PutSucceeded(w), db'[e] # db[e] PROVE RecordCounts(e)'
    <3>1. db'[e] = [status |-> "SUCCEEDED", retry |-> worker[w].retry]
      BY <1>0, <2>3 DEF PutSucceeded, StoreEvent, TypeOK
    <3>2. worker[w].retry <= RetryLimit
      BY DEF FailedInv, WorkerCounts
    <3> QED BY <3>1, <3>2 DEF RecordCounts
  <2>4. ASSUME NEW w \in Workers, PutFailed(w), db'[e] # db[e] PROVE RecordCounts(e)'
    <3>1. /\ db'[e] = [status |-> "FAILED", retry |-> worker[w].retry]
          /\ worker[w].ev = e /\ worker[w].pc = "failed"
      BY <1>0, <2>4 DEF PutFailed, StoreEvent, TypeOK
    <3>2. worker[w].retry <= RetryLimit /\ Cardinality(FailuresOf(e)) > RetryLimit
      BY <3>1 DEF FailedInv, WorkerCounts
    <3> QED BY <1>1, <3>1, <3>2 DEF RecordCounts, FailuresOf
  <2> QED BY <2>2, <2>3, <2>4, DbStep
<1>3. ASSUME NEW v \in Workers PROVE WorkerCounts(v)'
  <2>1. CASE worker'[v] = worker[v]
    <3>1. PICK e : e = worker[v].ev
      OBVIOUS
    <3>2. WorkerCounts(v) /\ worker[v].retry \in Nat
      BY <1>0, RetryType DEF FailedInv
    <3>3. /\ Cardinality(FailuresOf(e)) \in Nat /\ Cardinality(FailuresOf(e)') \in Nat
          /\ Cardinality(FailuresOf(e)) <= Cardinality(FailuresOf(e)')
      BY <1>0, FailuresGrow, FailuresFinite
    <3>4. Cardinality(FailuresOf(worker[v].ev))' = Cardinality(FailuresOf(e)')
      BY <2>1, <3>1 DEF FailuresOf
    <3> QED BY <1>0, <2>1, <3>1, <3>2, <3>3, <3>4 DEF WorkerCounts
  <2>2. CASE Exit
    BY <1>0, <2>2 DEF Exit, Idle, WorkerCounts
  <2>3. ASSUME WorkerStep(v) PROVE WorkerCounts(v)'
    <3>1. PICK e : e = worker'[v].ev
      OBVIOUS
    <3>2. /\ worker'[v].retry <= RetryLimit
          /\ worker'[v].pc = "failed" => Cardinality(FailuresOf(e)) > RetryLimit
          /\ worker'[v].pc \in {"retry", "build", "write"}
               => worker'[v].retry <= Cardinality(FailuresOf(e))
      BY <2>3, <3>1, WorkerCounted
    <3>3. /\ Cardinality(FailuresOf(e)) \in Nat /\ Cardinality(FailuresOf(e)') \in Nat
          /\ Cardinality(FailuresOf(e)) <= Cardinality(FailuresOf(e)')
          /\ worker'[v].retry \in Nat
      <4>1. worker'[v].retry \in Nat
        <5>1. (\A w \in Workers : worker[w].retry \in Nat)'
          BY <1>0, RetryType, PTL
        <5> QED BY <5>1
      <4> QED BY <1>0, <4>1, FailuresGrow, FailuresFinite
    <3>4. Cardinality(FailuresOf(worker[v].ev))' = Cardinality(FailuresOf(e)')
      BY <3>1 DEF FailuresOf
    <3> QED BY <1>0, <3>2, <3>3, <3>4 DEF WorkerCounts
  <2> QED BY <1>0, <2>1, <2>2, <2>3, WorkerChange, OthersStay
<1>4. OwnEvent'
  BY <1>0, OwnEventStep DEF FailedInv
<1> QED BY <1>0, <1>2, <1>3, <1>4, EventCounted, EntriesCounted DEF FailedInv

LEMMA InitFailedInv == Init => FailedInv
<1> SUFFICES ASSUME Init PROVE FailedInv
  OBVIOUS
<1>1. HandInv
  BY InitHandInv
<1>2. \A e \in Events : RecordCounts(e)
  BY ConstantsAssumption DEF Init, RecordCounts
<1>3. \A w \in Workers : WorkerCounts(w)
  BY ConstantsAssumption DEF Init, WorkerCounts, Idle
<1>4. DOMAIN eventMap = {}
  BY EmptyMapType DEF Init
<1>5. OwnEvent /\ EventCounts
  BY DEF Init, OwnEvent, EventCounts, Making, Idle
<1> QED BY <1>1, <1>2, <1>3, <1>4, <1>5 DEF FailedInv

(* Whatever goes wrong besides the reading of receipts, a deposit is        *)
(* recorded as FAILED only after the first mint and RetryLimit retries of   *)
(* it were mined with status 0, across restarts and overlapping fetches.    *)
THEOREM FailedOnlyAfterRetries == "poll" \notin Faults => (Spec => []FailedAfterRetries)
<1> SUFFICES ASSUME "poll" \notin Faults PROVE Spec => []FailedAfterRetries
  OBVIOUS
<1>1. Init => FailedInv
  BY InitFailedInv
<1>2. FailedInv /\ [Next]_vars => FailedInv'
  BY NextFailedInv
<1>3. FailedInv => FailedAfterRetries
  BY DEF FailedInv, RecordCounts, FailedAfterRetries
<1> QED BY <1>1, <1>2, <1>3, PTL DEF Spec

-----------------------------------------------------------------------------
(* Nonces.  A nonce that the wallet gave out is carried by a transaction     *)
(* from hand to hand, and every hand that drops one leaves an entry in a map.*)

\* No nonce is spent on a mint that is not sent: every estimate succeeds.
EstimatesSucceed == "estimate" \notin Faults /\ \A e \in Events : KindOf[e] = SlotERC20

Carriers == (OnItsWay \cup DOMAIN eventMap) \ {NoTx}
Tidy ==
    /\ \A t \in sent : t \in pool \/ t.nonce < Len(mined)
    /\ \A w \in Workers : worker[w].pc \notin {"build", "write", "enqueue"} => worker[w].tx = NoTx
    /\ pc \notin {"build", "enqueue"} => cur = NoTx
    /\ pc = "down" => nonce = 0
GapInv == HandInv /\ Tidy /\ NoNonceGap

LEMMA MinedLength == TypeOK => Len(mined) \in Nat
<1> SUFFICES ASSUME TypeOK PROVE Len(mined) \in Nat
  OBVIOUS
<1>1. mined \in Seq([ev : Events, ok : BOOLEAN])
  BY DEF TypeOK
<1> QED BY <1>1

\* What MineOut mines leaves the pool, and the head of the nonces moves past it.
LEMMA MineOutStep ==
    ASSUME TypeOK, MineOut
    PROVE  /\ Len(mined') = Len(mined) + 1
           /\ \A t \in pool : t \in pool' \/ t.nonce = Len(mined)
<1>1. PICK u \in pool, ok \in BOOLEAN :
        /\ u.nonce = Len(mined)
        /\ mined' = Append(mined, [ev |-> u.ev, ok |-> ok])
        /\ pool' = {t \in pool : t.nonce # u.nonce}
  BY DEF MineOut
<1>2. mined \in Seq([ev : Events, ok : BOOLEAN])
  BY DEF TypeOK
<1> QED BY <1>1, <1>2

\* Only the out chain mines.
LEMMA MainMinesNothing ==
    ASSUME MainStep \/ CloseStep \/ Signal \/ Crash PROVE UNCHANGED mined
BY DEF Crash, Exit, Fatal, Signal, MainStep, TickBusy, TickFetch, Fetch, FetchLatestErr,
     FetchFilterErr, FetchDone, HandleLog, HandleSkip, HandleNoPair, HandlePanic,
     HandleGet, HandleNonce, HandleWrite, HandleGetErr, HandleMintErr, HandleLogsErr,
     Enqueue, EnqueueErr, CloseStep, CloseWait, CloseCommitERC20, CloseCommitNFT,
     CloseExit, outVars

\* The steps of the main goroutine and of Close, for what concerns a transaction.
MainFrame ==
    \/ UNCHANGED <<pool, sent, queue, worker, eventMap, cur, nonce>>
       /\ (pc' \in {"build", "enqueue"} <=> pc \in {"build", "enqueue"})
       /\ pc # "down" /\ pc' # "down"
    \/ Enqueue
    \/ /\ UNCHANGED <<pool, sent, queue, worker, eventMap, nonce>>
       /\ cur' = NoTx /\ pc # "build" /\ pc' = "idle"
    \/ HandleNonce
    \/ HandleWrite
    \/ Exit /\ UNCHANGED pool

LEMMA MainStepFrame ==
    ASSUME EstimatesSucceed, TypeOK, MainStep \/ CloseStep \/ Signal \/ Crash
    PROVE  MainFrame
<1>1. ~HandleMintErr
  <2>1. pc = "build" => cur.ev \in Events
    BY DEF TypeOK, Tx
  <2> QED BY <2>1 DEF EstimatesSucceed, HandleMintErr, CanMint, SlotERC20, SlotNFT
<1> USE DEF inVars, outVars, storeVars, mainVars, sharedVars, MainFrame
<1>2. CASE Signal \/ Crash \/ CloseStep
  BY <1>2 DEF Signal, Crash, CloseStep, CloseWait, CloseCommitERC20, CloseCommitNFT,
              CloseExit, Fatal, Exit
<1>3. CASE TickBusy \/ TickFetch \/ Fetch \/ FetchFilterErr \/ FetchDone
  BY <1>3 DEF TickBusy, TickFetch, Fetch, FetchFilterErr, FetchDone
<1>4. CASE FetchLatestErr \/ EnqueueErr
  BY <1>4 DEF FetchLatestErr, EnqueueErr, HandleLogsErr, Fatal, Exit
<1>5. ASSUME NEW e \in Events, HandleLog(e) PROVE MainFrame
  <2>1. CASE HandleSkip(e) \/ HandleNoPair(e)
    BY <2>1 DEF HandleSkip, HandleNoPair
  <2>2. CASE HandlePanic(e) \/ HandleGetErr(e)
    BY <2>2 DEF HandlePanic, HandleGetErr, HandleLogsErr, Fatal, Exit
  <2>3. CASE HandleGet(e)
    BY <2>3 DEF HandleGet
  <2> QED BY <1>5, <2>1, <2>2, <2>3 DEF HandleLog
<1> QED BY <1>1, <1>2, <1>3, <1>4, <1>5 DEF MainStep

\* A new transaction carries the nonce the wallet gave out for it.
LEMMA NewCarrier ==
    ASSUME NEW e \in Events, NEW t, t = [nonce |-> nonce, ev |-> e], t \in OnItsWay'
    PROVE  t \in Carriers' /\ t.nonce = nonce
<1>1. t # NoTx
  BY ConstantsAssumption DEF NoTx
<1> QED BY <1>1 DEF Carriers

\* No step drops a transaction that may still be mined.
LEMMA MainCarries ==
    ASSUME GapInv, MainFrame, ~Exit
    PROVE  /\ UNCHANGED mined => Tidy'
           /\ Carriers \subseteq Carriers'
           /\ nonce' = nonce \/ (nonce' = nonce + 1 /\ \E t \in Carriers' : t.nonce = nonce)
<1>0. TypeOK /\ HandInv /\ Tidy
  BY DEF GapInv, HandInv
<1>1. CASE /\ UNCHANGED <<pool, sent, queue, worker, eventMap, cur, nonce>>
           /\ (pc' \in {"build", "enqueue"} <=> pc \in {"build", "enqueue"})
           /\ pc # "down" /\ pc' # "down"
  BY <1>0, <1>1 DEF Tidy, Carriers, OnItsWay
<1>2. CASE Enqueue
  <2>1. /\ queue' = queue \cup {cur} /\ cur' = NoTx /\ pc' = "logs"
        /\ UNCHANGED <<pool, sent, worker, eventMap, nonce>>
    BY <1>2 DEF Enqueue, outVars
  <2> QED BY <1>0, <2>1 DEF Tidy, Carriers, OnItsWay
<1>3. CASE /\ UNCHANGED <<pool, sent, queue, worker, eventMap, nonce>>
           /\ cur' = NoTx /\ pc # "build" /\ pc' = "idle"
  <2>1. cur = NoTx \/ cur \in DOMAIN eventMap
    BY <1>0, <1>3 DEF HandInv, OneHand, Written, Tidy
  <2> QED BY <1>0, <1>3, <2>1 DEF Tidy, Carriers, OnItsWay
<1>4. CASE HandleNonce
  <2>1. /\ cur' = [nonce |-> nonce, ev |-> event.ev] /\ nonce' = nonce + 1
        /\ pc = "mint" /\ pc' = "build"
        /\ UNCHANGED <<pool, sent, queue, worker, eventMap>>
    BY <1>4 DEF HandleNonce, outVars
  <2>2. event.ev \in Events
    BY <1>0, <2>1 DEF TypeOK
  <2>3. cur = NoTx
    BY <1>0, <2>1 DEF Tidy
  <2>4. UNCHANGED mined => Tidy'
    BY <1>0, <2>1 DEF Tidy
  <2>5. Carriers \subseteq Carriers'
    BY <2>1, <2>3 DEF Carriers, OnItsWay
  <2>6. cur' \in Carriers' /\ cur'.nonce = nonce
    <3>1. PICK t : t = cur'
      OBVIOUS
    <3>2. t = [nonce |-> nonce, ev |-> event.ev] /\ t \in OnItsWay'
      BY <2>1, <3>1 DEF OnItsWay
    <3>3. t \in Carriers' /\ t.nonce = nonce
      BY <2>2, <3>2, NewCarrier
    <3> QED BY <3>1, <3>3
  <2> QED BY <2>1, <2>4, <2>5, <2>6
<1>5. CASE HandleWrite
  <2>1. /\ DOMAIN eventMap \subseteq DOMAIN eventMap' /\ pc = "build" /\ pc' = "enqueue"
        /\ UNCHANGED <<pool, sent, queue, worker, cur, nonce>>
    BY <1>5 DEF HandleWrite, MapPut, outVars
  <2> QED BY <1>0, <2>1 DEF Tidy, Carriers, OnItsWay
<1> QED BY <1>1, <1>2, <1>3, <1>4, <1>5 DEF MainFrame

LEMMA ReleaseCarries ==
    ASSUME TypeOK, Tidy, NEW w \in Workers, Release(w),
           UNCHANGED <<mined, pool, sent, eventMap, cur, nonce, pc>>,
           queue' = queue \cup {worker[w].tx} \/ UNCHANGED queue,
           worker[w].tx \in {NoTx} \cup DOMAIN eventMap
    PROVE  Tidy' /\ Carriers \subseteq Carriers'
<1>1. \A v \in Workers : worker'[v] = IF v = w THEN Idle ELSE worker[v]
  BY DEF TypeOK, Release
<1>2. Idle.tx = NoTx /\ Idle.pc = "idle"
  BY DEF Idle
<1> QED BY <1>1, <1>2 DEF Tidy, Carriers, OnItsWay

LEMMA TakeEventCarries ==
    ASSUME TypeOK, Tidy, NEW w \in Workers, worker[w] = Idle, NEW t \in sent,
           NEW step \in {"succeeded", "failed", "retry"}, NEW r, TakeEvent(w, t, step, r)
    PROVE  /\ Tidy' /\ UNCHANGED <<mined, nonce>>
           /\ \A u \in Carriers : u \in Carriers' \/ u.nonce < Len(mined)
<1>1. /\ DOMAIN eventMap' = DOMAIN eventMap \ {t} /\ sent' = sent \ {t}
      /\ UNCHANGED <<mined, pool, queue, cur, nonce, pc>>
  BY MapDeleteType DEF TakeEvent, outVars, mainVars
<1>2. \A v \in Workers : v # w => worker'[v] = worker[v]
  BY DEF TypeOK, TakeEvent
<1>3. worker'[w].tx = NoTx /\ worker'[w].pc \notin {"build", "write", "enqueue"}
  BY DEF TypeOK, TakeEvent, Handler, Idle
<1>4. worker[w].tx = NoTx
  BY DEF Idle
<1>5. t \in pool \/ t.nonce < Len(mined)
  BY DEF Tidy
<1>6. Tidy'
  BY <1>1, <1>2, <1>3 DEF Tidy
<1>7. \A v \in Workers : worker'[v].tx = worker[v].tx
  BY <1>2, <1>3, <1>4
<1>8. \A u \in Carriers : u \in Carriers' \/ (u = t /\ t \notin pool)
  <2>1. {worker'[v].tx : v \in Workers} = {worker[v].tx : v \in Workers}
    BY <1>7
  <2>2. OnItsWay' = OnItsWay
    BY <1>1, <2>1 DEF OnItsWay
  <2>3. pool \subseteq OnItsWay
    BY DEF OnItsWay
  <2> QED BY <1>1, <2>2, <2>3 DEF Carriers
<1> QED BY <1>1, <1>5, <1>6, <1>8

LEMMA WorkerCarries ==
    ASSUME EstimatesSucceed, GapInv, NEW w \in Workers, WorkerStep(w)
    PROVE  /\ Tidy' /\ UNCHANGED mined
           /\ \A u \in Carriers : u \in Carriers' \/ u.nonce < Len(mined)
           /\ \/ nonce' = nonce
              \/ nonce' = nonce + 1 /\ \E t \in Carriers' : t.nonce = nonce
<1>0. TypeOK /\ HandInv /\ Tidy
  BY DEF GapInv, HandInv
<1>1. CASE Submit(w)
  <2>1. PICK t \in queue : queue' = queue \ {t} /\ pool' = pool \cup {t} /\ sent' = sent \cup {t}
    BY <1>1 DEF Submit
  <2>2. UNCHANGED <<mined, eventMap, cur, nonce, worker, pc>>
    BY <1>1 DEF Submit, mainVars
  <2> QED BY <1>0, <2>1, <2>2 DEF Tidy, Carriers, OnItsWay
<1>2. CASE SubmitErr(w)
  <2>1. PICK t \in queue : queue' = queue \ {t} /\ pool \subseteq pool'
    BY <1>2 DEF SubmitErr
  <2>2. UNCHANGED <<mined, eventMap, cur, nonce, worker, pc, sent>>
    BY <1>2 DEF SubmitErr, mainVars
  <2>3. t \in DOMAIN eventMap
    BY <1>0 DEF HandInv, OneHand, InTransit
  <2> QED BY <1>0, <2>1, <2>2, <2>3 DEF Tidy, Carriers, OnItsWay
<1>3. CASE ConfirmedHandler(w) \/ TxFailed(w) \/ PollErr(w)
  <2>1. worker[w] = Idle
    BY <1>3 DEF ConfirmedHandler, TxFailed, PollErr
  <2>2. PICK t \in sent, step \in {"succeeded", "failed", "retry"} :
          \E r : TakeEvent(w, t, step, r)
    BY <1>3 DEF ConfirmedHandler, TxFailed, PollErr
  <2> QED BY <1>0, <2>1, <2>2, TakeEventCarries
<1>4. CASE PutSucceeded(w) \/ PutFailed(w) \/ PutErr(w) \/ RetryErr(w)
  <2>1. worker[w].pc \in {"succeeded", "failed", "retry"} /\ Release(w)
    <3>1. CASE RetryErr(w)
      <4>1. worker[w].pc = "build" => worker[w].ev \in Events
        BY <1>0 DEF TypeOK, Idle
      <4>2. worker[w].pc = "build" => CanMint(worker[w].ev)
        BY <4>1 DEF EstimatesSucceed, CanMint, SlotERC20, SlotNFT
      <4> QED BY <3>1, <4>2 DEF RetryErr, EstimatesSucceed
    <3> QED BY <1>4, <3>1 DEF PutSucceeded, PutFailed, StoreEvent, PutErr
  <2>2. UNCHANGED <<mined, pool, sent, eventMap, cur, queue, nonce, pc>>
    BY <1>4 DEF PutSucceeded, PutFailed, StoreEvent, PutErr, RetryErr, outVars, mainVars
  <2>3. worker[w].tx = NoTx
    BY <1>0, <2>1 DEF Tidy
  <2>4. Tidy' /\ Carriers \subseteq Carriers'
    BY <1>0, <2>2, <2>1, <2>3, ReleaseCarries
  <2> QED BY <2>2, <2>4
<1>5. CASE RetryEnqueue(w) \/ RetryEnqueueErr(w)
  <2>1. /\ worker[w].pc = "enqueue" /\ Release(w)
        /\ queue' = queue \cup {worker[w].tx} \/ UNCHANGED queue
        /\ UNCHANGED <<mined, pool, sent, eventMap, cur, nonce, pc>>
    BY <1>5 DEF RetryEnqueue, RetryEnqueueErr, outVars, mainVars
  <2>2. worker[w].tx \in DOMAIN eventMap
    BY <1>0, <2>1 DEF HandInv, OneHand, Enqueues, Written
  <2>3. Tidy' /\ Carriers \subseteq Carriers'
    BY <1>0, <2>1, <2>2, ReleaseCarries
  <2> QED BY <2>1, <2>3
<1>6. CASE RetryNonce(w)
  <2>1. worker[w].pc = "retry" /\ worker[w].ev \in Events
    BY <1>0, <1>6 DEF RetryNonce, TypeOK, Idle
  <2>2. PICK t : t = [nonce |-> nonce, ev |-> worker[w].ev]
    OBVIOUS
  <2>3. nonce' = nonce + 1 /\ UNCHANGED <<mined, pool, sent, queue, eventMap, cur, pc>>
    BY <1>6 DEF RetryNonce, outVars, mainVars
  <2>4. /\ \A v \in Workers : v # w => worker'[v] = worker[v]
        /\ worker'[w].pc = "build" /\ worker'[w].tx = t
    BY <1>0, <1>6, <2>2 DEF RetryNonce, TypeOK, Idle
  <2>5. worker[w].tx = NoTx /\ pc # "down"
    BY <1>0, <2>1 DEF Tidy, HandInv, NoProcess, Idle
  <2>6. t \in Carriers' /\ t.nonce = nonce
    <3>1. t \in OnItsWay'
      BY <2>4 DEF OnItsWay
    <3> QED BY <2>1, <2>2, <3>1, NewCarrier
  <2>7. Tidy'
    BY <1>0, <2>3, <2>4, <2>5 DEF Tidy
  <2>8. Carriers \subseteq Carriers'
    BY <2>3, <2>4, <2>5 DEF Carriers, OnItsWay
  <2> QED BY <2>3, <2>6, <2>7, <2>8
<1>7. CASE RetryBuild(w) \/ RetryWrite(w)
  <2>1. UNCHANGED <<mined, pool, sent, queue, nonce, cur, pc>>
    BY <1>7 DEF RetryBuild, RetryWrite, outVars, mainVars
  <2>2. DOMAIN eventMap \subseteq DOMAIN eventMap'
    BY <1>7 DEF RetryBuild, RetryWrite, MapPut
  <2>3. /\ \A v \in Workers : v # w => worker'[v] = worker[v]
        /\ worker'[w].pc \in {"write", "enqueue"} /\ worker'[w].tx = worker[w].tx
    <3>1. CASE RetryBuild(w)
      BY <1>0, <3>1 DEF RetryBuild, TypeOK, Idle
    <3>2. CASE RetryWrite(w)
      BY <1>0, <3>2 DEF RetryWrite, TypeOK, Idle
    <3> QED BY <1>7, <3>1, <3>2
  <2>4. Tidy'
    BY <1>0, <2>1, <2>3 DEF Tidy
  <2>5. \A v \in Workers : worker'[v].tx = worker[v].tx
    BY <2>3
  <2>6. Carriers \subseteq Carriers'
    BY <2>1, <2>2, <2>5 DEF Carriers, OnItsWay
  <2> QED BY <2>1, <2>4, <2>6
<1> QED BY <1>1, <1>2, <1>3, <1>4, <1>5, <1>6, <1>7 DEF WorkerStep

\* A step that drops no carrier of an open nonce, and gives out at most one nonce
\* with its carrier, leaves no gap.
LEMMA NoGapStep ==
    ASSUME TypeOK, TypeOK', NoNonceGap, Len(mined) <= Len(mined'),
           \A u \in Carriers : u \in Carriers' \/ u.nonce < Len(mined'),
           \/ nonce' = nonce
           \/ nonce' = nonce + 1 /\ \E t \in Carriers' : t.nonce = nonce
    PROVE  NoNonceGap'
<1>1. Len(mined) \in Nat /\ nonce \in Nat
  BY MinedLength DEF TypeOK
<1>2. Len(mined') \in Nat /\ nonce' \in Nat
  <2>1. mined' \in Seq([ev : Events, ok : BOOLEAN]) /\ nonce' \in Nat
    BY DEF TypeOK
  <2> QED BY <2>1
<1>3. ASSUME NEW n, n \in Len(mined')..(nonce' - 1) PROVE \E t \in Carriers' : t.nonce = n
  <2>1. n \in Nat /\ Len(mined') <= n /\ n < nonce'
    <3>1. PICK first, next : first = Len(mined') /\ next = nonce'
      OBVIOUS
    <3>2. first \in Nat /\ next \in Nat /\ n \in first..(next - 1)
      BY <1>2, <1>3, <3>1
    <3>3. n \in Nat /\ first <= n /\ n < next
      BY <3>2
    <3> QED BY <3>1, <3>3
  <2>2. CASE n < nonce
    <3>1. n \in Len(mined)..(nonce - 1)
      BY <1>1, <1>2, <2>1, <2>2
    <3>2. PICK t \in Carriers : t.nonce = n
      BY <3>1 DEF NoNonceGap, Carriers
    <3>3. ~(t.nonce < Len(mined'))
      BY <1>2, <2>1, <3>2
    <3> QED BY <3>2, <3>3
  <2>3. CASE ~(n < nonce)
    <3>1. nonce' # nonce
      BY <1>1, <1>2, <2>1, <2>3
    <3>2. nonce' = nonce + 1 /\ \E t \in Carriers' : t.nonce = nonce
      BY <3>1
    <3>3. n = nonce
      BY <1>1, <2>1, <2>3, <3>2
    <3> QED BY <3>2, <3>3
  <2> QED BY <2>2, <2>3
<1> QED BY <1>3 DEF NoNonceGap, Carriers

LEMMA NextGapInv == EstimatesSucceed /\ GapInv /\ [Next]_vars => GapInv'
<1> SUFFICES ASSUME EstimatesSucceed, GapInv, [Next]_vars PROVE Tidy' /\ NoNonceGap'
  BY NextHandInv DEF GapInv
<1>0. TypeOK /\ TypeOK' /\ HandInv /\ Tidy /\ NoNonceGap
  BY NextHandInv DEF GapInv, HandInv
<1>00. Len(mined) \in Nat /\ nonce \in Nat
  BY <1>0, MinedLength DEF TypeOK
<1>1. CASE MineIn \/ UNCHANGED vars \/ \E t \in Tokens : PairSet(t)
  <2>1. UNCHANGED <<mined, pool, sent, queue, worker, eventMap, cur, nonce, pc>>
    BY <1>1 DEF MineIn, PairSet, vars, outVars, mainVars, sharedVars
  <2> QED BY <1>0, <2>1 DEF Tidy, NoNonceGap, OnItsWay
<1>2. CASE MineOut
  <2>1. UNCHANGED <<sent, queue, worker, eventMap, cur, nonce, pc>>
    BY <1>2 DEF MineOut, mainVars, sharedVars
  <2>2. /\ Len(mined') = Len(mined) + 1
        /\ \A t \in pool : t \in pool' \/ t.nonce = Len(mined)
    BY <1>0, <1>2, MineOutStep
  <2>3. Tidy'
    <3>1. \A t \in sent : t.nonce \in Nat
      BY <1>0 DEF TypeOK, Tx
    <3>2. \A t \in sent : t \in pool' \/ t.nonce < Len(mined')
      BY <1>0, <1>00, <2>2, <3>1 DEF Tidy
    <3> QED BY <1>0, <2>1, <3>2 DEF Tidy
  <2>4. \A u \in Carriers : u \in Carriers' \/ u.nonce < Len(mined')
    <3>1. \A u \in Carriers : u \in Carriers' \/ (u \in pool /\ u \notin pool')
      BY <2>1 DEF Carriers, OnItsWay
    <3> QED BY <1>00, <2>2, <3>1
  <2> QED BY <1>0, <1>00, <2>1, <2>2, <2>3, <2>4, NoGapStep
<1>3. CASE Start
  <2>1. /\ nonce' = Len(mined) /\ pc = "down" /\ pc' = "idle"
        /\ UNCHANGED <<mined, pool, sent, queue, worker, eventMap, cur>>
    BY <1>3 DEF Start, LatestNonce, outVars
  <2>2. Tidy'
    BY <1>0, <2>1 DEF Tidy
  <2>3. NoNonceGap'
    BY <1>00, <2>1 DEF NoNonceGap
  <2> QED BY <2>2, <2>3
<1>4. CASE Exit
  <2>1. /\ nonce' = 0 /\ cur' = NoTx /\ sent' = {} /\ UNCHANGED mined
        /\ \A w \in Workers : worker'[w].tx = NoTx
    BY <1>4 DEF Exit, Idle, outVars
  <2>2. Tidy'
    BY <2>1 DEF Tidy
  <2>3. NoNonceGap'
    BY <1>00, <2>1 DEF NoNonceGap
  <2> QED BY <2>2, <2>3
<1>5. CASE (MainStep \/ CloseStep \/ Signal \/ Crash) /\ ~Exit
  <2>1. MainFrame
    BY <1>0, <1>5, MainStepFrame
  <2>2. UNCHANGED mined
    BY <1>5, MainMinesNothing
  <2>3. /\ Tidy' /\ Carriers \subseteq Carriers'
        /\ nonce' = nonce \/ (nonce' = nonce + 1 /\ \E t \in Carriers' : t.nonce = nonce)
    BY <1>5, <2>1, <2>2, MainCarries
  <2> QED BY <1>0, <1>00, <2>2, <2>3, NoGapStep
<1>6. ASSUME NEW w \in Workers, WorkerStep(w) PROVE Tidy' /\ NoNonceGap'
  <2>1. /\ Tidy' /\ UNCHANGED mined
        /\ \A u \in Carriers : u \in Carriers' \/ u.nonce < Len(mined)
        /\ \/ nonce' = nonce
           \/ nonce' = nonce + 1 /\ \E t \in Carriers' : t.nonce = nonce
    BY <1>6, WorkerCarries
  <2> QED BY <1>0, <1>00, <2>1, NoGapStep
<1> QED BY <1>1, <1>2, <1>3, <1>4, <1>5, <1>6 DEF Next

(* As long as no estimate of a mint fails, every nonce the wallet gave out  *)
(* is used, pending, on its way, or that of an entry left in a map: under   *)
(* every other fault, errors of SendTx, full queues and restarts included.  *)
THEOREM NoNonceLost == EstimatesSucceed => (Spec => []NoNonceGap)
<1> SUFFICES ASSUME EstimatesSucceed PROVE Spec => []NoNonceGap
  OBVIOUS
<1>1. Init => GapInv
  <2> SUFFICES ASSUME Init PROVE GapInv
    OBVIOUS
  <2>1. HandInv
    BY InitHandInv
  <2>2. Tidy /\ NoNonceGap
    BY DEF Init, Tidy, NoNonceGap, Idle
  <2> QED BY <2>1, <2>2 DEF GapInv
<1>2. GapInv /\ [Next]_vars => GapInv'
  BY NextGapInv
<1>3. GapInv => NoNonceGap
  BY DEF GapInv
<1> QED BY <1>1, <1>2, <1>3, PTL DEF Spec

-----------------------------------------------------------------------------
(* The abstract bridge.  What the daemon attempts or records was logged: the *)
(* event of whatever it holds is one of the in chain's.                      *)
LoggedOnly ==
    /\ \A t \in pool \cup DOMAIN eventMap : Emitted(t.ev)
    /\ \A e \in logs : Emitted(e)
    /\ event # NoEvent => Emitted(event.ev)
    /\ \A w \in Workers : worker[w].pc # "idle" => Emitted(worker[w].ev)
BooksInv == FailedInv /\ SucceededInv /\ LoggedOnly

LEMMA EmittedStays ==
    ASSUME [Next]_vars, NEW e \in Events, Emitted(e)
    PROVE  Emitted(e)'
<1>1. MineIn \/ UNCHANGED blockOf
  BY DEF Next, MineOut, PairSet, Start, Crash, Exit, Fatal, Signal, MainStep, TickBusy,
       TickFetch, Fetch, FetchLatestErr, FetchFilterErr, FetchDone, HandleLog,
       HandleSkip, HandleNoPair, HandlePanic, HandleGet, HandleNonce, HandleWrite,
       HandleGetErr, HandleMintErr, HandleLogsErr, Enqueue, EnqueueErr, CloseStep,
       CloseWait, CloseCommitERC20, CloseCommitNFT, CloseExit, WorkerStep, Submit,
       SubmitErr, ConfirmedHandler, TxFailed, PollErr, TakeEvent, PutSucceeded,
       PutFailed, StoreEvent, PutErr, RetryNonce, RetryBuild, RetryWrite, RetryErr,
       RetryEnqueue, RetryEnqueueErr, vars, inVars, outVars, storeVars, mainVars,
       sharedVars
<1> QED BY <1>1 DEF MineIn, Emitted

\* A log comes from the in chain, and stays until it is handled.
LEMMA LogsStep ==
    ASSUME [Next]_vars, NEW e \in logs', e \notin logs
    PROVE  Emitted(e)
<1>1. logs' \subseteq logs \/ Fetch \/ FetchFilterErr
  BY DEF Next, MineIn, MineOut, PairSet, Start, Crash, Exit, Fatal, Signal, MainStep,
       TickBusy, TickFetch, FetchLatestErr, FetchDone, HandleLog, HandleSkip,
       HandleNoPair, HandlePanic, HandleGet, HandleNonce, HandleWrite, HandleGetErr,
       HandleMintErr, HandleLogsErr, Enqueue, EnqueueErr, CloseStep, CloseWait,
       CloseCommitERC20, CloseCommitNFT, CloseExit, WorkerStep, Submit, SubmitErr,
       ConfirmedHandler, TxFailed, PollErr, TakeEvent, PutSucceeded, PutFailed,
       StoreEvent, PutErr, RetryNonce, RetryBuild, RetryWrite, RetryErr, RetryEnqueue,
       RetryEnqueueErr, vars, inVars, outVars, storeVars, mainVars, sharedVars
<1> QED BY <1>1 DEF Fetch, FetchFilterErr, FilterDeposited

\* Only what was enqueued reaches the node.
LEMMA PoolStep ==
    ASSUME [Next]_vars
    PROVE  pool' \subseteq pool \cup queue
BY DEF Next, MineIn, MineOut, PairSet, Start, Crash, Exit, Fatal, Signal, MainStep,
     TickBusy, TickFetch, Fetch, FetchLatestErr, FetchFilterErr, FetchDone, HandleLog,
     HandleSkip, HandleNoPair, HandlePanic, HandleGet, HandleNonce, HandleWrite,
     HandleGetErr, HandleMintErr, HandleLogsErr, Enqueue, EnqueueErr, CloseStep,
     CloseWait, CloseCommitERC20, CloseCommitNFT, CloseExit, WorkerStep, Submit,
     SubmitErr, ConfirmedHandler, TxFailed, PollErr, TakeEvent, PutSucceeded, PutFailed,
     StoreEvent, PutErr, RetryNonce, RetryBuild, RetryWrite, RetryErr, RetryEnqueue,
     RetryEnqueueErr, vars, inVars, outVars, storeVars, mainVars, sharedVars

\* A new entry is for a log or for the event of a retry.
LEMMA EntryLogged ==
    ASSUME HandInv, OwnEvent, LoggedOnly, [Next]_vars, NEW h \in DOMAIN eventMap'
    PROVE  Emitted(h.ev)
<1>1. CASE Exit
  BY <1>1, EmptyMapType DEF Exit
<1>2. CASE UNCHANGED eventMap
  BY <1>2 DEF LoggedOnly
<1>3. CASE HandleWrite
  <2>1. event # NoEvent /\ cur.ev = event.ev
    BY <1>3 DEF HandleWrite, HandInv, TypeOK, OwnEvent
  <2>2. h \in DOMAIN eventMap \/ h = cur
    BY <1>3 DEF HandleWrite, MapPut
  <2> QED BY <2>1, <2>2 DEF LoggedOnly
<1>4. ASSUME NEW w \in Workers, RetryWrite(w) PROVE Emitted(h.ev)
  <2>1. worker[w].pc = "write" /\ worker[w].tx.ev = worker[w].ev
    BY <1>4 DEF RetryWrite, OwnEvent, Making
  <2>2. h \in DOMAIN eventMap \/ h = worker[w].tx
    BY <1>4 DEF RetryWrite, MapPut
  <2> QED BY <2>1, <2>2 DEF LoggedOnly
<1>5. ASSUME NEW w \in Workers, NEW t \in sent, NEW step, NEW r, TakeEvent(w, t, step, r)
      PROVE  Emitted(h.ev)
  BY <1>5 DEF TakeEvent, MapDelete, LoggedOnly
<1> QED BY <1>1, <1>2, <1>3, <1>4, <1>5, EventMapStep

\* A handler's event is that of a transaction, which has an entry.
LEMMA WorkerLogged ==
    ASSUME HandInv, LoggedOnly, NEW w \in Workers, WorkerStep(w), worker'[w].pc # "idle"
    PROVE  Emitted(worker'[w].ev)
<1>0. TypeOK
  BY DEF HandInv
<1>1. CASE Submit(w) \/ SubmitErr(w)
  BY <1>1 DEF Submit, SubmitErr, LoggedOnly
<1>2. CASE Release(w)
  BY <1>0, <1>2 DEF Release, TypeOK, Idle
<1>3. CASE RetryNonce(w) \/ RetryBuild(w) \/ RetryWrite(w)
  <2>1. worker[w].pc # "idle" /\ worker'[w].ev = worker[w].ev
    <3>1. CASE RetryNonce(w)
      BY <1>0, <3>1 DEF RetryNonce, TypeOK, Idle
    <3>2. CASE RetryBuild(w)
      BY <1>0, <3>2 DEF RetryBuild, TypeOK, Idle
    <3>3. CASE RetryWrite(w)
      BY <1>0, <3>3 DEF RetryWrite, TypeOK, Idle
    <3> QED BY <1>3, <3>1, <3>2, <3>3
  <2> QED BY <2>1 DEF LoggedOnly
<1>4. ASSUME NEW t \in sent, NEW step, NEW r, TakeEvent(w, t, step, r)
      PROVE  Emitted(worker'[w].ev)
  <2>1. t \in DOMAIN eventMap
    BY DEF HandInv, OneHand, InTransit
  <2>2. worker'[w].ev = t.ev
    BY <1>0, <1>4, <2>1 DEF TakeEvent, TypeOK, Handler
  <2> QED BY <2>1, <2>2 DEF LoggedOnly
<1> QED BY <1>1, <1>2, <1>3, <1>4
        DEF WorkerStep, ConfirmedHandler, TxFailed, PollErr, PutSucceeded, PutFailed,
            StoreEvent, PutErr, RetryErr, RetryEnqueue, RetryEnqueueErr

LEMMA NextLoggedOnly == HandInv /\ OwnEvent /\ LoggedOnly /\ [Next]_vars => LoggedOnly'
<1> SUFFICES ASSUME HandInv, OwnEvent, LoggedOnly, [Next]_vars PROVE LoggedOnly'
  OBVIOUS
<1>0. TypeOK /\ TypeOK'
  BY NextHandInv DEF HandInv
<1>1. ASSUME NEW t \in pool' \cup DOMAIN eventMap' PROVE Emitted(t.ev)'
  <2>1. PICK e : e = t.ev
    OBVIOUS
  <2>2. e \in Events
    BY <1>0, <1>1, <2>1 DEF TypeOK, Tx
  <2>3. Emitted(e)
    <3>1. CASE t \in DOMAIN eventMap'
      BY <2>1, <3>1, EntryLogged
    <3>2. CASE t \in pool'
      <4>1. t \in pool \/ t \in DOMAIN eventMap
        BY <3>2, PoolStep DEF HandInv, OneHand, InTransit
      <4> QED BY <2>1, <4>1 DEF LoggedOnly
    <3> QED BY <1>1, <3>1, <3>2
  <2>4. Emitted(e)'
    BY <2>2, <2>3, EmittedStays
  <2> QED BY <2>1, <2>4 DEF Emitted
<1>2. ASSUME NEW e \in logs' PROVE Emitted(e)'
  <2>1. e \in Events
    BY <1>0, <1>2 DEF TypeOK
  <2>2. Emitted(e)
    BY <1>2, LogsStep DEF LoggedOnly
  <2> QED BY <2>1, <2>2, EmittedStays
<1>3. ASSUME NEW v \in Workers, worker'[v].pc # "idle" PROVE Emitted(worker[v].ev)'
  <2>1. PICK e : e = worker'[v].ev
    OBVIOUS
  <2>2. e \in Events
    <3>1. worker' \in [Workers -> {Idle} \cup
            [pc : HandlerSteps, ev : Events, retry : Nat, tx : Tx \cup {NoTx}]]
      BY <1>0 DEF TypeOK
    <3> QED BY <1>3, <2>1, <3>1 DEF Idle
  <2>3. Emitted(e)
    <3>1. CASE worker'[v] = worker[v]
      BY <1>3, <2>1, <3>1 DEF LoggedOnly
    <3>2. CASE Exit
      BY <1>3, <3>2 DEF Exit, Idle
    <3>3. CASE WorkerStep(v)
      BY <1>3, <2>1, <3>3, WorkerLogged
    <3> QED BY <1>0, <3>1, <3>2, <3>3, WorkerChange, OthersStay
  <2>4. Emitted(e)'
    BY <2>2, <2>3, EmittedStays
  <2> QED BY <2>1, <2>4 DEF Emitted
<1>4. ASSUME event' # NoEvent PROVE Emitted(event.ev)'
  <2>1. PICK e : e = event'.ev
    OBVIOUS
  <2>2. e \in Events
    <3>1. event' \in [ev : Events, retry : Nat] \cup {NoEvent}
      BY <1>0 DEF TypeOK
    <3> QED BY <1>4, <2>1, <3>1
  <2>3. Emitted(e)
    <3>1. CASE UNCHANGED event
      BY <1>4, <2>1, <3>1 DEF LoggedOnly
    <3>2. ASSUME NEW f \in Events, HandleGet(f) PROVE Emitted(e)
      BY <2>1, <3>2 DEF HandleGet, FirstLog, LoggedOnly
    <3> QED BY <1>4, <3>1, <3>2, EventStep
  <2>4. Emitted(e)'
    BY <2>2, <2>3, EmittedStays
  <2> QED BY <2>1, <2>4 DEF Emitted
<1> QED BY <1>1, <1>2, <1>3, <1>4 DEF LoggedOnly

\* Which steps the books see.
LEMMA BooksChange ==
    ASSUME [Next]_vars
    PROVE  \/ UNCHANGED <<blockOf, mined, db>>
           \/ MineIn
           \/ MineOut
           \/ \E w \in Workers : PutSucceeded(w) \/ PutFailed(w)
BY DEF Next, PairSet, Start, Crash, Exit, Fatal, Signal, MainStep, TickBusy, TickFetch,
     Fetch, FetchLatestErr, FetchFilterErr, FetchDone, HandleLog, HandleSkip,
     HandleNoPair, HandlePanic, HandleGet, HandleNonce, HandleWrite, HandleGetErr,
     HandleMintErr, HandleLogsErr, Enqueue, EnqueueErr, CloseStep, CloseWait,
     CloseCommitERC20, CloseCommitNFT, CloseExit, WorkerStep, Submit, SubmitErr,
     ConfirmedHandler, TxFailed, PollErr, TakeEvent, PutErr, RetryNonce, RetryBuild,
     RetryWrite, RetryErr, RetryEnqueue, RetryEnqueueErr, vars, inVars, outVars,
     storeVars, mainVars, sharedVars

LEMMA StoreEventRecords ==
    ASSUME TypeOK, NEW w \in Workers, NEW step \in {"succeeded", "failed"}, NEW status,
           StoreEvent(w, step, status)
    PROVE  worker[w].ev \in Events /\ Books!Record(worker[w].ev, status)
<1>1. worker[w].ev \in Events
  BY DEF TypeOK, StoreEvent, Idle
<1>2. [e \in Events |-> db'[e].status]
        = [[e \in Events |-> db[e].status] EXCEPT ![worker[w].ev] = status]
  BY <1>1 DEF TypeOK, StoreEvent
<1>3. UNCHANGED <<blockOf, mined>>
  BY DEF StoreEvent, inVars, outVars
<1> QED BY <1>1, <1>2, <1>3 DEF Books!Record, Emitted

LEMMA NextBooks == BooksInv /\ [Next]_vars => [Books!Next]_(Books!books)
<1> SUFFICES ASSUME BooksInv, [Next]_vars PROVE [Books!Next]_(Books!books)
  OBVIOUS
<1>0. TypeOK
  BY DEF BooksInv, SucceededInv
<1>1. CASE UNCHANGED <<blockOf, mined, db>>
  BY <1>1 DEF Books!books, Emitted
<1>2. CASE MineIn
  <2>1. \A e \in Events : Emitted(e) => Emitted(e)'
    BY EmittedStays
  <2>2. Books!Deposit
    BY <1>2, <2>1 DEF MineIn, Books!Deposit, outVars, storeVars
  <2> QED BY <2>2 DEF Books!Next
<1>3. CASE MineOut
  <2>1. PICK t \in pool, ok \in BOOLEAN : mined' = Append(mined, [ev |-> t.ev, ok |-> ok])
    BY <1>3 DEF MineOut
  <2>2. t.ev \in Events /\ Emitted(t.ev)
    BY <1>0, <2>1 DEF TypeOK, Tx, BooksInv, LoggedOnly
  <2>3. UNCHANGED <<blockOf, db>>
    BY <1>3 DEF MineOut, inVars, storeVars
  <2>4. Books!Attempt(t.ev)
    BY <2>1, <2>2, <2>3 DEF Books!Attempt, Emitted
  <2> QED BY <2>2, <2>4 DEF Books!Next
<1>4. ASSUME NEW w \in Workers, PutSucceeded(w) PROVE Books!Next
  <2>1. PICK e : e = worker[w].ev
    OBVIOUS
  <2>2. e \in Events /\ Books!Record(e, "SUCCEEDED")
    BY <1>0, <1>4, <2>1, StoreEventRecords DEF PutSucceeded
  <2>3. Minted(e)
    BY <1>4, <2>1 DEF PutSucceeded, StoreEvent, BooksInv, SucceededInv
  <2>4. Books!Succeed(e)
    BY <2>2, <2>3 DEF Books!Succeed, Books!Minted, Minted
  <2> QED BY <2>2, <2>4 DEF Books!Next
<1>5. ASSUME NEW w \in Workers, PutFailed(w) PROVE Books!Next
  <2>1. PICK e : e = worker[w].ev
    OBVIOUS
  <2>2. e \in Events /\ Books!Record(e, "FAILED")
    BY <1>0, <1>5, <2>1, StoreEventRecords DEF PutFailed
  <2>3. Cardinality(FailuresOf(e)) > RetryLimit
    BY <1>5, <2>1 DEF PutFailed, StoreEvent, BooksInv, FailedInv, WorkerCounts
  <2>4. Books!Failures(e) = FailuresOf(e)
    BY DEF Books!Failures, FailuresOf
  <2>5. Books!Cardinality(FailuresOf(e)) = Cardinality(FailuresOf(e))
    BY DEF Books!Cardinality, Cardinality
  <2>6. Books!GiveUp(e)
    BY <2>2, <2>3, <2>4, <2>5 DEF Books!GiveUp
  <2> QED BY <2>2, <2>6 DEF Books!Next
<1> QED BY <1>1, <1>2, <1>3, <1>4, <1>5, BooksChange

(* As long as receipts can be read, the daemon implements the abstract       *)
(* bridge: whatever else goes wrong, it attempts mints of logged deposits    *)
(* only, and records only what the out chain bears out.                      *)
THEOREM RelayerKeepsBooks == "poll" \notin Faults => (Spec => KeepsBooks)
<1> SUFFICES ASSUME "poll" \notin Faults PROVE Spec => KeepsBooks
  OBVIOUS
<1>1. Init => BooksInv
  <2> SUFFICES ASSUME Init PROVE BooksInv
    OBVIOUS
  <2>1. FailedInv
    BY InitFailedInv
  <2>2. SucceededInv
    BY InitTypeOK DEF Init, SucceededInv, SucceededIsMinted, Idle
  <2>3. LoggedOnly
    BY EmptyMapType DEF Init, LoggedOnly, Idle
  <2> QED BY <2>1, <2>2, <2>3 DEF BooksInv
<1>2. BooksInv /\ [Next]_vars => BooksInv'
  BY NextFailedInv, NextSucceededInv, NextLoggedOnly DEF BooksInv, FailedInv
<1>3. Init => Books!Init
  BY DEF Init, Books!Init, Emitted
<1>4. BooksInv /\ [Next]_vars => [Books!Next]_(Books!books)
  BY NextBooks
<1> QED BY <1>1, <1>2, <1>3, <1>4, PTL DEF Spec, KeepsBooks, Books!Spec
=============================================================================
