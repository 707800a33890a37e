------------------------------ MODULE Relayer ------------------------------
(***************************************************************************)
(* The bridge daemon: `bridgecli serve` (serve.go) and the Bridge it       *)
(* drives (bridge.go), with its LevelDB store (pb/*.go), its wallet, the   *)
(* transaction confirmer it hands mint transactions to, and the two        *)
(* chains it talks to.  The main goroutine fetches deposit logs from the   *)
(* in chain and sends one mint per log to the out chain; the confirmer's   *)
(* worker goroutines submit the transactions, poll their receipts and run  *)
(* the handlers that record the outcome or retry.  The process may die at  *)
(* any point; the store and the chains survive it.                         *)
(***************************************************************************)
EXTENDS Naturals, FiniteSets, Sequences

CONSTANTS
    Events,        \* deposits the bank will ever log: a set of positive numbers
    KindOf,        \* KindOf[e]: SlotERC20 or SlotNFT, the log e is
    Tokens,        \* in-chain token contracts
    TokenOf,       \* TokenOf[e]: the token e deposits
    InitPair,      \* InitPair[t]: what `pair set` stored before the first start
    Workers,       \* the confirmer's worker goroutines
    RetryLimit,    \* retries after a failed mint (3 in the code)
    CloseRetries,  \* retryLimit of Close (3 in serve.go)
    QueueSize,     \* capacity of the confirmer's queue (65536 in serve.go)
    Faults,        \* which calls may fail in this instance, see FaultNames
    MaxHeight,     \* bound: blocks of the in chain
    MaxNonce,      \* bound: nonces the wallet hands out in one life
    MaxOutages     \* bound: crashes and signals

SlotERC20 == 1
SlotNFT == 2
Slots == {SlotERC20, SlotNFT}

(* Every outside event that the environment may or may not produce.        *)
FaultNames ==
    { "crash",      \* the process is killed
      "signal",     \* SIGTERM or SIGINT: graceful shutdown
      "pair",       \* the operator runs `pair set` between two lives
      "latest",     \* LatestBlockNumber returns an error
      "filter",     \* the log filter fails, or its iterator stops early
      "get",        \* a read of the store fails
      "put",        \* a write to the store fails
      "estimate",   \* EstimateGas fails on a mint that could succeed
      "lostErr",    \* the race on `err` between a fetch and its goroutine
      "sendtx",     \* SendTransaction returns an error
      "poll",       \* a receipt query fails with another error
      "revert" }    \* a mint that could succeed is mined with status 0

PairTypes == {"none", "ORIGINAL", "WRAPPED"}

ASSUME ConstantsAssumption ==
    /\ Events \subseteq Nat \ {0}
    /\ KindOf \in [Events -> Slots]
    /\ TokenOf \in [Events -> Tokens]
    /\ InitPair \in [Tokens -> PairTypes]
    /\ RetryLimit \in Nat
    /\ CloseRetries \in Nat
    /\ QueueSize \in Nat
    /\ Faults \subseteq FaultNames
    /\ MaxHeight \in Nat
    /\ MaxNonce \in Nat
    /\ MaxOutages \in Nat

VARIABLES
    \* the in chain
    height,     \* number of its latest block
    blockOf,    \* blockOf[e]: block of e's log, 0 before it is emitted
    \* the out chain, as the wallet's account sees it
    mined,      \* mined mint transactions in nonce order, with their receipt status
    pool,       \* transactions the node accepted and has not mined
    \* the LevelDB store
    db,         \* db[e]: stored event
    dbBlock,    \* dbBlock[s]: stored ConfirmedBlock of slot s
    pair,       \* pair[t]: type of the stored pair of t
    \* the main goroutine
    pc,         \* where it is; "down" when there is no process
    slot,       \* rotator.slot
    confirmed,  \* confirmed[s]: ConfirmedBlockERC20.Number, ConfirmedBlockNFT.Number
    fetchEnd,   \* `end` of the fetch under way
    logs,       \* events the fetch has still to handle
    event,      \* handleLogs' e from its Get to writeEventMap, with its retry count
    cur,        \* its transaction, from IncrementNonce to EnqueueTx
    closeTry,   \* `retry` of Close
    \* shared by the goroutines
    eventMap,   \* EventMapERC20 and EventMapNFT: hash -> retry count of its event
    nonce,      \* next nonce of the wallet
    queue,      \* transactions enqueued and not submitted
    sent,       \* transactions submitted and polled
    worker,     \* worker[w]: the handler w is in
    outages     \* crashes and signals so far

inVars == <<height, blockOf>>
outVars == <<mined, pool>>
storeVars == <<db, dbBlock, pair>>
mainVars == <<pc, slot, confirmed, fetchEnd, logs, event, cur, closeTry>>
sharedVars == <<eventMap, nonce, queue, sent, worker>>
vars == <<inVars, outVars, storeVars, mainVars, sharedVars, outages>>

(***************************************************************************)
(* Data.  A transaction is determined by its nonce and the event it mints, *)
(* and so is its hash.                                                     *)
(***************************************************************************)
Tx == [nonce : Nat, ev : Events]
NoTx == [nonce |-> 0, ev |-> 0]
NoEvent == [ev |-> 0, retry |-> 0]

Statuses == {"none", "FAILED", "SUCCEEDED"}   \* "none": store.ErrNotFound
StoredEvent == [status : Statuses, retry : Nat]

Idle == [pc |-> "idle", ev |-> 0, retry |-> 0, tx |-> NoTx]
Handler(step, e, r, t) == [pc |-> step, ev |-> e, retry |-> r, tx |-> t]
HandlerSteps == {"succeeded", "failed", "retry", "build", "write", "enqueue"}

EmptyMap == [h \in {} |-> 0]
MapPut(h, r) == [k \in DOMAIN eventMap \cup {h} |-> IF k = h THEN r ELSE eventMap[k]]
MapDelete(h) == [k \in DOMAIN eventMap \ {h} |-> eventMap[k]]
RetryOf(h) == IF h \in DOMAIN eventMap THEN eventMap[h] ELSE 0
MapOfSlot(s) == {h \in DOMAIN eventMap : KindOf[h.ev] = s}

TypeOK ==
    /\ height \in Nat
    /\ blockOf \in [Events -> Nat]
    /\ mined \in Seq([ev : Events, ok : BOOLEAN])
    /\ pool \subseteq Tx
    /\ db \in [Events -> StoredEvent]
    /\ dbBlock \in [Slots -> Nat]
    /\ pair \in [Tokens -> PairTypes]
    /\ pc \in {"down", "idle", "fetch", "logs", "mint", "build", "enqueue",
              "closing", "closeNFT", "closed"}
    /\ slot \in Slots
    /\ confirmed \in [Slots -> Nat]
    /\ fetchEnd \in Nat
    /\ logs \subseteq Events
    /\ event \in [ev : Events, retry : Nat] \cup {NoEvent}
    /\ cur \in Tx \cup {NoTx}
    /\ closeTry \in Nat
    /\ DOMAIN eventMap \subseteq Tx
    /\ eventMap \in [DOMAIN eventMap -> Nat]
    /\ nonce \in Nat
    /\ queue \subseteq Tx
    /\ sent \subseteq Tx
    /\ worker \in [Workers -> {Idle} \cup
                   [pc : HandlerSteps, ev : Events, retry : Nat, tx : Tx \cup {NoTx}]]
    /\ outages \in Nat
    /\ pc \in {"mint", "build"} => event # NoEvent
    /\ pc \in {"build", "enqueue"} => cur \in Tx
    /\ \A w \in Workers : worker[w].pc \in {"build", "write", "enqueue"} => worker[w].tx \in Tx

Init ==
    /\ height = 0
    /\ blockOf = [e \in Events |-> 0]
    /\ mined = <<>>
    /\ pool = {}
    /\ db = [e \in Events |-> [status |-> "none", retry |-> 0]]
    /\ dbBlock = [s \in Slots |-> 0]
    /\ pair = InitPair
    /\ pc = "down"
    /\ slot = 1
    /\ confirmed = [s \in Slots |-> 0]
    /\ fetchEnd = 0
    /\ logs = {}
    /\ event = NoEvent
    /\ cur = NoTx
    /\ closeTry = 0
    /\ eventMap = EmptyMap
    /\ nonce = 0
    /\ queue = {}
    /\ sent = {}
    /\ worker = [w \in Workers |-> Idle]
    /\ outages = 0

(***************************************************************************)
(* The chains.                                                             *)
(***************************************************************************)
Emitted(e) == blockOf[e] # 0
Minted(e) == \E i \in 1..Len(mined) : mined[i] = [ev |-> e, ok |-> TRUE]

(* WrappedToken.mint succeeds whenever it is called; MockNFT.safeMint      *)
(* reverts when the token id exists.                                       *)
CanMint(e) == KindOf[e] = SlotNFT => ~Minted(e)

(* A block of the in chain, with the logs of the deposits made in it.      *)
MineIn ==
    /\ height < MaxHeight
    /\ \E S \in SUBSET {e \in Events : ~Emitted(e)} :
           blockOf' = [e \in Events |-> IF e \in S THEN height + 1 ELSE blockOf[e]]
    /\ height' = height + 1
    /\ UNCHANGED <<outVars, storeVars, mainVars, sharedVars, outages>>

(* The out chain mines the wallet's transactions in nonce order.           *)
MineOut ==
    \E t \in pool, ok \in BOOLEAN :
        /\ t.nonce = Len(mined)
        /\ ok => CanMint(t.ev)
        /\ ~ok => "revert" \in Faults \/ ~CanMint(t.ev)
        /\ mined' = Append(mined, [ev |-> t.ev, ok |-> ok])
        /\ pool' = {u \in pool : u.nonce # t.nonce}
        /\ UNCHANGED <<inVars, storeVars, mainVars, sharedVars, outages>>

(* Receipts, as ConfirmTx reads them.                                      *)
MinedAs(t, ok) ==
    t.nonce < Len(mined) /\ mined[t.nonce + 1] = [ev |-> t.ev, ok |-> ok]

(***************************************************************************)
(* Process start and end.                                                  *)
(***************************************************************************)

(* `bridgecli pair set`: LevelDB admits one process, so the daemon is down. *)
PairSet(t) ==
    /\ "pair" \in Faults
    /\ pc = "down"
    /\ \E ty \in {"ORIGINAL", "WRAPPED"} : pair' = [pair EXCEPT ![t] = ty]
    /\ UNCHANGED <<inVars, outVars, db, dbBlock, mainVars, sharedVars, outages>>

(* NonceAt with a nil block: transactions still in the pool do not count.  *)
LatestNonce == Len(mined)

(* Bug: the daemon begins at the head of the in chain.                     *)
StartAtHead ==
    /\ pc = "down"
    /\ pc' = "idle"
    /\ slot' = 1
    /\ confirmed' = [s \in Slots |-> height]
    /\ nonce' = LatestNonce
    /\ UNCHANGED <<inVars, outVars, storeVars, fetchEnd, logs, event, cur,
                   closeTry, eventMap, queue, sent, worker, outages>>

(* start(): NewBridge loads the confirmed blocks, NewWallet asks the node  *)
(* for the account's nonce in the latest block, NewRotator starts at 1.    *)
Start ==
    /\ pc = "down"
    /\ pc' = "idle"
    /\ slot' = 1
    /\ confirmed' = dbBlock
    /\ nonce' = LatestNonce
    /\ UNCHANGED <<inVars, outVars, storeVars, fetchEnd, logs, event, cur,
                   closeTry, eventMap, queue, sent, worker, outages>>

(* The process is gone: what it held in memory is lost.                    *)
Exit ==
    /\ pc' = "down"
    /\ slot' = 1
    /\ confirmed' = [s \in Slots |-> 0]
    /\ fetchEnd' = 0
    /\ logs' = {}
    /\ event' = NoEvent
    /\ cur' = NoTx
    /\ closeTry' = 0
    /\ eventMap' = EmptyMap
    /\ nonce' = 0
    /\ queue' = {}
    /\ sent' = {}
    /\ worker' = [w \in Workers |-> Idle]
    /\ UNCHANGED <<inVars, outVars, storeVars>>

Fatal == Exit /\ UNCHANGED outages

Crash ==
    /\ "crash" \in Faults
    /\ pc # "down"
    /\ outages < MaxOutages
    /\ outages' = outages + 1
    /\ Exit

(***************************************************************************)
(* The main loop of start().                                               *)
(***************************************************************************)
(* Bug: the rotator wraps one slot early.                                  *)
RotateEarly == IF slot + 1 >= 2 THEN 1 ELSE slot + 1

Rotate == IF slot + 1 > 2 THEN 1 ELSE slot + 1

(* A tick whose slot still has transactions in flight.                     *)
TickBusy ==
    /\ pc = "idle"
    /\ MapOfSlot(Rotate) # {}
    /\ slot' = Rotate
    /\ UNCHANGED <<inVars, outVars, storeVars, pc, confirmed, fetchEnd, logs,
                   event, cur, closeTry, sharedVars, outages>>

(* ConfirmedBlock.Put drops the error of the store's Put.                  *)
PutBlock(s) ==
    \/ dbBlock' = [dbBlock EXCEPT ![s] = confirmed[s]]
    \/ "put" \in Faults /\ dbBlock' = dbBlock

(* Bug: the confirmed block is stored while mints are in flight.           *)
TickFetchBusy ==
    /\ pc = "idle"
    /\ slot' = Rotate
    /\ PutBlock(Rotate)
    /\ pc' = "fetch"
    /\ UNCHANGED <<inVars, outVars, db, pair, confirmed, fetchEnd, logs, event,
                   cur, closeTry, sharedVars, outages>>

(* A tick that stores the confirmed block and begins a fetch.  The check   *)
(* of the map does not take the lock the handlers take.                    *)
TickFetch ==
    /\ pc = "idle"
    /\ MapOfSlot(Rotate) = {}
    /\ slot' = Rotate
    /\ PutBlock(Rotate)
    /\ pc' = "fetch"
    /\ UNCHANGED <<inVars, outVars, db, pair, confirmed, fetchEnd, logs, event,
                   cur, closeTry, sharedVars, outages>>

(* FetchERC20 and FetchNFT: the logs of the slot from the confirmed block  *)
(* to the latest one, both included.                                       *)
FilterDeposited(s, from, to) ==
    {e \in Events : KindOf[e] = s /\ Emitted(e) /\ from <= blockOf[e] /\ blockOf[e] <= to}

LogBefore(e, f) ==
    blockOf[e] < blockOf[f] \/ (blockOf[e] = blockOf[f] /\ e <= f)

Fetch ==
    /\ pc = "fetch"
    /\ fetchEnd' = height
    /\ logs' = FilterDeposited(slot, confirmed[slot], height)
    /\ pc' = "logs"
    /\ UNCHANGED <<inVars, outVars, storeVars, slot, confirmed, event, cur,
                   closeTry, sharedVars, outages>>

(* LatestBlockNumber fails: handleErr ends the process.                    *)
FetchLatestErr ==
    /\ "latest" \in Faults
    /\ pc = "fetch"
    /\ Fatal

(* The filter fails, or its iterator stops before the last log: the        *)
(* goroutine's error is only logged and the channel closed.                *)
FetchFilterErr ==
    /\ "filter" \in Faults
    /\ pc = "fetch"
    /\ LET all == FilterDeposited(slot, confirmed[slot], height) IN
           \E S \in SUBSET all :
               /\ S # all
               /\ \A e \in S, f \in all : LogBefore(f, e) => f \in S
               /\ logs' = S
    /\ fetchEnd' = height
    /\ pc' = "logs"
    /\ UNCHANGED <<inVars, outVars, storeVars, slot, confirmed, event, cur,
                   closeTry, sharedVars, outages>>

(***************************************************************************)
(* handleLogs, one event at a time, with send and mint.                    *)
(***************************************************************************)
FirstLog(e) == e \in logs /\ \A f \in logs : LogBefore(e, f)

(* e.Get found the event with status SUCCEEDED: continue.                  *)
HandleSkip(e) ==
    /\ pc = "logs"
    /\ FirstLog(e)
    /\ db[e].status = "SUCCEEDED"
    /\ logs' = logs \ {e}
    /\ UNCHANGED <<inVars, outVars, storeVars, pc, slot, confirmed, fetchEnd,
                   event, cur, closeTry, sharedVars, outages>>

(* Bug: send takes a nonce before it looks for the pair.                   *)
HandleNoPairLate(e) ==
    /\ pc = "logs"
    /\ FirstLog(e)
    /\ db[e].status # "SUCCEEDED"
    /\ pair[TokenOf[e]] = "none" \/ "get" \in Faults
    /\ nonce < MaxNonce
    /\ nonce' = nonce + 1
    /\ logs' = logs \ {e}
    /\ UNCHANGED <<inVars, outVars, storeVars, pc, slot, confirmed, fetchEnd,
                   event, cur, closeTry, eventMap, queue, sent, worker,
                   outages>>

(* send turns every error of GetPair into ErrPairNotFound: continue.       *)
HandleNoPair(e) ==
    /\ pc = "logs"
    /\ FirstLog(e)
    /\ db[e].status # "SUCCEEDED"
    /\ pair[TokenOf[e]] = "none" \/ "get" \in Faults
    /\ logs' = logs \ {e}
    /\ UNCHANGED <<inVars, outVars, storeVars, pc, slot, confirmed, fetchEnd,
                   event, cur, closeTry, sharedVars, outages>>

(* A WRAPPED pair leaves tx nil, and tx.Hash() panics.                     *)
HandlePanic(e) ==
    /\ pc = "logs"
    /\ FirstLog(e)
    /\ db[e].status # "SUCCEEDED"
    /\ pair[TokenOf[e]] = "WRAPPED"
    /\ Fatal

(* Bug: handleLogs does not look at the stored status.                     *)
HandleGetAgain(e) ==
    /\ pc = "logs"
    /\ FirstLog(e)
    /\ pair[TokenOf[e]] = "ORIGINAL"
    /\ event' = [ev |-> e, retry |-> db[e].retry]
    /\ pc' = "mint"
    /\ UNCHANGED <<inVars, outVars, storeVars, slot, confirmed, fetchEnd, logs,
                   cur, closeTry, sharedVars, outages>>

(* e.Get: the status and the retry count as they are now, 0 when nothing   *)
(* is stored; a handler may store the event before it is sent.  GetPair is *)
(* part of the step, pairs do not change while the daemon is up.           *)
HandleGet(e) ==
    /\ pc = "logs"
    /\ FirstLog(e)
    /\ db[e].status # "SUCCEEDED"
    /\ pair[TokenOf[e]] = "ORIGINAL"
    /\ event' = [ev |-> e, retry |-> db[e].retry]
    /\ pc' = "mint"
    /\ UNCHANGED <<inVars, outVars, storeVars, slot, confirmed, fetchEnd, logs,
                   cur, closeTry, sharedVars, outages>>

(* mint: IncrementNonce, which the library makes one step.                 *)
HandleNonce ==
    /\ pc = "mint"
    /\ nonce < MaxNonce
    /\ cur' = [nonce |-> nonce, ev |-> event.ev]
    /\ nonce' = nonce + 1
    /\ pc' = "build"
    /\ UNCHANGED <<inVars, outVars, storeVars, slot, confirmed, fetchEnd, logs,
                   event, closeTry, eventMap, queue, sent, worker, outages>>

(* Bug: send enqueues the transaction before it writes the event map.      *)
HandleWriteEnqueueFirst ==
    /\ pc = "build"
    /\ CanMint(cur.ev)
    /\ queue' = queue \cup {cur}
    /\ event' = NoEvent
    /\ pc' = "enqueue"
    /\ UNCHANGED <<inVars, outVars, storeVars, slot, confirmed, fetchEnd, logs,
                   cur, closeTry, eventMap, nonce, sent, worker, outages>>

(* The gas estimate, which simulates the mint, succeeds; writeEventMap.    *)
(* One step: only the main goroutine itself looks at the map as a whole,   *)
(* and a handler looks for this hash after the enqueue.                    *)
HandleWrite ==
    /\ pc = "build"
    /\ CanMint(cur.ev)
    /\ eventMap' = MapPut(cur, event.retry)
    /\ event' = NoEvent
    /\ pc' = "enqueue"
    /\ UNCHANGED <<inVars, outVars, storeVars, slot, confirmed, fetchEnd, logs,
                   cur, closeTry, nonce, queue, sent, worker, outages>>

(* confirmer.EnqueueTx, and on to the next event.                          *)
Enqueue ==
    /\ pc = "enqueue"
    /\ Cardinality(queue) < QueueSize
    /\ queue' = queue \cup {cur}
    /\ logs' = logs \ {cur.ev}
    /\ cur' = NoTx
    /\ pc' = "logs"
    /\ UNCHANGED <<inVars, outVars, storeVars, slot, confirmed, fetchEnd, event,
                   closeTry, eventMap, nonce, sent, worker, outages>>

(* handleLogs returns an error, and handleErr ends the process; unless the *)
(* fetch's goroutine, which shares `err`, assigns nil to it in between:    *)
(* then the fetch ends as if every log had been handled.                   *)
HandleLogsErr ==
    \/ Fatal
    \/ /\ "lostErr" \in Faults
       /\ confirmed' = [confirmed EXCEPT ![slot] = fetchEnd]
       /\ logs' = {}
       /\ event' = NoEvent
       /\ cur' = NoTx
       /\ pc' = "idle"
       /\ UNCHANGED <<inVars, outVars, storeVars, slot, fetchEnd, closeTry,
                      sharedVars, outages>>

(* e.Get fails with an error other than ErrNotFound.                       *)
HandleGetErr(e) ==
    /\ "get" \in Faults
    /\ pc = "logs"
    /\ FirstLog(e)
    /\ HandleLogsErr

(* EstimateGas fails, its nonce is spent.                                  *)
HandleMintErr ==
    /\ pc = "build"
    /\ ~CanMint(cur.ev) \/ "estimate" \in Faults
    /\ HandleLogsErr

(* The confirmer's queue is full; the map entry stays.                     *)
EnqueueErr ==
    /\ pc = "enqueue"
    /\ Cardinality(queue) >= QueueSize
    /\ HandleLogsErr

(* Bug: the fetch returns the block before `end`.                          *)
FetchDoneEndMinusOne ==
    /\ pc = "logs"
    /\ logs = {}
    /\ confirmed' = [confirmed EXCEPT ![slot] = fetchEnd - 1]
    /\ pc' = "idle"
    /\ UNCHANGED <<inVars, outVars, storeVars, slot, fetchEnd, logs, event, cur,
                   closeTry, sharedVars, outages>>

(* The channel is closed and drained: the fetch returns `end`.             *)
FetchDone ==
    /\ pc = "logs"
    /\ logs = {}
    /\ confirmed' = [confirmed EXCEPT ![slot] = fetchEnd]
    /\ pc' = "idle"
    /\ UNCHANGED <<inVars, outVars, storeVars, slot, fetchEnd, logs, event, cur,
                   closeTry, sharedVars, outages>>

(***************************************************************************)
(* The confirmer's workers.                                                *)
(***************************************************************************)

(* SendTx: the node takes a transaction whose nonce is neither used nor    *)
(* already pending.                                                        *)
NodeAccepts(t) == Len(mined) <= t.nonce /\ \A u \in pool : u.nonce # t.nonce

Submit(w) ==
    /\ worker[w] = Idle
    /\ \E t \in queue :
           /\ NodeAccepts(t)
           /\ queue' = queue \ {t}
           /\ pool' = pool \cup {t}
           /\ sent' = sent \cup {t}
    /\ UNCHANGED <<inVars, mined, storeVars, mainVars, eventMap, nonce, worker, outages>>

(* SendTx returns "" with its error, so the confirmer can only call        *)
(* ErrHandler(""), which finds no event in the map and returns.  The node  *)
(* may have taken the transaction all the same.                            *)
SubmitErr(w) ==
    /\ worker[w] = Idle
    /\ \E t \in queue :
           /\ ~NodeAccepts(t) \/ "sendtx" \in Faults
           /\ queue' = queue \ {t}
           /\ \/ pool' = pool
              \/ NodeAccepts(t) /\ pool' = pool \cup {t}
    /\ UNCHANGED <<inVars, mined, storeVars, mainVars, eventMap, nonce, sent, worker, outages>>

(* A handler's readEventMap and deleteEventMap for hash t; when the map    *)
(* has no entry the handler returns.                                       *)
TakeEvent(w, t, step, r) ==
    /\ sent' = sent \ {t}
    /\ eventMap' = MapDelete(t)
    /\ worker' = [worker EXCEPT ![w] =
                    IF t \in DOMAIN eventMap THEN Handler(step, t.ev, r, NoTx) ELSE Idle]
    /\ UNCHANGED <<inVars, outVars, storeVars, mainVars, nonce, queue, outages>>

(* Bug: the receipt's status is not looked at.                             *)
ConfirmedHandlerAnyStatus(w) ==
    /\ worker[w] = Idle
    /\ \E t \in sent, ok \in BOOLEAN :
           MinedAs(t, ok) /\ TakeEvent(w, t, "succeeded", RetryOf(t))

(* confirmedHandler: the receipt has status 1.                             *)
ConfirmedHandler(w) ==
    /\ worker[w] = Idle
    /\ \E t \in sent : MinedAs(t, TRUE) /\ TakeEvent(w, t, "succeeded", RetryOf(t))

(* Bug: the retry limit is compared after the increment.                   *)
TxFailedEarly(w) ==
    /\ worker[w] = Idle
    /\ \E t \in sent :
           /\ MinedAs(t, FALSE)
           /\ IF RetryOf(t) + 1 >= RetryLimit
                THEN TakeEvent(w, t, "failed", RetryOf(t))
                ELSE TakeEvent(w, t, "retry", RetryOf(t) + 1)

(* confirmerErrHandler with ErrTxFailed: the receipt has status 0.         *)
TxFailed(w) ==
    /\ worker[w] = Idle
    /\ \E t \in sent :
           /\ MinedAs(t, FALSE)
           /\ IF RetryOf(t) >= RetryLimit
                THEN TakeEvent(w, t, "failed", RetryOf(t))
                ELSE TakeEvent(w, t, "retry", RetryOf(t) + 1)

(* confirmerErrHandler with any other error of ConfirmTx.                  *)
PollErr(w) ==
    /\ "poll" \in Faults
    /\ worker[w] = Idle
    /\ \E t \in sent : TakeEvent(w, t, "failed", RetryOf(t))

Release(w) == worker' = [worker EXCEPT ![w] = Idle]

(* SetStatus and e.Put: the event is stored with its retry count.          *)
StoreEvent(w, step, status) ==
    /\ worker[w].pc = step
    /\ db' = [db EXCEPT ![worker[w].ev] = [status |-> status, retry |-> worker[w].retry]]
    /\ Release(w)
    /\ UNCHANGED <<inVars, outVars, dbBlock, pair, mainVars, eventMap, nonce, queue,
                   sent, outages>>

PutSucceeded(w) == StoreEvent(w, "succeeded", "SUCCEEDED")

PutFailed(w) == StoreEvent(w, "failed", "FAILED")

(* e.Put fails: the error is returned or logged, and the event forgotten.  *)
PutErr(w) ==
    /\ "put" \in Faults
    /\ worker[w].pc \in {"succeeded", "failed"}
    /\ Release(w)
    /\ UNCHANGED <<inVars, outVars, storeVars, mainVars, eventMap, nonce, queue,
                   sent, outages>>

(* confirmerErrHandler's send: GetPair and IncrementNonce.  The pair was   *)
(* there when the event was first sent, and cannot have changed since.     *)
RetryNonce(w) ==
    /\ worker[w].pc = "retry"
    /\ nonce < MaxNonce
    /\ worker' = [worker EXCEPT ![w].pc = "build",
                                ![w].tx = [nonce |-> nonce, ev |-> worker[w].ev]]
    /\ nonce' = nonce + 1
    /\ UNCHANGED <<inVars, outVars, storeVars, mainVars, eventMap, queue, sent, outages>>

(* The gas estimate succeeds.                                              *)
RetryBuild(w) ==
    /\ worker[w].pc = "build"
    /\ CanMint(worker[w].ev)
    /\ worker' = [worker EXCEPT ![w].pc = "write"]
    /\ UNCHANGED <<inVars, outVars, storeVars, mainVars, eventMap, nonce, queue,
                   sent, outages>>

(* writeEventMap, beside a main goroutine that looks at the map.           *)
RetryWrite(w) ==
    /\ worker[w].pc = "write"
    /\ eventMap' = MapPut(worker[w].tx, worker[w].retry)
    /\ worker' = [worker EXCEPT ![w].pc = "enqueue"]
    /\ UNCHANGED <<inVars, outVars, storeVars, mainVars, nonce, queue, sent, outages>>

(* GetPair fails, or EstimateGas does, which leaves its nonce spent: the   *)
(* error is logged and the event forgotten.                                *)
RetryErr(w) ==
    /\ \/ worker[w].pc = "retry" /\ "get" \in Faults
       \/ worker[w].pc = "build" /\ (~CanMint(worker[w].ev) \/ "estimate" \in Faults)
    /\ Release(w)
    /\ UNCHANGED <<inVars, outVars, storeVars, mainVars, eventMap, nonce, queue,
                   sent, outages>>

RetryEnqueue(w) ==
    /\ worker[w].pc = "enqueue"
    /\ Cardinality(queue) < QueueSize
    /\ queue' = queue \cup {worker[w].tx}
    /\ Release(w)
    /\ UNCHANGED <<inVars, outVars, storeVars, mainVars, eventMap, nonce, sent, outages>>

(* The queue is full: the error is logged, the map entry stays.            *)
RetryEnqueueErr(w) ==
    /\ worker[w].pc = "enqueue"
    /\ Cardinality(queue) >= QueueSize
    /\ Release(w)
    /\ UNCHANGED <<inVars, outVars, storeVars, mainVars, eventMap, nonce, queue,
                   sent, outages>>

(***************************************************************************)
(* Close, called by the main loop on a signal.                             *)
(***************************************************************************)
Signal ==
    /\ "signal" \in Faults
    /\ pc = "idle"
    /\ outages < MaxOutages
    /\ outages' = outages + 1
    /\ pc' = "closing"
    /\ UNCHANGED <<inVars, outVars, storeVars, slot, confirmed, fetchEnd, logs,
                   event, cur, closeTry, sharedVars>>

CanClose == DOMAIN eventMap = {}

(* One turn of the wait: nothing is confirmed and retries are left.        *)
CloseWait ==
    /\ pc = "closing"
    /\ ~CanClose
    /\ closeTry < CloseRetries
    /\ closeTry' = closeTry + 1
    /\ UNCHANGED <<inVars, outVars, storeVars, pc, slot, confirmed, fetchEnd,
                   logs, event, cur, sharedVars, outages>>

(* The wait is over, all confirmed or the retries used up: the confirmed   *)
(* blocks are stored, one slot after the other.                            *)
CloseCommitERC20 ==
    /\ pc = "closing"
    /\ CanClose \/ closeTry >= CloseRetries
    /\ PutBlock(SlotERC20)
    /\ pc' = "closeNFT"
    /\ UNCHANGED <<inVars, outVars, db, pair, slot, confirmed, fetchEnd, logs,
                   event, cur, closeTry, sharedVars, outages>>

CloseCommitNFT ==
    /\ pc = "closeNFT"
    /\ PutBlock(SlotNFT)
    /\ pc' = "closed"
    /\ UNCHANGED <<inVars, outVars, db, pair, slot, confirmed, fetchEnd, logs,
                   event, cur, closeTry, sharedVars, outages>>

(* The confirmer and the store are closed and start() returns.             *)
CloseExit ==
    /\ pc = "closed"
    /\ Fatal

(***************************************************************************)
(* The specification.                                                      *)
(***************************************************************************)
HandleLog(e) ==
    \/ HandleSkip(e) \/ HandleNoPair(e) \/ HandlePanic(e)
    \/ HandleGet(e) \/ HandleGetErr(e)

MainStep ==
    \/ TickBusy \/ TickFetch
    \/ Fetch \/ FetchLatestErr \/ FetchFilterErr \/ FetchDone
    \/ \E e \in Events : HandleLog(e)
    \/ HandleNonce \/ HandleWrite \/ HandleMintErr
    \/ Enqueue \/ EnqueueErr

CloseStep == CloseWait \/ CloseCommitERC20 \/ CloseCommitNFT \/ CloseExit

WorkerStep(w) ==
    \/ Submit(w) \/ SubmitErr(w)
    \/ ConfirmedHandler(w) \/ TxFailed(w) \/ PollErr(w)
    \/ PutSucceeded(w) \/ PutFailed(w) \/ PutErr(w)
    \/ RetryNonce(w) \/ RetryBuild(w) \/ RetryWrite(w) \/ RetryErr(w)
    \/ RetryEnqueue(w) \/ RetryEnqueueErr(w)

Next ==
    \/ MineIn \/ MineOut
    \/ \E t \in Tokens : PairSet(t)
    \/ Start \/ Crash \/ Signal
    \/ MainStep \/ CloseStep
    \/ \E w \in Workers : WorkerStep(w)

Spec == Init /\ [][Next]_vars

(* Weak fairness of the goroutines, of the miners and of whoever restarts   *)
(* the daemon; deposits, signals and faults are not obliged to happen.     *)
Fairness ==
    /\ WF_vars(MainStep)
    /\ WF_vars(CloseStep)
    /\ WF_vars(Start)
    /\ WF_vars(MineOut)
    /\ \A w \in Workers : WF_vars(WorkerStep(w))

FairSpec == Spec /\ Fairness

(***************************************************************************)
(* Properties.                                                             *)
(***************************************************************************)

(* A handler has e in hand, or will be called back about it.               *)
Held(e) ==
    \/ \E h \in DOMAIN eventMap : h.ev = e
    \/ \E w \in Workers : worker[w].ev = e

(* handleLogs found e not settled and is about to send it.                 *)
Sending(e) == event.ev = e

(* A transaction that is queued or submitted has its event in the map, so  *)
(* the callback with its hash finds the event, across retries, restarts    *)
(* and full queues; only ErrHandler(""), after a failed SendTx, finds none. *)
CallbacksFindTheirEvent == queue \cup sent \subseteq DOMAIN eventMap

(* The store says SUCCEEDED only of a deposit whose mint was mined with    *)
(* status 1, however the handlers, crashes and restarts interleave.         *)
SucceededIsMinted == \A e \in Events : db[e].status = "SUCCEEDED" => Minted(e)

(* Once a deposit is stored as SUCCEEDED and no goroutine has it in hand,  *)
(* handleLogs never sends it again and its status never changes, across    *)
(* fetches that overlap, crashes and restarts.  A handler that stores it   *)
(* after handleLogs looked (bridge.go:187) and before the map entry (224)  *)
(* does not settle it: handleLogs has it in hand and sends it once more.   *)
Settled(e) == db[e].status = "SUCCEEDED" /\ ~Held(e) /\ ~Sending(e)
SettledIsFinal == [][\A e \in Events : Settled(e) => Settled(e)']_vars

(* No stored confirmed block passes a deposit of a paired token that is    *)
(* neither recorded, nor minted, nor in the hands of a goroutine: after a  *)
(* restart, which loses what goroutines hold, its log is not seen again.   *)
Paired(e) == InitPair[TokenOf[e]] # "none"
WatermarkSafe ==
    \A e \in Events :
        Emitted(e) /\ Paired(e) /\ blockOf[e] < dbBlock[KindOf[e]]
            => db[e].status # "none" \/ Minted(e) \/ Held(e)

(* A deposit is stored as FAILED only after the first mint and RetryLimit  *)
(* retries of it were mined with status 0.                                 *)
FailuresOf(e) == {i \in 1..Len(mined) : mined[i] = [ev |-> e, ok |-> FALSE]}
FailedAfterRetries ==
    \A e \in Events :
        db[e].status = "FAILED" => Cardinality(FailuresOf(e)) > RetryLimit

(* Seen from outside, the daemon keeps the books of the abstract bridge,   *)
(* whatever its handlers, restarts and retries do: it attempts mints of    *)
(* deposits that were logged only, and records only outcomes that the out  *)
(* chain bears out.                                                        *)
Books == INSTANCE Ledger WITH
    deposited <- {e \in Events : Emitted(e)},
    receipts <- mined,
    status <- [e \in Events |-> db[e].status]
KeepsBooks == Books!Spec

(* No nonce is lost in silence, which would block every later mint: one    *)
(* that the wallet has given out is used, pending, still on its way to the *)
(* node, or that of an entry left in the event map, which stops its slot.  *)
OnItsWay == pool \cup queue \cup {cur} \cup {worker[w].tx : w \in Workers}
NoNonceGap ==
    \A n \in Len(mined)..(nonce - 1) : \E t \in OnItsWay \cup DOMAIN eventMap : t # NoTx /\ t.nonce = n

(* Close, unless it gave up, stores the confirmed blocks when no mint is   *)
(* left to confirm or to send again.                                       *)
Unconfirmed ==
    DOMAIN eventMap # {} \/ \E w \in Workers : worker[w].pc \in {"retry", "build", "write", "enqueue"}
CloseWaits ==
    pc \in {"closeNFT", "closed"} /\ closeTry < CloseRetries => ~Unconfirmed

(* Every deposit of a paired token is minted on the out chain in the end.  *)
EventuallyMinted ==
    \A e \in Events : Emitted(e) /\ Paired(e) ~> Minted(e)

(* The daemon never stops fetching the logs of either slot.                *)
FetchesPeriodically == \A s \in Slots : []<>(pc = "fetch" /\ slot = s)

(* A deposit is minted at most once.                                       *)
MintsOf(e) == {i \in 1..Len(mined) : mined[i] = [ev |-> e, ok |-> TRUE]}
MintedOnce == \A e \in Events : Cardinality(MintsOf(e)) <= 1

=============================================================================
