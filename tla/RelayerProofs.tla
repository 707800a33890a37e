--------------------------- MODULE RelayerProofs ---------------------------
(***************************************************************************)
(* Theorems about Relayer for every value of its constants.                *)
(***************************************************************************)
EXTENDS Relayer, TLAPS

(***************************************************************************)
(* Types.                                                                  *)
(***************************************************************************)
LEMMA EmptyMapType == DOMAIN EmptyMap = {} /\ EmptyMap \in [{} -> Nat]
BY DEF EmptyMap

LEMMA InitTypeOK == Init => TypeOK
<1> SUFFICES ASSUME Init PROVE TypeOK
  OBVIOUS
<1>1. db \in [Events -> StoredEvent]
  BY DEF Init, StoredEvent, Statuses
<1>2. eventMap \in [DOMAIN eventMap -> Nat] /\ DOMAIN eventMap \subseteq Tx
  BY EmptyMapType DEF Init
<1>3. \A w \in Workers : worker[w].pc \notin {"build", "write", "enqueue"}
  BY DEF Init, Idle
<1>4. mined \in Seq([ev : Events, ok : BOOLEAN])
  BY DEF Init
<1> QED BY <1>1, <1>2, <1>3, <1>4, ConstantsAssumption
        DEF Init, TypeOK, Slots, SlotERC20, SlotNFT

LEMMA ExitTypeOK == TypeOK /\ Exit /\ outages' \in Nat => TypeOK'
<1> SUFFICES ASSUME TypeOK, Exit, outages' \in Nat PROVE TypeOK'
  OBVIOUS
<1>1. eventMap' \in [DOMAIN eventMap' -> Nat] /\ DOMAIN eventMap' \subseteq Tx
  BY EmptyMapType DEF Exit
<1>2. \A w \in Workers : worker'[w].pc \notin {"build", "write", "enqueue"}
  BY DEF Exit, Idle
<1> QED BY <1>1, <1>2
        DEF Exit, TypeOK, Slots, SlotERC20, SlotNFT, inVars, outVars, storeVars

LEMMA MapPutType ==
    ASSUME TypeOK, NEW h \in Tx, NEW r \in Nat
    PROVE  /\ DOMAIN MapPut(h, r) = DOMAIN eventMap \cup {h}
           /\ DOMAIN MapPut(h, r) \subseteq Tx
           /\ MapPut(h, r) \in [DOMAIN MapPut(h, r) -> Nat]
BY DEF TypeOK, MapPut

LEMMA MapDeleteType ==
    ASSUME TypeOK, NEW h
    PROVE  /\ DOMAIN MapDelete(h) = DOMAIN eventMap \ {h}
           /\ DOMAIN MapDelete(h) \subseteq Tx
           /\ MapDelete(h) \in [DOMAIN MapDelete(h) -> Nat]
BY DEF TypeOK, MapDelete

LEMMA RetryOfType ==
    ASSUME TypeOK, NEW h
    PROVE  RetryOf(h) \in Nat
BY DEF TypeOK, RetryOf

LEMMA RotateType == slot \in Slots => Rotate \in Slots
BY DEF Rotate, Slots, SlotERC20, SlotNFT

LEMMA PutBlockType ==
    ASSUME TypeOK, NEW s \in Slots, PutBlock(s)
    PROVE  dbBlock' \in [Slots -> Nat]
BY DEF TypeOK, PutBlock

(* A step of the main goroutine, without the ends of the process.          *)
LEMMA HandleLogsErrTypeOK ==
    ASSUME TypeOK, HandleLogsErr
    PROVE  TypeOK'
<1>1. CASE Fatal
  BY <1>1, ExitTypeOK DEF Fatal, TypeOK
<1>2. CASE ~Fatal
  BY <1>2 DEF HandleLogsErr, TypeOK, inVars, outVars, storeVars, sharedVars
<1> QED BY <1>1, <1>2

LEMMA TakeEventTypeOK ==
    ASSUME TypeOK, NEW w \in Workers, NEW t \in Tx, NEW step \in HandlerSteps,
           step \notin {"build", "write", "enqueue"}, NEW r \in Nat, TakeEvent(w, t, step, r)
    PROVE  TypeOK'
<1>1. Handler(step, t.ev, r, NoTx) \in
        [pc : HandlerSteps, ev : Events, retry : Nat, tx : Tx \cup {NoTx}]
  BY DEF Handler, Tx
<1>2. worker' \in [Workers -> {Idle} \cup
                   [pc : HandlerSteps, ev : Events, retry : Nat, tx : Tx \cup {NoTx}]]
  BY <1>1 DEF TypeOK, TakeEvent
<1>3. \A v \in Workers : worker'[v].pc \in {"build", "write", "enqueue"} => worker'[v].tx \in Tx
  <2> SUFFICES ASSUME NEW v \in Workers, worker'[v].pc \in {"build", "write", "enqueue"}
               PROVE  worker'[v].tx \in Tx
    OBVIOUS
  <2>1. v # w
    BY DEF TakeEvent, TypeOK, Handler, HandlerSteps, Idle
  <2> QED BY <2>1 DEF TakeEvent, TypeOK
<1> QED BY <1>2, <1>3, MapDeleteType
        DEF TypeOK, TakeEvent, inVars, outVars, storeVars, mainVars

LEMMA MainStepTypeOK == TypeOK /\ MainStep => TypeOK'
<1> SUFFICES ASSUME TypeOK, MainStep PROVE TypeOK'
  OBVIOUS
<1> USE DEF inVars, outVars, storeVars, mainVars, sharedVars
<1>1. CASE TickBusy
  BY <1>1, RotateType DEF TickBusy, TypeOK
<1>2. CASE TickFetch
  BY <1>2, RotateType, PutBlockType DEF TickFetch, TypeOK
<1>3. CASE Fetch
  BY <1>3 DEF Fetch, TypeOK, FilterDeposited
<1>4. CASE FetchLatestErr
  BY <1>4, ExitTypeOK DEF FetchLatestErr, Fatal, TypeOK
<1>5. CASE FetchFilterErr
  BY <1>5 DEF FetchFilterErr, TypeOK, FilterDeposited
<1>6. CASE FetchDone
  BY <1>6 DEF FetchDone, TypeOK
<1>7. ASSUME NEW e \in Events, HandleLog(e) PROVE TypeOK'
  <2>1. CASE HandleSkip(e)
    BY <2>1 DEF HandleSkip, TypeOK
  <2>2. CASE HandleNoPair(e)
    BY <2>2 DEF HandleNoPair, TypeOK
  <2>3. CASE HandlePanic(e)
    BY <2>3, ExitTypeOK DEF HandlePanic, Fatal, TypeOK
  <2>4. CASE HandleGet(e)
    <3>1. [ev |-> e, retry |-> db[e].retry] \in [ev : Events, retry : Nat]
      BY DEF TypeOK, StoredEvent
    <3>2. event' # NoEvent
      BY <2>4, ConstantsAssumption DEF HandleGet, NoEvent
    <3> QED BY <2>4, <3>1, <3>2 DEF HandleGet, TypeOK
  <2>5. CASE HandleGetErr(e)
    BY <2>5, HandleLogsErrTypeOK DEF HandleGetErr
  <2> QED BY <1>7, <2>1, <2>2, <2>3, <2>4, <2>5 DEF HandleLog
<1>8. CASE Enqueue
  BY <1>8 DEF Enqueue, TypeOK
<1>9. CASE EnqueueErr
  BY <1>9, HandleLogsErrTypeOK DEF EnqueueErr
<1>10. CASE HandleNonce
  <2>1. [nonce |-> nonce, ev |-> event.ev] \in Tx /\ nonce + 1 \in Nat
    BY <1>10 DEF HandleNonce, TypeOK, Tx
  <2> QED BY <1>10, <2>1 DEF HandleNonce, TypeOK
<1>11. CASE HandleWrite
  <2>1. cur \in Tx /\ event.retry \in Nat
    BY <1>11 DEF HandleWrite, TypeOK
  <2>2. /\ eventMap' \in [DOMAIN eventMap' -> Nat]
        /\ DOMAIN eventMap' \subseteq Tx
    BY <1>11, <2>1, MapPutType DEF HandleWrite
  <2> QED BY <1>11, <2>1, <2>2 DEF HandleWrite, TypeOK
<1>12. CASE HandleMintErr
  BY <1>12, HandleLogsErrTypeOK DEF HandleMintErr
<1> QED BY <1>1, <1>2, <1>3, <1>4, <1>5, <1>6, <1>7, <1>8, <1>9, <1>10, <1>11, <1>12
        DEF MainStep

LEMMA ReleaseType ==
    ASSUME TypeOK, NEW w \in Workers, Release(w)
    PROVE  /\ worker' \in [Workers -> {Idle} \cup
                   [pc : HandlerSteps, ev : Events, retry : Nat, tx : Tx \cup {NoTx}]]
           /\ \A v \in Workers :
                worker'[v].pc \in {"build", "write", "enqueue"} => worker'[v].tx \in Tx
BY DEF TypeOK, Release, Idle

LEMMA CloseStepTypeOK == TypeOK /\ CloseStep => TypeOK'
<1> SUFFICES ASSUME TypeOK, CloseStep PROVE TypeOK'
  OBVIOUS
<1> USE DEF inVars, outVars, storeVars, mainVars, sharedVars
<1>1. CASE CloseWait
  BY <1>1 DEF CloseWait, TypeOK
<1>2. CASE CloseCommitERC20
  BY <1>2, PutBlockType DEF CloseCommitERC20, TypeOK, Slots
<1>3. CASE CloseCommitNFT
  BY <1>3, PutBlockType DEF CloseCommitNFT, TypeOK, Slots
<1>4. CASE CloseExit
  BY <1>4, ExitTypeOK DEF CloseExit, Fatal, TypeOK
<1> QED BY <1>1, <1>2, <1>3, <1>4 DEF CloseStep

LEMMA WorkerStepTypeOK ==
    ASSUME TypeOK, NEW w \in Workers, WorkerStep(w)
    PROVE  TypeOK'
<1> USE DEF inVars, outVars, storeVars, mainVars, sharedVars
<1> DEFINE Busy == [pc : HandlerSteps, ev : Events, retry : Nat, tx : Tx \cup {NoTx}]
<1>0. worker[w].pc # "idle" => worker[w] \in Busy
  BY DEF TypeOK, Idle
<1>1. CASE Submit(w)
  BY <1>1 DEF Submit, TypeOK
<1>2. CASE SubmitErr(w)
  BY <1>2 DEF SubmitErr, TypeOK
<1>3. CASE ConfirmedHandler(w)
  <2>1. PICK t \in sent : TakeEvent(w, t, "succeeded", RetryOf(t))
    BY <1>3 DEF ConfirmedHandler
  <2> QED BY <2>1, RetryOfType, TakeEventTypeOK DEF TypeOK, HandlerSteps
<1>4. CASE TxFailed(w)
  <2>1. PICK t \in sent : \/ TakeEvent(w, t, "failed", RetryOf(t))
                          \/ TakeEvent(w, t, "retry", RetryOf(t) + 1)
    BY <1>4 DEF TxFailed
  <2>2. t \in Tx /\ RetryOf(t) \in Nat /\ RetryOf(t) + 1 \in Nat
    BY RetryOfType DEF TypeOK
  <2> QED BY <2>1, <2>2, TakeEventTypeOK DEF HandlerSteps
<1>5. CASE PollErr(w)
  <2>1. PICK t \in sent : TakeEvent(w, t, "failed", RetryOf(t))
    BY <1>5 DEF PollErr
  <2> QED BY <2>1, RetryOfType, TakeEventTypeOK DEF TypeOK, HandlerSteps
<1>6. ASSUME NEW step \in {"succeeded", "failed"}, NEW status \in {"SUCCEEDED", "FAILED"},
             StoreEvent(w, step, status)
      PROVE  TypeOK'
  <2>1. [status |-> status, retry |-> worker[w].retry] \in StoredEvent
    BY <1>0, <1>6 DEF StoreEvent, StoredEvent, Statuses
  <2> QED BY <1>6, <2>1, ReleaseType DEF StoreEvent, TypeOK
<1>7. CASE PutErr(w) \/ RetryEnqueueErr(w)
  BY <1>7, ReleaseType DEF PutErr, RetryEnqueueErr, TypeOK
<1>8. CASE RetryNonce(w)
  <2> DEFINE t == [nonce |-> nonce, ev |-> worker[w].ev]
             busy == [worker[w] EXCEPT !.pc = "build", !.tx = t]
  <2>1. worker[w] \in Busy /\ nonce \in Nat
    BY <1>0, <1>8 DEF RetryNonce, TypeOK
  <2>2. t \in Tx /\ busy \in Busy /\ busy.pc = "build" /\ busy.tx = t
    BY <2>1 DEF Tx, HandlerSteps
  <2>3. /\ worker' = [worker EXCEPT ![w] = busy]
        /\ nonce' \in Nat
        /\ UNCHANGED <<inVars, outVars, storeVars, mainVars, eventMap, queue, sent, outages>>
    <3>1. worker' = [worker EXCEPT ![w] = busy]
      BY <1>8, <2>1 DEF RetryNonce, TypeOK
    <3>2. /\ nonce' = nonce + 1
          /\ UNCHANGED <<inVars, outVars, storeVars, mainVars, eventMap, queue, sent, outages>>
      BY <1>8 DEF RetryNonce
    <3> QED BY <2>1, <3>1, <3>2
  <2>4. worker' \in [Workers -> {Idle} \cup Busy]
    BY <2>2, <2>3 DEF TypeOK
  <2>5. \A v \in Workers :
          worker'[v].pc \in {"build", "write", "enqueue"} => worker'[v].tx \in Tx
    BY <2>2, <2>3 DEF TypeOK
  <2> HIDE DEF t, busy
  <2> QED BY <2>3, <2>4, <2>5 DEF TypeOK
<1>9. ASSUME NEW from \in {"build", "write"}, NEW to \in {"write", "enqueue"},
             worker[w].pc = from, worker' = [worker EXCEPT ![w].pc = to],
             eventMap' \in [DOMAIN eventMap' -> Nat], DOMAIN eventMap' \subseteq Tx,
             UNCHANGED <<inVars, outVars, storeVars, mainVars, nonce, queue, sent, outages>>
      PROVE  TypeOK'
  <2> DEFINE busy == [worker[w] EXCEPT !.pc = to]
  <2>1. worker[w] \in Busy /\ worker[w].tx \in Tx
    BY <1>0, <1>9 DEF TypeOK
  <2>2. busy \in Busy /\ busy.tx \in Tx /\ worker' = [worker EXCEPT ![w] = busy]
    BY <1>9, <2>1 DEF HandlerSteps
  <2>3. worker' \in [Workers -> {Idle} \cup Busy]
    BY <2>2 DEF TypeOK
  <2>4. \A v \in Workers :
          worker'[v].pc \in {"build", "write", "enqueue"} => worker'[v].tx \in Tx
    BY <2>2 DEF TypeOK
  <2> HIDE DEF busy
  <2> QED BY <1>9, <2>3, <2>4 DEF TypeOK
<1>11. CASE RetryBuild(w)
  BY <1>9, <1>11 DEF RetryBuild, TypeOK
<1>12. CASE RetryWrite(w)
  <2>1. worker[w].tx \in Tx /\ worker[w].retry \in Nat
    BY <1>0, <1>12 DEF RetryWrite, TypeOK
  <2>2. eventMap' \in [DOMAIN eventMap' -> Nat] /\ DOMAIN eventMap' \subseteq Tx
    BY <1>12, <2>1, MapPutType DEF RetryWrite
  <2> QED BY <1>9, <1>12, <2>2 DEF RetryWrite
<1>13. CASE RetryErr(w)
  BY <1>13, ReleaseType DEF RetryErr, TypeOK
<1>10. CASE RetryEnqueue(w)
  BY <1>10, ReleaseType DEF RetryEnqueue, TypeOK
<1> QED BY <1>1, <1>2, <1>3, <1>4, <1>5, <1>6, <1>7, <1>8, <1>10, <1>11, <1>12, <1>13
        DEF WorkerStep, PutSucceeded, PutFailed

LEMMA MineOutTypeOK == TypeOK /\ MineOut => TypeOK'
<1> SUFFICES ASSUME TypeOK, MineOut PROVE TypeOK'
  OBVIOUS
<1>1. PICK t \in pool, ok \in BOOLEAN :
        /\ mined' = Append(mined, [ev |-> t.ev, ok |-> ok])
        /\ pool' = {u \in pool : u.nonce # t.nonce}
        /\ UNCHANGED <<inVars, storeVars, mainVars, sharedVars, outages>>
  BY DEF MineOut
<1>2. [ev |-> t.ev, ok |-> ok] \in [ev : Events, ok : BOOLEAN]
  BY DEF TypeOK, Tx
<1>3. mined' \in Seq([ev : Events, ok : BOOLEAN])
  BY <1>1, <1>2 DEF TypeOK
<1> QED BY <1>1, <1>3 DEF TypeOK, inVars, storeVars, mainVars, sharedVars

LEMMA NextTypeOK == TypeOK /\ [Next]_vars => TypeOK'
<1> SUFFICES ASSUME TypeOK, [Next]_vars PROVE TypeOK'
  OBVIOUS
<1> USE DEF inVars, outVars, storeVars, mainVars, sharedVars
<1>1. CASE MineIn
  BY <1>1 DEF MineIn, TypeOK
<1>2. CASE MineOut
  BY <1>2, MineOutTypeOK
<1>3. ASSUME NEW t \in Tokens, PairSet(t) PROVE TypeOK'
  <2>1. pair' \in [Tokens -> PairTypes]
    BY <1>3 DEF PairSet, TypeOK, PairTypes
  <2> QED BY <1>3, <2>1 DEF PairSet, TypeOK
<1>4. CASE Start
  <2>1. nonce' \in Nat
    BY <1>4 DEF Start, LatestNonce, TypeOK
  <2> QED BY <1>4, <2>1 DEF Start, TypeOK, Slots, SlotERC20
<1>5. CASE Crash
  <2>1. outages' \in Nat
    BY <1>5 DEF Crash, TypeOK
  <2> QED BY <1>5, <2>1, ExitTypeOK DEF Crash
<1>6. CASE Signal
  BY <1>6 DEF Signal, TypeOK
<1>7. CASE MainStep
  BY <1>7, MainStepTypeOK
<1>8. CASE CloseStep
  BY <1>8, CloseStepTypeOK
<1>9. ASSUME NEW w \in Workers, WorkerStep(w) PROVE TypeOK'
  BY <1>9, WorkerStepTypeOK
<1>10. CASE UNCHANGED vars
  BY <1>10 DEF vars, TypeOK
<1> QED BY <1>1, <1>2, <1>3, <1>4, <1>5, <1>6, <1>7, <1>8, <1>9, <1>10 DEF Next

(* Every reachable state of the daemon, its store and the chains is of the *)
(* types its declarations give, and an enqueue always has a transaction.   *)
THEOREM TypeCorrect == Spec => []TypeOK
BY InitTypeOK, NextTypeOK, PTL DEF Spec

(***************************************************************************)
(* Transactions on their way to the confirmer.  A transaction is named by  *)
(* a fresh nonce, so at any moment it is in one hand only: the main        *)
(* goroutine's, one worker's, the queue or the set of those polled.  From  *)
(* its map entry on, its event is in the map.                              *)
(***************************************************************************)
InTransit == queue \cup sent
Making(w) == worker[w].pc \in {"build", "write"}
Enqueues(w) == worker[w].pc = "enqueue"
Sends(w) == Making(w) \/ Enqueues(w)
MainSends == pc \in {"build", "enqueue"}

Unwritten(t) == t \notin DOMAIN eventMap /\ t.nonce < nonce
Written(t) == t \in DOMAIN eventMap \ InTransit

OneHand ==
    /\ InTransit \subseteq DOMAIN eventMap
    /\ queue \cap sent = {}
    /\ pc = "build" => Unwritten(cur)
    /\ pc = "enqueue" => Written(cur)
    /\ \A w \in Workers : Making(w) => Unwritten(worker[w].tx)
    /\ \A w \in Workers : Enqueues(w) => Written(worker[w].tx)
    /\ \A w \in Workers : MainSends /\ Sends(w) => worker[w].tx # cur
    /\ \A v, w \in Workers : Sends(v) /\ Sends(w) /\ v # w => worker[v].tx # worker[w].tx
    /\ \A h \in DOMAIN eventMap : h.nonce < nonce

NoProcess ==
    pc = "down" => DOMAIN eventMap = {} /\ \A w \in Workers : worker[w] = Idle

HandInv == TypeOK /\ OneHand /\ NoProcess

LEMMA InitHandInv == Init => HandInv
BY InitTypeOK, EmptyMapType
   DEF Init, HandInv, OneHand, NoProcess, InTransit, Making, Enqueues, Sends, MainSends, Idle

LEMMA ExitHandInv == Exit => OneHand' /\ NoProcess'
BY EmptyMapType
   DEF Exit, OneHand, NoProcess, InTransit, Making, Enqueues, Sends, MainSends, Idle

(* Steps that touch no transaction in transit.                             *)
LEMMA FrameHandInv ==
    ASSUME HandInv, UNCHANGED <<eventMap, nonce, queue, sent, worker>>,
           UNCHANGED <<pc, cur>> \/ pc' \notin {"build", "enqueue", "down"}
    PROVE  OneHand' /\ NoProcess'
BY DEF HandInv, OneHand, NoProcess, InTransit, Making, Enqueues, Sends, MainSends,
       Unwritten, Written

LEMMA ReleaseHandInv ==
    ASSUME HandInv, NEW w \in Workers, Release(w),
           UNCHANGED <<eventMap, nonce, queue, sent, pc, cur>>
    PROVE  OneHand' /\ NoProcess'
<1>1. \A v \in Workers : worker'[v] = IF v = w THEN Idle ELSE worker[v]
  BY DEF HandInv, TypeOK, Release
<1>2. \A v \in Workers : /\ Making(v)' => Making(v) /\ worker'[v].tx = worker[v].tx
                         /\ Enqueues(v)' => Enqueues(v) /\ worker'[v].tx = worker[v].tx
  BY <1>1 DEF Making, Enqueues, Idle
<1>3. NoProcess'
  BY <1>1 DEF HandInv, NoProcess
<1>4. OneHand'
  BY <1>2 DEF HandInv, OneHand, InTransit, Sends, MainSends, Unwritten, Written
<1> QED BY <1>3, <1>4

LEMMA TakeEventHandInv ==
    ASSUME HandInv, NEW w \in Workers, NEW t \in sent, NEW step,
           step \notin {"build", "write", "enqueue"},
           NEW r, worker[w] = Idle, TakeEvent(w, t, step, r)
    PROVE  OneHand' /\ NoProcess'
<1>1. DOMAIN eventMap' = DOMAIN eventMap \ {t} /\ sent' = sent \ {t} /\ queue' = queue
  BY MapDeleteType DEF HandInv, TakeEvent
<1>2. /\ \A v \in Workers : v # w => worker'[v] = worker[v]
      /\ worker'[w].pc \notin {"build", "write", "enqueue"}
  BY DEF HandInv, TypeOK, TakeEvent, Handler, Idle
<1>3. UNCHANGED <<pc, cur, nonce>> /\ pc # "down"
  BY DEF HandInv, OneHand, NoProcess, InTransit, TakeEvent, mainVars
<1>4. \A v \in Workers : /\ Making(v)' => Making(v) /\ worker'[v].tx = worker[v].tx
                         /\ Enqueues(v)' => Enqueues(v) /\ worker'[v].tx = worker[v].tx
  BY <1>2 DEF Making, Enqueues
<1>5. NoProcess'
  BY <1>3 DEF NoProcess
<1>6. OneHand'
  BY <1>1, <1>3, <1>4
     DEF HandInv, OneHand, InTransit, Sends, MainSends, Unwritten, Written
<1> QED BY <1>5, <1>6

(* A new transaction: its nonce is above every nonce given out.            *)
LEMMA FreshTx ==
    ASSUME HandInv, NEW e \in Events, NEW t, t = [nonce |-> nonce, ev |-> e]
    PROVE  /\ t \in Tx
           /\ t \notin DOMAIN eventMap /\ t.nonce < nonce + 1
           /\ \A u \in Tx : u.nonce < nonce => u # t /\ u.nonce < nonce + 1
           /\ MainSends => cur \in Tx /\ cur.nonce < nonce
           /\ \A w \in Workers : Sends(w) => worker[w].tx \in Tx /\ worker[w].tx.nonce < nonce
<1>1. nonce \in Nat /\ DOMAIN eventMap \subseteq Tx
  BY DEF HandInv, TypeOK
<1>2. MainSends => cur \in Tx /\ cur.nonce < nonce
  BY DEF HandInv, TypeOK, OneHand, MainSends, Unwritten, Written
<1>3. \A w \in Workers : Sends(w) => worker[w].tx \in Tx /\ worker[w].tx.nonce < nonce
  BY DEF HandInv, TypeOK, OneHand, Sends, Making, Enqueues, Unwritten, Written
<1>4. \A h \in DOMAIN eventMap : h.nonce < nonce
  BY DEF HandInv, OneHand
<1>5. t \in Tx /\ t.nonce = nonce
  BY <1>1 DEF Tx
<1>6. \A u \in Tx : u.nonce \in Nat
  BY DEF Tx
<1>7. \A u \in Tx : u.nonce < nonce => u # t /\ u.nonce < nonce + 1
  BY <1>1, <1>5, <1>6
<1>8. t \notin DOMAIN eventMap
  BY <1>1, <1>4, <1>7
<1> QED BY <1>1, <1>2, <1>3, <1>5, <1>7, <1>8

LEMMA HandleLogsErrHandInv ==
    ASSUME HandInv, HandleLogsErr
    PROVE  OneHand' /\ NoProcess'
<1>1. CASE Fatal
  BY <1>1, ExitHandInv DEF Fatal
<1>2. CASE ~Fatal
  BY <1>2, FrameHandInv DEF HandleLogsErr, sharedVars
<1> QED BY <1>1, <1>2

LEMMA HandleLogHandInv ==
    ASSUME HandInv, NEW e \in Events, HandleLog(e)
    PROVE  OneHand' /\ NoProcess'
<1>1. CASE HandleSkip(e) \/ HandleNoPair(e) \/ HandleGet(e)
  BY <1>1, FrameHandInv DEF HandleSkip, HandleNoPair, HandleGet, sharedVars
<1>2. CASE HandlePanic(e)
  BY <1>2, ExitHandInv DEF HandlePanic, Fatal
<1>3. CASE HandleGetErr(e)
  BY <1>3, HandleLogsErrHandInv DEF HandleGetErr
<1> QED BY <1>1, <1>2, <1>3 DEF HandleLog

LEMMA HandleNonceHandInv ==
    ASSUME HandInv, HandleNonce
    PROVE  OneHand' /\ NoProcess'
<1>1. event.ev \in Events
  BY DEF HandleNonce, HandInv, TypeOK
<1>2. PICK t : t = [nonce |-> nonce, ev |-> event.ev]
  OBVIOUS
<1>3. /\ pc = "mint" /\ pc' = "build" /\ cur' = t /\ nonce' = nonce + 1
      /\ UNCHANGED <<eventMap, queue, sent, worker>>
  BY <1>2 DEF HandleNonce
<1>4. DOMAIN eventMap \subseteq Tx
  BY DEF HandInv, TypeOK
<1>5. NoProcess'
  BY <1>3 DEF NoProcess
<1>6. OneHand'
  BY <1>1, <1>2, <1>3, <1>4, FreshTx
     DEF HandInv, OneHand, InTransit, Making, Enqueues, Sends, MainSends, Unwritten, Written
<1> QED BY <1>5, <1>6

LEMMA HandleWriteHandInv ==
    ASSUME HandInv, HandleWrite
    PROVE  OneHand' /\ NoProcess'
<1>1. cur \in Tx /\ event.retry \in Nat
  BY DEF HandleWrite, HandInv, TypeOK
<1>2. DOMAIN eventMap' = DOMAIN eventMap \cup {cur}
  BY <1>1, MapPutType DEF HandInv, HandleWrite
<1>3. /\ pc = "build" /\ pc' = "enqueue"
      /\ UNCHANGED <<cur, nonce, queue, sent, worker>>
  BY DEF HandleWrite
<1>4. NoProcess'
  BY <1>3 DEF NoProcess
<1>5. OneHand'
  BY <1>2, <1>3
     DEF HandInv, OneHand, InTransit, Making, Enqueues, Sends, MainSends, Unwritten, Written
<1> QED BY <1>4, <1>5

LEMMA MainStepHandInv == HandInv /\ MainStep => OneHand' /\ NoProcess'
<1> SUFFICES ASSUME HandInv, MainStep PROVE OneHand' /\ NoProcess'
  OBVIOUS
<1>1. CASE TickBusy
  BY <1>1, FrameHandInv DEF TickBusy, sharedVars
<1>2. CASE TickFetch
  BY <1>2, FrameHandInv DEF TickFetch, sharedVars
<1>3. CASE Fetch \/ FetchFilterErr \/ FetchDone
  BY <1>3, FrameHandInv DEF Fetch, FetchFilterErr, FetchDone, sharedVars
<1>4. CASE FetchLatestErr
  BY <1>4, ExitHandInv DEF FetchLatestErr, Fatal
<1>5. CASE Enqueue
  <2>1. /\ pc = "enqueue" /\ pc' = "logs"
        /\ queue' = queue \cup {cur}
        /\ UNCHANGED <<eventMap, nonce, sent, worker>>
    BY <1>5 DEF Enqueue
  <2>2. NoProcess'
    BY <2>1 DEF NoProcess
  <2>3. OneHand'
    BY <2>1
       DEF HandInv, OneHand, InTransit, Making, Enqueues, Sends, MainSends, Unwritten, Written
  <2> QED BY <2>2, <2>3
<1>6. CASE HandleMintErr \/ EnqueueErr
  BY <1>6, HandleLogsErrHandInv DEF HandleMintErr, EnqueueErr
<1> QED BY <1>1, <1>2, <1>3, <1>4, <1>5, <1>6, HandleLogHandInv, HandleNonceHandInv,
           HandleWriteHandInv
        DEF MainStep

(* The three steps of a retry from its nonce to its map entry.             *)
LEMMA RetryMakeHandInv ==
    ASSUME HandInv, NEW w \in Workers, RetryNonce(w) \/ RetryBuild(w) \/ RetryWrite(w)
    PROVE  OneHand' /\ NoProcess'
<1>0. /\ \A v \in Workers : v # w => worker'[v] = worker[v]
      /\ UNCHANGED <<pc, cur, queue, sent>>
  BY DEF RetryNonce, RetryBuild, RetryWrite, HandInv, TypeOK, mainVars
<1>1. NoProcess'
  <2>1. pc # "down"
    BY DEF RetryNonce, RetryBuild, RetryWrite, HandInv, NoProcess, Idle
  <2> QED BY <1>0, <2>1 DEF NoProcess
<1>2. CASE RetryNonce(w)
  <2>1. worker[w].pc = "retry" /\ worker[w].ev \in Events
    BY <1>2 DEF RetryNonce, HandInv, TypeOK, Idle
  <2>2. PICK t : t = [nonce |-> nonce, ev |-> worker[w].ev]
    OBVIOUS
  <2>3. /\ worker'[w].pc = "build" /\ worker'[w].tx = t
        /\ nonce' = nonce + 1 /\ eventMap' = eventMap
    BY <1>2, <2>1, <2>2 DEF RetryNonce, HandInv, TypeOK, Idle
  <2>4. DOMAIN eventMap \subseteq Tx
    BY DEF HandInv, TypeOK
  <2>5. OneHand'
    BY <1>0, <2>1, <2>2, <2>3, <2>4, FreshTx
       DEF HandInv, OneHand, InTransit, Making, Enqueues, Sends, MainSends, Unwritten, Written
  <2> QED BY <1>1, <2>5
<1>3. CASE RetryBuild(w)
  <2>1. /\ worker[w].pc = "build" /\ worker'[w].pc = "write" /\ worker'[w].tx = worker[w].tx
        /\ UNCHANGED <<nonce, eventMap>>
    BY <1>3 DEF RetryBuild, HandInv, TypeOK, Idle
  <2>2. OneHand'
    BY <1>0, <2>1
       DEF HandInv, OneHand, InTransit, Making, Enqueues, Sends, MainSends, Unwritten, Written
  <2> QED BY <1>1, <2>2
<1>4. CASE RetryWrite(w)
  <2>1. worker[w].pc = "write" /\ worker[w].tx \in Tx /\ worker[w].retry \in Nat
    BY <1>4 DEF RetryWrite, HandInv, TypeOK, Idle
  <2>2. DOMAIN eventMap' = DOMAIN eventMap \cup {worker[w].tx}
    BY <1>4, <2>1, MapPutType DEF HandInv, RetryWrite
  <2>3. worker'[w].pc = "enqueue" /\ worker'[w].tx = worker[w].tx /\ nonce' = nonce
    BY <1>4 DEF RetryWrite, HandInv, TypeOK, Idle
  <2>4. OneHand'
    BY <1>0, <2>1, <2>2, <2>3
       DEF HandInv, OneHand, InTransit, Making, Enqueues, Sends, MainSends, Unwritten, Written
  <2> QED BY <1>1, <2>4
<1> QED BY <1>2, <1>3, <1>4

LEMMA WorkerStepHandInv ==
    ASSUME HandInv, NEW w \in Workers, WorkerStep(w)
    PROVE  OneHand' /\ NoProcess'
<1>1. CASE Submit(w)
  <2>1. PICK t \in queue : queue' = queue \ {t} /\ sent' = sent \cup {t}
    BY <1>1 DEF Submit
  <2>2. UNCHANGED <<pc, cur, eventMap, nonce, worker>>
    BY <1>1 DEF Submit, mainVars
  <2> QED BY <2>1, <2>2
          DEF HandInv, OneHand, NoProcess, InTransit, Making, Enqueues, Sends, MainSends,
              Unwritten, Written
<1>2. CASE SubmitErr(w)
  <2>1. PICK t \in queue : queue' = queue \ {t}
    BY <1>2 DEF SubmitErr
  <2>2. UNCHANGED <<pc, cur, eventMap, nonce, sent, worker>>
    BY <1>2 DEF SubmitErr, mainVars
  <2> QED BY <2>1, <2>2
          DEF HandInv, OneHand, NoProcess, InTransit, Making, Enqueues, Sends, MainSends,
              Unwritten, Written
<1>3. CASE ConfirmedHandler(w) \/ TxFailed(w) \/ PollErr(w)
  BY <1>3, TakeEventHandInv DEF ConfirmedHandler, TxFailed, PollErr
<1>4. CASE PutSucceeded(w) \/ PutFailed(w) \/ PutErr(w) \/ RetryErr(w) \/ RetryEnqueueErr(w)
  BY <1>4, ReleaseHandInv
     DEF PutSucceeded, PutFailed, StoreEvent, PutErr, RetryErr, RetryEnqueueErr, mainVars
<1>5. CASE RetryEnqueue(w)
  <2>1. /\ worker[w].pc = "enqueue"
        /\ queue' = queue \cup {worker[w].tx}
        /\ \A v \in Workers : worker'[v] = IF v = w THEN Idle ELSE worker[v]
        /\ UNCHANGED <<pc, cur, eventMap, nonce, sent>>
    BY <1>5 DEF RetryEnqueue, Release, HandInv, TypeOK, mainVars
  <2>2. \A v \in Workers :
          /\ Making(v)' => Making(v) /\ v # w /\ worker'[v].tx = worker[v].tx
          /\ Enqueues(v)' => Enqueues(v) /\ v # w /\ worker'[v].tx = worker[v].tx
    BY <2>1 DEF Making, Enqueues, Idle
  <2>3. NoProcess'
    BY <2>1 DEF HandInv, NoProcess
  <2>4. Enqueues(w)
    BY <2>1 DEF Enqueues
  <2>5. OneHand'
    BY <2>1, <2>2, <2>4
       DEF HandInv, OneHand, InTransit, Sends, MainSends, Unwritten, Written
  <2> QED BY <2>3, <2>5
<1> QED BY <1>1, <1>2, <1>3, <1>4, <1>5, RetryMakeHandInv DEF WorkerStep

LEMMA NextHandInv == HandInv /\ [Next]_vars => HandInv'
<1> SUFFICES ASSUME HandInv, [Next]_vars PROVE OneHand' /\ NoProcess'
  BY NextTypeOK DEF HandInv
<1>1. CASE MineIn \/ MineOut \/ UNCHANGED vars
  BY <1>1, FrameHandInv DEF MineIn, MineOut, vars, mainVars, sharedVars
<1>2. ASSUME NEW t \in Tokens, PairSet(t) PROVE OneHand' /\ NoProcess'
  BY <1>2, FrameHandInv DEF PairSet, mainVars, sharedVars
<1>3. CASE Start
  <2>1. pc = "down" /\ pc' = "idle" /\ UNCHANGED <<eventMap, queue, sent, worker>>
    BY <1>3 DEF Start
  <2> QED BY <2>1
          DEF HandInv, OneHand, NoProcess, InTransit, Making, Enqueues, Sends, MainSends, Idle
<1>4. CASE Crash \/ CloseExit
  BY <1>4, ExitHandInv DEF Crash, CloseExit, Fatal
<1>5. CASE Signal \/ CloseWait \/ CloseCommitERC20 \/ CloseCommitNFT
  BY <1>5, FrameHandInv
     DEF Signal, CloseWait, CloseCommitERC20, CloseCommitNFT, sharedVars
<1> QED BY <1>1, <1>2, <1>3, <1>4, <1>5, MainStepHandInv, WorkerStepHandInv
        DEF Next, CloseStep

(* In every instance, under every fault, the confirmer never calls back    *)
(* about a transaction whose event the map does not hold.                  *)
THEOREM CallbacksHaveEvents == Spec => []CallbacksFindTheirEvent
<1>1. HandInv => CallbacksFindTheirEvent
  BY DEF HandInv, OneHand, InTransit, CallbacksFindTheirEvent
<1> QED BY <1>1, InitHandInv, NextHandInv, PTL DEF Spec

(***************************************************************************)
(* Records and receipts.                                                   *)
(***************************************************************************)
SucceededInv ==
    /\ TypeOK
    /\ SucceededIsMinted
    /\ \A w \in Workers : worker[w].pc = "succeeded" => Minted(worker[w].ev)

(* A mined transaction stays mined.                                        *)
LEMMA MinedStep ==
    ASSUME [Next]_vars
    PROVE  UNCHANGED mined \/ \E r : mined' = Append(mined, r)
BY DEF Next, MineIn, MineOut, PairSet, Start, Crash, Exit, Fatal, Signal, MainStep,
     TickBusy, TickFetch, Fetch, FetchLatestErr, FetchFilterErr, FetchDone, HandleLog,
     HandleSkip, HandleNoPair, HandlePanic, HandleGet, HandleNonce, HandleWrite,
     HandleGetErr, HandleMintErr, HandleLogsErr, Enqueue, EnqueueErr, CloseStep,
     CloseWait, CloseCommitERC20, CloseCommitNFT, CloseExit, WorkerStep, Submit,
     SubmitErr, ConfirmedHandler, TxFailed, PollErr, TakeEvent, PutSucceeded, PutFailed,
     StoreEvent, PutErr, RetryNonce, RetryBuild, RetryWrite, RetryErr, RetryEnqueue,
     RetryEnqueueErr, vars, inVars, outVars, storeVars, mainVars, sharedVars

(* Only the two handlers that record an outcome write an event.            *)
LEMMA DbStep ==
    ASSUME [Next]_vars
    PROVE  UNCHANGED db \/ \E w \in Workers : PutSucceeded(w) \/ PutFailed(w)
BY DEF Next, MineIn, MineOut, PairSet, Start, Crash, Exit, Fatal, Signal, MainStep,
     TickBusy, TickFetch, Fetch, FetchLatestErr, FetchFilterErr, FetchDone, HandleLog,
     HandleSkip, HandleNoPair, HandlePanic, HandleGet, HandleNonce, HandleWrite,
     HandleGetErr, HandleMintErr, HandleLogsErr, Enqueue, EnqueueErr, CloseStep,
     CloseWait, CloseCommitERC20, CloseCommitNFT, CloseExit, WorkerStep, Submit,
     SubmitErr, ConfirmedHandler, TxFailed, PollErr, TakeEvent, PutErr, RetryNonce,
     RetryBuild, RetryWrite, RetryErr, RetryEnqueue, RetryEnqueueErr, vars, inVars,
     outVars, storeVars, mainVars, sharedVars

(* A worker changes hands in its own steps only, or dies with the process. *)
LEMMA WorkerChange ==
    ASSUME [Next]_vars
    PROVE  UNCHANGED worker \/ Exit \/ \E w \in Workers : WorkerStep(w)
BY DEF Next, MineIn, MineOut, PairSet, Start, Crash, Fatal, Signal, MainStep, TickBusy,
     TickFetch, Fetch, FetchLatestErr, FetchFilterErr, FetchDone, HandleLog, HandleSkip,
     HandleNoPair, HandlePanic, HandleGet, HandleNonce, HandleWrite, HandleGetErr,
     HandleMintErr, HandleLogsErr, Enqueue, EnqueueErr, CloseStep, CloseWait,
     CloseCommitERC20, CloseCommitNFT, CloseExit, vars, inVars, outVars, storeVars,
     mainVars, sharedVars

LEMMA MintedStays ==
    ASSUME TypeOK, [Next]_vars, NEW e, Minted(e)
    PROVE  Minted(e)'
<1>1. CASE UNCHANGED mined
  BY <1>1 DEF Minted
<1>2. ASSUME NEW r, mined' = Append(mined, r) PROVE Minted(e)'
  <2>1. mined \in Seq([ev : Events, ok : BOOLEAN])
    BY DEF TypeOK
  <2>2. PICK i \in 1..Len(mined) : mined[i] = [ev |-> e, ok |-> TRUE]
    BY DEF Minted
  <2>3. i \in 1..Len(mined') /\ mined'[i] = mined[i]
    BY <1>2, <2>1, <2>2
  <2> QED BY <2>2, <2>3 DEF Minted
<1> QED BY <1>1, <1>2, MinedStep

LEMMA MinedAsMinted ==
    ASSUME TypeOK, NEW t \in Tx, MinedAs(t, TRUE)
    PROVE  Minted(t.ev)
<1>1. t.nonce + 1 \in 1..Len(mined)
  BY DEF TypeOK, Tx, MinedAs
<1> QED BY <1>1 DEF MinedAs, Minted

(* What a worker is left with by one of its steps.                         *)
LEMMA SucceededWorker ==
    ASSUME TypeOK, NEW w \in Workers, WorkerStep(w), NEW v \in Workers,
           worker'[v].pc = "succeeded"
    PROVE  \/ worker'[v] = worker[v]
           \/ Minted(worker'[v].ev)
<1>1. CASE v # w
  BY <1>1 DEF TypeOK, WorkerStep, Submit, SubmitErr, ConfirmedHandler, TxFailed,
       PollErr, TakeEvent, PutSucceeded, PutFailed, StoreEvent, PutErr, Release,
       RetryNonce, RetryBuild, RetryWrite, RetryErr, RetryEnqueue, RetryEnqueueErr
<1>2. CASE v = w /\ ConfirmedHandler(w)
  <2>1. PICK t \in sent : MinedAs(t, TRUE) /\ TakeEvent(w, t, "succeeded", RetryOf(t))
    BY <1>2 DEF ConfirmedHandler
  <2>2. worker'[v].ev = t.ev
    BY <1>2, <2>1 DEF TypeOK, TakeEvent, Handler, Idle
  <2> QED BY <2>1, <2>2, MinedAsMinted DEF TypeOK
<1>3. CASE v = w /\ (Submit(w) \/ SubmitErr(w))
  BY <1>3 DEF Submit, SubmitErr
<1>4. CASE v = w /\ (TxFailed(w) \/ PollErr(w))
  <2>1. PICK t \in sent, step \in {"failed", "retry"} :
          TakeEvent(w, t, step, RetryOf(t)) \/ TakeEvent(w, t, step, RetryOf(t) + 1)
    BY <1>4 DEF TxFailed, PollErr
  <2>2. worker'[w].pc \in {step, "idle"}
    BY <2>1 DEF TypeOK, TakeEvent, Handler, Idle
  <2> QED BY <1>4, <2>2
<1>5. CASE v = w /\ (PutSucceeded(w) \/ PutFailed(w) \/ PutErr(w) \/ RetryErr(w)
                     \/ RetryEnqueue(w) \/ RetryEnqueueErr(w))
  BY <1>5 DEF TypeOK, PutSucceeded, PutFailed, StoreEvent, PutErr, RetryErr, RetryEnqueue,
       RetryEnqueueErr, Release, Idle
<1>6. CASE v = w /\ (RetryNonce(w) \/ RetryBuild(w) \/ RetryWrite(w))
  <2>1. worker'[w].pc \in {"build", "write", "enqueue"}
    BY <1>6 DEF TypeOK, RetryNonce, RetryBuild, RetryWrite, Idle
  <2> QED BY <1>6, <2>1
<1> QED BY <1>1, <1>2, <1>3, <1>4, <1>5, <1>6 DEF WorkerStep

LEMMA NextSucceededInv == SucceededInv /\ [Next]_vars => SucceededInv'
<1> SUFFICES ASSUME SucceededInv, [Next]_vars PROVE SucceededInv'
  OBVIOUS
<1>1. TypeOK /\ TypeOK'
  BY NextTypeOK DEF SucceededInv
<1>2. \A w \in Workers : worker'[w].pc = "succeeded" => Minted(worker[w].ev)'
  <2> SUFFICES ASSUME NEW v \in Workers, worker'[v].pc = "succeeded"
               PROVE  Minted(worker[v].ev)'
    OBVIOUS
  <2>1. PICK e : e = worker'[v].ev
    OBVIOUS
  <2>2. Minted(e)
    <3>1. CASE worker'[v] = worker[v]
      BY <2>1, <3>1 DEF SucceededInv
    <3>2. CASE Exit
      BY <3>2 DEF Exit, Idle
    <3>3. ASSUME NEW w \in Workers, WorkerStep(w), worker'[v] # worker[v] PROVE Minted(e)
      BY <1>1, <2>1, <3>3, SucceededWorker
    <3> QED BY <3>1, <3>2, <3>3, WorkerChange
  <2>3. Minted(e)'
    BY <1>1, <2>2, MintedStays
  <2> QED BY <2>1, <2>3 DEF Minted
<1>3. SucceededIsMinted'
  <2> SUFFICES ASSUME NEW e \in Events, db'[e].status = "SUCCEEDED" PROVE Minted(e)'
    BY DEF SucceededIsMinted
  <2>1. CASE db'[e] = db[e]
    BY <1>1, <2>1, MintedStays DEF SucceededInv, SucceededIsMinted
  <2>2. ASSUME NEW w \in Workers, PutSucceeded(w), db'[e] # db[e] PROVE Minted(e)'
    <3>1. worker[w].pc = "succeeded" /\ e = worker[w].ev
      BY <1>1, <2>2 DEF PutSucceeded, StoreEvent, TypeOK
    <3> QED BY <1>1, <3>1, MintedStays DEF SucceededInv
  <2>3. ASSUME NEW w \in Workers, PutFailed(w), db'[e] # db[e] PROVE FALSE
    BY <1>1, <2>3 DEF PutFailed, StoreEvent, TypeOK
  <2> QED BY <2>1, <2>2, <2>3, DbStep
<1> QED BY <1>1, <1>2, <1>3 DEF SucceededInv

(* Under every fault, no deposit is recorded as SUCCEEDED without a mint   *)
(* of it mined with status 1.                                              *)
THEOREM SucceededMeansMinted == Spec => []SucceededIsMinted
<1>1. Init => SucceededInv
  BY InitTypeOK DEF Init, SucceededInv, SucceededIsMinted, Idle
<1>2. SucceededInv => SucceededIsMinted
  BY DEF SucceededInv
<1> QED BY <1>1, <1>2, NextSucceededInv, PTL DEF Spec

(***************************************************************************)
(* Settled deposits.                                                       *)
(***************************************************************************)

(* A transaction without its map entry yet mints the event in hand.        *)
OwnEvent ==
    /\ pc = "build" => cur.ev = event.ev
    /\ \A w \in Workers : Making(w) => worker[w].tx.ev = worker[w].ev

LEMMA BuildStep ==
    ASSUME [Next]_vars, pc' = "build"
    PROVE  HandleNonce \/ UNCHANGED <<pc, event, cur>>
BY DEF Next, MineIn, MineOut, PairSet, Start, Crash, Exit, Fatal, Signal, MainStep,
     TickBusy, TickFetch, Fetch, FetchLatestErr, FetchFilterErr, FetchDone, HandleLog,
     HandleSkip, HandleNoPair, HandlePanic, HandleGet, HandleWrite, HandleGetErr,
     HandleMintErr, HandleLogsErr, Enqueue, EnqueueErr, CloseStep, CloseWait,
     CloseCommitERC20, CloseCommitNFT, CloseExit, WorkerStep, Submit, SubmitErr,
     ConfirmedHandler, TxFailed, PollErr, TakeEvent, PutSucceeded, PutFailed, StoreEvent,
     PutErr, RetryNonce, RetryBuild, RetryWrite, RetryErr, RetryEnqueue, RetryEnqueueErr,
     vars, inVars, outVars, storeVars, mainVars, sharedVars

LEMMA MakingStep ==
    ASSUME TypeOK, NEW w \in Workers, WorkerStep(w), NEW v \in Workers, Making(v)'
    PROVE  \/ worker'[v] = worker[v]
           \/ v = w /\ (RetryNonce(w) \/ RetryBuild(w))
<1>1. CASE v # w
  BY <1>1 DEF TypeOK, WorkerStep, Submit, SubmitErr, ConfirmedHandler, TxFailed, PollErr,
       TakeEvent, PutSucceeded, PutFailed, StoreEvent, PutErr, Release, RetryNonce,
       RetryBuild, RetryWrite, RetryErr, RetryEnqueue, RetryEnqueueErr
<1>2. CASE v = w /\ (ConfirmedHandler(w) \/ TxFailed(w) \/ PollErr(w))
  <2>1. PICK t \in sent, step \in {"succeeded", "failed", "retry"} :
          TakeEvent(w, t, step, RetryOf(t)) \/ TakeEvent(w, t, step, RetryOf(t) + 1)
    BY <1>2 DEF ConfirmedHandler, TxFailed, PollErr
  <2>2. worker'[w].pc \in {step, "idle"}
    BY <2>1 DEF TypeOK, TakeEvent, Handler, Idle
  <2> QED BY <1>2, <2>2 DEF Making
<1>3. CASE v = w /\ (Submit(w) \/ SubmitErr(w))
  BY <1>3 DEF Submit, SubmitErr
<1>4. CASE v = w /\ (PutSucceeded(w) \/ PutFailed(w) \/ PutErr(w) \/ RetryErr(w)
                     \/ RetryEnqueue(w) \/ RetryEnqueueErr(w))
  BY <1>4 DEF TypeOK, PutSucceeded, PutFailed, StoreEvent, PutErr, RetryErr, RetryEnqueue,
       RetryEnqueueErr, Release, Idle, Making
<1>5. CASE v = w /\ RetryWrite(w)
  BY <1>5 DEF TypeOK, RetryWrite, Making, Idle
<1> QED BY <1>1, <1>2, <1>3, <1>4, <1>5 DEF WorkerStep

LEMMA OwnEventStep ==
    ASSUME TypeOK, OwnEvent, [Next]_vars
    PROVE  OwnEvent'
<1>1. ASSUME pc' = "build" PROVE cur'.ev = event'.ev
  BY <1>1, BuildStep DEF HandleNonce, OwnEvent
<1>2. ASSUME NEW v \in Workers, Making(v)' PROVE worker'[v].tx.ev = worker'[v].ev
  <2>1. CASE worker'[v] = worker[v]
    BY <1>2, <2>1 DEF OwnEvent, Making
  <2>2. CASE Exit
    BY <1>2, <2>2 DEF Exit, Making, Idle
  <2>3. CASE RetryNonce(v)
    BY <2>3 DEF RetryNonce, TypeOK, Idle
  <2>4. CASE RetryBuild(v)
    BY <2>4 DEF RetryBuild, TypeOK, Idle, OwnEvent, Making
  <2> QED BY <1>2, <2>1, <2>2, <2>3, <2>4, MakingStep, WorkerChange
<1> QED BY <1>1, <1>2 DEF OwnEvent

(* Where a map gets an entry, and a goroutine its event: handleLogs takes   *)
(* up a log that is not recorded as SUCCEEDED, and send writes the event   *)
(* that the main goroutine or the worker has in hand.                      *)
LEMMA SettledWorkerStep ==
    ASSUME TypeOK, OwnEvent, NEW w \in Workers, WorkerStep(w)
    PROVE  /\ \A h \in DOMAIN eventMap' : h \in DOMAIN eventMap \/ h.ev = worker[w].ev
           /\ \A v \in Workers : \/ worker'[v].ev \in {worker[v].ev, 0}
                                 \/ \E h \in DOMAIN eventMap : worker'[v].ev = h.ev
           /\ UNCHANGED event
<1>1. \A h \in DOMAIN eventMap' : h \in DOMAIN eventMap \/ h.ev = worker[w].ev
  <2>1. CASE RetryWrite(w)
    BY <2>1 DEF RetryWrite, MapPut, OwnEvent, Making
  <2>2. CASE ConfirmedHandler(w) \/ TxFailed(w) \/ PollErr(w)
    BY <2>2 DEF ConfirmedHandler, TxFailed, PollErr, TakeEvent, MapDelete
  <2>3. CASE ~(RetryWrite(w) \/ ConfirmedHandler(w) \/ TxFailed(w) \/ PollErr(w))
    BY <2>3 DEF WorkerStep, Submit, SubmitErr, PutSucceeded, PutFailed, StoreEvent,
         PutErr, RetryNonce, RetryBuild, RetryErr, RetryEnqueue, RetryEnqueueErr
  <2> QED BY <2>1, <2>2, <2>3
<1>2. \A v \in Workers : \/ worker'[v].ev \in {worker[v].ev, 0}
                         \/ \E h \in DOMAIN eventMap : worker'[v].ev = h.ev
  <2>1. CASE ConfirmedHandler(w) \/ TxFailed(w) \/ PollErr(w)
    <3>1. PICK t \in sent, step \in HandlerSteps :
            TakeEvent(w, t, step, RetryOf(t)) \/ TakeEvent(w, t, step, RetryOf(t) + 1)
      BY <2>1 DEF ConfirmedHandler, TxFailed, PollErr, HandlerSteps
    <3>2. PICK r : TakeEvent(w, t, step, r)
      BY <3>1
    <3>3. Handler(step, t.ev, r, NoTx).ev = t.ev /\ Idle.ev = 0
      BY DEF Handler, Idle
    <3>4. CASE t \in DOMAIN eventMap
      <4>1. worker' = [worker EXCEPT ![w] = Handler(step, t.ev, r, NoTx)]
        BY <3>2, <3>4 DEF TakeEvent
      <4> QED BY <3>3, <3>4, <4>1 DEF TypeOK
    <3>5. CASE t \notin DOMAIN eventMap
      <4>1. worker' = [worker EXCEPT ![w] = Idle]
        BY <3>2, <3>5 DEF TakeEvent
      <4> QED BY <3>3, <4>1 DEF TypeOK
    <3> QED BY <3>4, <3>5
  <2>2. CASE RetryNonce(w) \/ RetryBuild(w) \/ RetryWrite(w)
    <3>1. CASE RetryNonce(w)
      <4>1. \A v \in Workers : v # w => worker'[v] = worker[v]
        BY <3>1 DEF RetryNonce, TypeOK
      <4>2. worker'[w].ev = worker[w].ev
        BY <3>1 DEF RetryNonce, TypeOK, Idle
      <4> QED BY <4>1, <4>2
    <3>2. CASE RetryBuild(w)
      <4>1. \A v \in Workers : v # w => worker'[v] = worker[v]
        BY <3>2 DEF RetryBuild, TypeOK
      <4>2. worker'[w].ev = worker[w].ev
        BY <3>2 DEF RetryBuild, TypeOK, Idle
      <4> QED BY <4>1, <4>2
    <3>3. CASE RetryWrite(w)
      <4>1. \A v \in Workers : v # w => worker'[v] = worker[v]
        BY <3>3 DEF RetryWrite, TypeOK
      <4>2. worker'[w].ev = worker[w].ev
        BY <3>3 DEF RetryWrite, TypeOK, Idle
      <4> QED BY <4>1, <4>2
    <3> QED BY <2>2, <3>1, <3>2, <3>3
  <2>3. CASE Submit(w) \/ SubmitErr(w)
    BY <2>3 DEF Submit, SubmitErr
  <2>4. CASE Release(w)
    BY <2>4 DEF Release, TypeOK, Idle
  <2> QED BY <2>1, <2>2, <2>3, <2>4
          DEF WorkerStep, PutSucceeded, PutFailed, StoreEvent, PutErr, RetryErr,
              RetryEnqueue, RetryEnqueueErr
<1>3. UNCHANGED event
  BY DEF WorkerStep, Submit, SubmitErr, ConfirmedHandler, TxFailed, PollErr, TakeEvent,
       PutSucceeded, PutFailed, StoreEvent, PutErr, RetryNonce, RetryBuild, RetryWrite,
       RetryErr, RetryEnqueue, RetryEnqueueErr, mainVars
<1> QED BY <1>1, <1>2, <1>3

LEMMA SettledMainStep ==
    ASSUME [Next]_vars
    PROVE  \/ Exit \/ \E w \in Workers : WorkerStep(w)
           \/ \E f \in Events : HandleGet(f)
           \/ HandleWrite
           \/ UNCHANGED <<eventMap, worker>> /\ event' \in {event, NoEvent}
BY DEF Next, MineIn, MineOut, PairSet, Start, Crash, Fatal, Signal, MainStep, TickBusy,
     TickFetch, Fetch, FetchLatestErr, FetchFilterErr, FetchDone, HandleLog, HandleSkip,
     HandleNoPair, HandlePanic, HandleNonce, HandleGetErr, HandleMintErr, HandleLogsErr,
     Enqueue, EnqueueErr, CloseStep, CloseWait, CloseCommitERC20, CloseCommitNFT,
     CloseExit, vars, mainVars, sharedVars

LEMMA SettledStep ==
    ASSUME TypeOK, OwnEvent, [Next]_vars, NEW e \in Events, Settled(e)
    PROVE  Settled(e)'
<1>0. /\ db[e].status = "SUCCEEDED"
      /\ \A h \in DOMAIN eventMap : h.ev # e
      /\ \A w \in Workers : worker[w].ev # e
      /\ event.ev # e
      /\ e # 0 /\ NoEvent.ev = 0
  BY ConstantsAssumption DEF Settled, Held, Sending, NoEvent
<1>1. db'[e].status = "SUCCEEDED"
  BY <1>0, DbStep DEF PutSucceeded, PutFailed, StoreEvent, TypeOK
<1>2. CASE Exit
  BY <1>0, <1>1, <1>2, EmptyMapType DEF Exit, Settled, Held, Sending, Idle
<1>3. ASSUME NEW w \in Workers, WorkerStep(w) PROVE Settled(e)'
  BY <1>0, <1>1, <1>3, SettledWorkerStep DEF Settled, Held, Sending
<1>4. ASSUME NEW f \in Events, HandleGet(f) PROVE Settled(e)'
  <2>1. f # e
    BY <1>0, <1>4 DEF HandleGet
  <2> QED BY <1>0, <1>1, <1>4, <2>1 DEF HandleGet, sharedVars, Settled, Held, Sending
<1>5. CASE HandleWrite
  <2>1. cur.ev # e
    BY <1>0, <1>5 DEF HandleWrite, OwnEvent
  <2>2. \A h \in DOMAIN eventMap' : h \in DOMAIN eventMap \/ h = cur
    BY <1>5 DEF HandleWrite, MapPut
  <2> QED BY <1>0, <1>1, <1>5, <2>1, <2>2 DEF HandleWrite, Settled, Held, Sending
<1>6. CASE UNCHANGED <<eventMap, worker>> /\ event' \in {event, NoEvent}
  BY <1>0, <1>1, <1>6 DEF Settled, Held, Sending
<1> QED BY <1>2, <1>3, <1>4, <1>5, <1>6, SettledMainStep

(* Under every fault, a deposit recorded as SUCCEEDED that no goroutine    *)
(* has in hand, handleLogs past its check of the status included, is never *)
(* sent again and its record never changes.                                *)
THEOREM SettledForGood == Spec => SettledIsFinal
<1>1. Init => OwnEvent
  BY DEF Init, OwnEvent, Making, Idle
<1>2. TypeOK /\ OwnEvent /\ [Next]_vars => OwnEvent'
  BY OwnEventStep
<1>3. TypeOK /\ OwnEvent /\ [Next]_vars => [\A e \in Events : Settled(e) => Settled(e)']_vars
  BY SettledStep
<1> QED BY <1>1, <1>2, <1>3, TypeCorrect, PTL DEF Spec, SettledIsFinal

-----------------------------------------------------------------------------
(***************************************************************************)
(* No deposit is passed over: the proof of WatermarkSafe for the instances *)
(* whose faults are crashes, `pair set` between two lives, a failing       *)
(* LatestBlockNumber, SendTransaction or EstimateGas, and failing writes   *)
(* of the store.                                                           *)
(***************************************************************************)
MildFaults == Faults \subseteq {"crash", "pair", "latest", "sendtx", "put", "estimate"}

(* A deposit of a paired token whose log the daemon has to handle.         *)
Due(e, block) == Emitted(e) /\ Paired(e) /\ blockOf[e] <= block

Kept(e) == db[e].status # "none" \/ Minted(e)
Covered(e) == Kept(e) \/ \E h \in DOMAIN eventMap : h.ev = e

(* What a handler has in hand is minted: without reverts a mint fails only *)
(* when an earlier one of the same deposit succeeded.                      *)
MintedInHand ==
    /\ \A i \in 1..Len(mined) : Minted(mined[i].ev)
    /\ \A w \in Workers : worker[w] # Idle => Minted(worker[w].ev)

Heights ==
    /\ \A s \in Slots : dbBlock[s] <= height /\ confirmed[s] <= height
    /\ fetchEnd <= height

StoredCovers == \A e \in Events : Due(e, dbBlock[KindOf[e]]) => Kept(e)
ConfirmedCovers == \A e \in Events : Due(e, confirmed[KindOf[e]]) => Covered(e)

(* While a fetch is handled, its deposits are covered or still to come.    *)
FetchCovers ==
    pc \in {"logs", "mint", "build", "enqueue"} =>
        \A e \in Events : Due(e, fetchEnd) /\ KindOf[e] = slot => Covered(e) \/ e \in logs

NotClosing == pc \notin {"closing", "closeNFT", "closed"}
DownBlank == pc = "down" => \A s \in Slots : confirmed[s] = 0
PairsStay == \A e \in Events : Paired(e) => pair[TokenOf[e]] # "none"

WatermarkInv ==
    /\ HandInv
    /\ MintedInHand
    /\ Heights
    /\ StoredCovers
    /\ ConfirmedCovers
    /\ FetchCovers
    /\ NotClosing
    /\ DownBlank
    /\ PairsStay

(***************************************************************************)
(* Nothing kept or covered is lost by a step.                              *)
(***************************************************************************)
LEMMA KeptStays ==
    ASSUME TypeOK, [Next]_vars, NEW e \in Events, Kept(e)
    PROVE  Kept(e)'
<1>1. CASE Minted(e)
  BY <1>1, MintedStays DEF Kept
<1>2. CASE db[e].status # "none"
  <2>1. ASSUME NEW w \in Workers, NEW step, NEW status \in {"SUCCEEDED", "FAILED"},
               StoreEvent(w, step, status)
        PROVE  db'[e].status # "none"
    BY <1>2, <2>1 DEF StoreEvent, TypeOK
  <2>2. db'[e].status # "none"
    BY <1>2, <2>1, DbStep DEF PutSucceeded, PutFailed
  <2> QED BY <2>2 DEF Kept
<1> QED BY <1>1, <1>2 DEF Kept

(* A worker's callback about t, under mild faults, finds t.ev minted.      *)
LEMMA CallbackMinted ==
    ASSUME MildFaults, TypeOK, MintedInHand, NEW w \in Workers,
           ConfirmedHandler(w) \/ TxFailed(w) \/ PollErr(w)
    PROVE  \E t \in sent, step \in HandlerSteps, r \in Nat :
              Minted(t.ev) /\ TakeEvent(w, t, step, r)
<1>1. ~PollErr(w)
  BY DEF PollErr, MildFaults
<1>2. CASE ConfirmedHandler(w)
  <2>1. PICK t \in sent : MinedAs(t, TRUE) /\ TakeEvent(w, t, "succeeded", RetryOf(t))
    BY <1>2 DEF ConfirmedHandler
  <2> QED BY <2>1, MinedAsMinted, RetryOfType DEF TypeOK, HandlerSteps
<1>3. CASE TxFailed(w)
  <2>1. PICK t \in sent :
          /\ MinedAs(t, FALSE)
          /\ \/ TakeEvent(w, t, "failed", RetryOf(t))
             \/ TakeEvent(w, t, "retry", RetryOf(t) + 1)
    BY <1>3 DEF TxFailed
  <2>2. t.nonce + 1 \in 1..Len(mined) /\ mined[t.nonce + 1].ev = t.ev
    BY <2>1 DEF TypeOK, Tx, MinedAs
  <2>3. Minted(t.ev)
    BY <2>2 DEF MintedInHand
  <2>4. RetryOf(t) \in Nat /\ RetryOf(t) + 1 \in Nat
    BY RetryOfType
  <2> QED BY <2>1, <2>3, <2>4 DEF HandlerSteps
<1> QED BY <1>1, <1>2, <1>3

(* An entry leaves the maps in a callback, or with the process.            *)
LEMMA EntryLasts ==
    ASSUME [Next]_vars, pc' # "down"
    PROVE  \/ \A h \in DOMAIN eventMap : h \in DOMAIN eventMap'
           \/ \E w \in Workers : ConfirmedHandler(w) \/ TxFailed(w) \/ PollErr(w)
BY DEF Next, MineIn, MineOut, PairSet, Start, Crash, Exit, Fatal, Signal, MainStep,
     TickBusy, TickFetch, Fetch, FetchLatestErr, FetchFilterErr, FetchDone, HandleLog,
     HandleSkip, HandleNoPair, HandlePanic, HandleGet, HandleNonce, HandleWrite,
     HandleGetErr, HandleMintErr, HandleLogsErr, Enqueue, EnqueueErr, CloseStep,
     CloseWait, CloseCommitERC20, CloseCommitNFT, CloseExit, WorkerStep, Submit,
     SubmitErr, PutSucceeded, PutFailed, StoreEvent, PutErr, RetryNonce, RetryBuild,
     RetryWrite, RetryErr, RetryEnqueue, RetryEnqueueErr, MapPut, vars, sharedVars

LEMMA CoveredStays ==
    ASSUME MildFaults, TypeOK, MintedInHand, [Next]_vars, pc' # "down",
           NEW e \in Events, Covered(e)
    PROVE  Covered(e)'
<1>1. CASE Kept(e)
  BY <1>1, KeptStays DEF Covered
<1>2. CASE ~Kept(e)
  <2>1. PICK h \in DOMAIN eventMap : h.ev = e
    BY <1>2 DEF Covered
  <2>2. CASE h \in DOMAIN eventMap'
    BY <2>1, <2>2 DEF Covered
  <2>3. CASE h \notin DOMAIN eventMap'
    <3>1. PICK w \in Workers : ConfirmedHandler(w) \/ TxFailed(w) \/ PollErr(w)
      BY <2>3, EntryLasts
    <3>2. PICK t \in sent, step \in HandlerSteps, r \in Nat :
            Minted(t.ev) /\ TakeEvent(w, t, step, r)
      BY <3>1, CallbackMinted
    <3>3. h = t
      BY <2>1, <2>3, <3>2, MapDeleteType DEF TakeEvent
    <3> QED BY <1>2, <2>1, <3>2, <3>3 DEF Kept
  <2> QED BY <2>2, <2>3
<1> QED BY <1>1, <1>2

(* A block already mined gets no new deposit.                              *)
LEMMA DueBefore ==
    ASSUME TypeOK, [Next]_vars, NEW e \in Events, NEW b \in Nat, b <= height, Due(e, b)'
    PROVE  Due(e, b)
<1>1. CASE UNCHANGED blockOf
  BY <1>1 DEF Due, Emitted
<1>2. CASE MineIn
  BY <1>2 DEF MineIn, Due, Emitted, TypeOK
<1>3. UNCHANGED blockOf \/ MineIn
  BY DEF Next, MineOut, PairSet, Start, Crash, Exit, Fatal, Signal, MainStep, TickBusy,
       TickFetch, Fetch, FetchLatestErr, FetchFilterErr, FetchDone, HandleLog,
       HandleSkip, HandleNoPair, HandlePanic, HandleGet, HandleNonce, HandleWrite,
       HandleGetErr, HandleMintErr, HandleLogsErr, Enqueue, EnqueueErr, CloseStep,
       CloseWait, CloseCommitERC20, CloseCommitNFT, CloseExit, WorkerStep, Submit,
       SubmitErr, ConfirmedHandler, TxFailed, PollErr, TakeEvent, PutSucceeded,
       PutFailed, StoreEvent, PutErr, RetryNonce, RetryBuild, RetryWrite, RetryErr,
       RetryEnqueue, RetryEnqueueErr, vars, inVars, outVars, storeVars, mainVars,
       sharedVars
<1> QED BY <1>1, <1>2, <1>3

(***************************************************************************)
(* The invariant is inductive: one lemma for each of its parts.            *)
(***************************************************************************)
LEMMA InitWatermarkInv == Init => WatermarkInv
BY InitHandInv, ConstantsAssumption
   DEF Init, WatermarkInv, MintedInHand, Heights, StoredCovers, ConfirmedCovers,
       FetchCovers, NotClosing, DownBlank, PairsStay, Due, Emitted, Paired

LEMMA MintedInHandStep ==
    ASSUME MildFaults, TypeOK, MintedInHand, [Next]_vars
    PROVE  MintedInHand'
<1>1. \A i \in 1..Len(mined') : Minted(mined[i].ev)'
  <2>1. CASE UNCHANGED mined
    BY <2>1 DEF MintedInHand, Minted
  <2>2. CASE MineOut
    <3>1. PICK t \in pool, ok \in BOOLEAN :
            /\ ok => CanMint(t.ev)
            /\ ~ok => "revert" \in Faults \/ ~CanMint(t.ev)
            /\ mined' = Append(mined, [ev |-> t.ev, ok |-> ok])
      BY <2>2 DEF MineOut
    <3>2. mined \in Seq([ev : Events, ok : BOOLEAN])
      BY DEF TypeOK
    <3>3. \A e : Minted(e) => Minted(e)'
      BY MintedStays
    <3>4. Minted(t.ev)'
      <4>1. CASE ok
        <5>1. mined'[Len(mined')] = [ev |-> t.ev, ok |-> TRUE] /\ Len(mined') \in 1..Len(mined')
          BY <3>1, <3>2, <4>1
        <5> QED BY <5>1 DEF Minted
      <4>2. CASE ~ok
        <5>1. Minted(t.ev)
          BY <3>1, <4>2 DEF MildFaults, CanMint
        <5> QED BY <3>3, <5>1
      <4> QED BY <4>1, <4>2
    <3> SUFFICES ASSUME NEW i \in 1..Len(mined') PROVE Minted(mined[i].ev)'
      OBVIOUS
    <3>5. CASE i \in 1..Len(mined)
      <4>1. PICK e : e = mined[i].ev
        OBVIOUS
      <4>2. Minted(e)' /\ mined'[i].ev = e
        BY <3>1, <3>2, <3>3, <3>5, <4>1 DEF MintedInHand
      <4> QED BY <4>2 DEF Minted
    <3>6. CASE i \notin 1..Len(mined)
      <4>1. mined'[i].ev = t.ev
        BY <3>1, <3>2, <3>6
      <4> QED BY <3>4, <4>1 DEF Minted
    <3> QED BY <3>5, <3>6
  <2>3. UNCHANGED mined \/ MineOut
    BY DEF Next, MineIn, PairSet, Start, Crash, Exit, Fatal, Signal, MainStep, TickBusy,
         TickFetch, Fetch, FetchLatestErr, FetchFilterErr, FetchDone, HandleLog,
         HandleSkip, HandleNoPair, HandlePanic, HandleGet, HandleNonce, HandleWrite,
         HandleGetErr, HandleMintErr, HandleLogsErr, Enqueue, EnqueueErr, CloseStep,
         CloseWait, CloseCommitERC20, CloseCommitNFT, CloseExit, WorkerStep, Submit,
         SubmitErr, ConfirmedHandler, TxFailed, PollErr, TakeEvent, PutSucceeded,
         PutFailed, StoreEvent, PutErr, RetryNonce, RetryBuild, RetryWrite, RetryErr,
         RetryEnqueue, RetryEnqueueErr, vars, inVars, outVars, storeVars, mainVars,
         sharedVars
  <2> QED BY <2>1, <2>2, <2>3
<1>2. \A w \in Workers : worker'[w] # Idle => Minted(worker[w].ev)'
  <2> SUFFICES ASSUME NEW v \in Workers, worker'[v] # Idle PROVE Minted(worker[v].ev)'
    OBVIOUS
  <2>1. PICK e : e = worker'[v].ev
    OBVIOUS
  <2>2. Minted(e)
    <3>1. CASE worker'[v] = worker[v]
      BY <2>1, <3>1 DEF MintedInHand
    <3>2. CASE Exit
      BY <3>2 DEF Exit
    <3>3. ASSUME NEW w \in Workers, WorkerStep(w), worker'[v] # worker[v] PROVE Minted(e)
      <4>1. CASE ConfirmedHandler(w) \/ TxFailed(w) \/ PollErr(w)
        <5>1. PICK t \in sent, step \in HandlerSteps, r \in Nat :
                Minted(t.ev) /\ TakeEvent(w, t, step, r)
          BY <4>1, CallbackMinted
        <5>2. worker'[v] = Handler(step, t.ev, r, NoTx)
          BY <3>3, <5>1 DEF TakeEvent, TypeOK
        <5> QED BY <2>1, <5>1, <5>2 DEF Handler
      <4>2. CASE RetryNonce(w) \/ RetryBuild(w) \/ RetryWrite(w)
        <5>1. worker[w] # Idle /\ worker'[v].ev = worker[v].ev /\ v = w
          BY <3>3, <4>2 DEF RetryNonce, RetryBuild, RetryWrite, TypeOK, Idle
        <5> QED BY <2>1, <5>1 DEF MintedInHand
      <4>3. CASE Submit(w) \/ SubmitErr(w)
        BY <3>3, <4>3 DEF Submit, SubmitErr
      <4>4. CASE Release(w)
        BY <3>3, <4>4 DEF Release, TypeOK
      <4> QED BY <3>3, <4>1, <4>2, <4>3, <4>4
              DEF WorkerStep, PutSucceeded, PutFailed, StoreEvent, PutErr, RetryErr,
                  RetryEnqueue, RetryEnqueueErr
    <3> QED BY <3>1, <3>2, <3>3, WorkerChange
  <2>3. Minted(e)'
    BY <2>2, MintedStays
  <2> QED BY <2>1, <2>3 DEF Minted
<1> QED BY <1>1, <1>2 DEF MintedInHand

LEMMA NotClosingStep ==
    ASSUME MildFaults, NotClosing, [Next]_vars
    PROVE  NotClosing'
BY DEF NotClosing, MildFaults, Next, MineIn, MineOut, PairSet, Start, Crash, Exit,
     Fatal, Signal, MainStep, TickBusy, TickFetch, Fetch, FetchLatestErr,
     FetchFilterErr, FetchDone, HandleLog, HandleSkip, HandleNoPair, HandlePanic,
     HandleGet, HandleNonce, HandleWrite, HandleGetErr, HandleMintErr, HandleLogsErr,
     Enqueue, EnqueueErr, CloseStep, CloseWait, CloseCommitERC20, CloseCommitNFT,
     CloseExit, WorkerStep, Submit, SubmitErr, ConfirmedHandler, TxFailed, PollErr,
     TakeEvent, PutSucceeded, PutFailed, StoreEvent, PutErr, RetryNonce, RetryBuild,
     RetryWrite, RetryErr, RetryEnqueue, RetryEnqueueErr, vars, inVars, outVars,
     storeVars, mainVars, sharedVars

LEMMA PairsStayStep ==
    ASSUME TypeOK, PairsStay, [Next]_vars
    PROVE  PairsStay'
<1>1. CASE UNCHANGED pair
  BY <1>1 DEF PairsStay
<1>2. ASSUME NEW t \in Tokens, PairSet(t) PROVE PairsStay'
  BY <1>2 DEF PairSet, PairsStay, TypeOK
<1>3. UNCHANGED pair \/ \E t \in Tokens : PairSet(t)
  BY DEF Next, MineIn, MineOut, Start, Crash, Exit, Fatal, Signal, MainStep, TickBusy,
       TickFetch, Fetch, FetchLatestErr, FetchFilterErr, FetchDone, HandleLog,
       HandleSkip, HandleNoPair, HandlePanic, HandleGet, HandleNonce, HandleWrite,
       HandleGetErr, HandleMintErr, HandleLogsErr, Enqueue, EnqueueErr, CloseStep,
       CloseWait, CloseCommitERC20, CloseCommitNFT, CloseExit, WorkerStep, Submit,
       SubmitErr, ConfirmedHandler, TxFailed, PollErr, TakeEvent, PutSucceeded,
       PutFailed, StoreEvent, PutErr, RetryNonce, RetryBuild, RetryWrite, RetryErr,
       RetryEnqueue, RetryEnqueueErr, vars, inVars, outVars, storeVars, mainVars,
       sharedVars
<1> QED BY <1>1, <1>2, <1>3

(* What a step does to the blocks the daemon has stored and fetched.       *)
LEMMA BlockStep ==
    ASSUME MildFaults, NotClosing, [Next]_vars
    PROVE  /\ UNCHANGED height \/ MineIn
           /\ UNCHANGED dbBlock \/ TickFetch
           /\ UNCHANGED confirmed \/ Exit \/ Start \/ FetchDone
           /\ UNCHANGED fetchEnd \/ Exit \/ Fetch
           /\ pc' = "down" => Exit \/ pc = "down"
<1>1. UNCHANGED height \/ MineIn
  BY DEF Next, MineOut, PairSet, Start, Crash, Exit, Fatal, Signal, MainStep, TickBusy,
       TickFetch, Fetch, FetchLatestErr, FetchFilterErr, FetchDone, HandleLog,
       HandleSkip, HandleNoPair, HandlePanic, HandleGet, HandleNonce, HandleWrite,
       HandleGetErr, HandleMintErr, HandleLogsErr, Enqueue, EnqueueErr, CloseStep,
       CloseWait, CloseCommitERC20, CloseCommitNFT, CloseExit, WorkerStep, Submit,
       SubmitErr, ConfirmedHandler, TxFailed, PollErr, TakeEvent, PutSucceeded,
       PutFailed, StoreEvent, PutErr, RetryNonce, RetryBuild, RetryWrite, RetryErr,
       RetryEnqueue, RetryEnqueueErr, vars, inVars, outVars, storeVars, mainVars,
       sharedVars
<1>2. UNCHANGED dbBlock \/ TickFetch
  BY DEF NotClosing, Next, MineIn, MineOut, PairSet, Start, Crash, Exit, Fatal, Signal,
       MainStep, TickBusy, Fetch, FetchLatestErr, FetchFilterErr, FetchDone, HandleLog,
       HandleSkip, HandleNoPair, HandlePanic, HandleGet, HandleNonce, HandleWrite,
       HandleGetErr, HandleMintErr, HandleLogsErr, Enqueue, EnqueueErr, CloseStep,
       CloseWait, CloseCommitERC20, CloseCommitNFT, CloseExit, WorkerStep, Submit,
       SubmitErr, ConfirmedHandler, TxFailed, PollErr, TakeEvent, PutSucceeded,
       PutFailed, StoreEvent, PutErr, RetryNonce, RetryBuild, RetryWrite, RetryErr,
       RetryEnqueue, RetryEnqueueErr, vars, inVars, outVars, storeVars, mainVars,
       sharedVars
<1>3. UNCHANGED confirmed \/ Exit \/ Start \/ FetchDone
  BY DEF MildFaults, Next, MineIn, MineOut, PairSet, Crash, Fatal, Signal, MainStep,
       TickBusy, TickFetch, Fetch, FetchLatestErr, FetchFilterErr, HandleLog,
       HandleSkip, HandleNoPair, HandlePanic, HandleGet, HandleNonce, HandleWrite,
       HandleGetErr, HandleMintErr, HandleLogsErr, Enqueue, EnqueueErr, CloseStep,
       CloseWait, CloseCommitERC20, CloseCommitNFT, CloseExit, WorkerStep, Submit,
       SubmitErr, ConfirmedHandler, TxFailed, PollErr, TakeEvent, PutSucceeded,
       PutFailed, StoreEvent, PutErr, RetryNonce, RetryBuild, RetryWrite, RetryErr,
       RetryEnqueue, RetryEnqueueErr, vars, inVars, outVars, storeVars, mainVars,
       sharedVars
<1>4. UNCHANGED fetchEnd \/ Exit \/ Fetch
  BY DEF MildFaults, Next, MineIn, MineOut, PairSet, Start, Crash, Fatal, Signal,
       MainStep, TickBusy, TickFetch, FetchLatestErr, FetchFilterErr, FetchDone,
       HandleLog, HandleSkip, HandleNoPair, HandlePanic, HandleGet, HandleNonce,
       HandleWrite, HandleGetErr, HandleMintErr, HandleLogsErr, Enqueue, EnqueueErr,
       CloseStep, CloseWait, CloseCommitERC20, CloseCommitNFT, CloseExit, WorkerStep,
       Submit, SubmitErr, ConfirmedHandler, TxFailed, PollErr, TakeEvent, PutSucceeded,
       PutFailed, StoreEvent, PutErr, RetryNonce, RetryBuild, RetryWrite, RetryErr,
       RetryEnqueue, RetryEnqueueErr, vars, inVars, outVars, storeVars, mainVars,
       sharedVars
<1>5. pc' = "down" => Exit \/ pc = "down"
  BY DEF Next, MineIn, MineOut, PairSet, Start, Crash, Fatal, Signal, MainStep,
       TickBusy, TickFetch, Fetch, FetchLatestErr, FetchFilterErr, FetchDone, HandleLog,
       HandleSkip, HandleNoPair, HandlePanic, HandleGet, HandleNonce, HandleWrite,
       HandleGetErr, HandleMintErr, HandleLogsErr, Enqueue, EnqueueErr, CloseStep,
       CloseWait, CloseCommitERC20, CloseCommitNFT, CloseExit, WorkerStep, Submit,
       SubmitErr, ConfirmedHandler, TxFailed, PollErr, TakeEvent, PutSucceeded,
       PutFailed, StoreEvent, PutErr, RetryNonce, RetryBuild, RetryWrite, RetryErr,
       RetryEnqueue, RetryEnqueueErr, vars, inVars, outVars, storeVars, mainVars,
       sharedVars
<1> QED BY <1>1, <1>2, <1>3, <1>4, <1>5

(* A process that is down has nothing confirmed in memory.                 *)
LEMMA DownBlankStep ==
    ASSUME MildFaults, NotClosing, DownBlank, [Next]_vars
    PROVE  DownBlank'
BY BlockStep DEF DownBlank, Exit, Start, FetchDone

LEMMA HeightsStep ==
    ASSUME MildFaults, TypeOK, NotClosing, Heights, [Next]_vars
    PROVE  Heights'
<1>1. TypeOK'
  BY NextTypeOK
<1>2. height <= height'
  <2>1. height \in Nat
    BY DEF TypeOK
  <2>2. height' = height \/ height' = height + 1
    BY BlockStep DEF MineIn
  <2> QED BY <2>1, <2>2
<1>3. \A s \in Slots : dbBlock'[s] <= height
  BY BlockStep, RotateType DEF TickFetch, PutBlock, Heights, TypeOK
<1>4. \A s \in Slots : confirmed'[s] <= height
  <2>1. CASE UNCHANGED confirmed
    BY <2>1 DEF Heights
  <2>2. CASE Exit
    BY <2>2 DEF Exit, TypeOK
  <2>3. CASE Start
    BY <2>3 DEF Start, Heights
  <2>4. CASE FetchDone
    BY <2>4 DEF FetchDone, Heights, TypeOK
  <2> QED BY BlockStep, <2>1, <2>2, <2>3, <2>4
<1>5. fetchEnd' <= height
  BY BlockStep DEF Exit, Fetch, Heights, TypeOK
<1>6. /\ height \in Nat /\ height' \in Nat /\ fetchEnd' \in Nat
      /\ \A s \in Slots : dbBlock'[s] \in Nat /\ confirmed'[s] \in Nat
  BY <1>1 DEF TypeOK
<1>7. fetchEnd' <= height'
  BY <1>2, <1>5, <1>6
<1>8. \A s \in Slots : dbBlock'[s] <= height' /\ confirmed'[s] <= height'
  BY <1>2, <1>3, <1>4, <1>6
<1> QED BY <1>7, <1>8 DEF Heights

LEMMA StoredCoversStep ==
    ASSUME MildFaults, TypeOK, NotClosing, Heights, StoredCovers, ConfirmedCovers, [Next]_vars
    PROVE  StoredCovers'
<1> SUFFICES ASSUME NEW e \in Events, Due(e, dbBlock[KindOf[e]])' PROVE Kept(e)'
  BY DEF StoredCovers
<1>1. KindOf[e] \in Slots
  BY ConstantsAssumption
<1>2. PICK b \in Nat : b = dbBlock'[KindOf[e]]
  BY <1>1, NextTypeOK DEF TypeOK
<1>3. Due(e, b)'
  BY <1>2 DEF Due
<1>4. CASE dbBlock'[KindOf[e]] = dbBlock[KindOf[e]]
  <2>1. b <= height
    BY <1>1, <1>2, <1>4 DEF Heights
  <2>2. Kept(e)
    BY <1>2, <1>3, <1>4, <2>1, DueBefore DEF StoredCovers
  <2> QED BY <2>2, KeptStays
<1>5. CASE dbBlock'[KindOf[e]] # dbBlock[KindOf[e]]
  <2>1. TickFetch /\ Rotate = KindOf[e] /\ b = confirmed[KindOf[e]] /\ MapOfSlot(Rotate) = {}
    BY <1>1, <1>2, <1>5, BlockStep DEF TickFetch, PutBlock, TypeOK
  <2>2. Covered(e)
    BY <1>1, <1>3, <2>1, DueBefore DEF Heights, ConfirmedCovers
  <2>3. Kept(e)
    BY <2>1, <2>2 DEF Covered, MapOfSlot
  <2> QED BY <2>3, KeptStays
<1> QED BY <1>4, <1>5

LEMMA ConfirmedCoversStep ==
    ASSUME MildFaults, TypeOK, NotClosing, MintedInHand, Heights, StoredCovers,
           ConfirmedCovers, FetchCovers, DownBlank, [Next]_vars
    PROVE  ConfirmedCovers'
<1> SUFFICES ASSUME NEW e \in Events, Due(e, confirmed[KindOf[e]])' PROVE Covered(e)'
  BY DEF ConfirmedCovers
<1>1. KindOf[e] \in Slots
  BY ConstantsAssumption
<1>2. PICK b \in Nat : b = confirmed'[KindOf[e]]
  BY <1>1, NextTypeOK DEF TypeOK
<1>3. Due(e, b)'
  BY <1>2 DEF Due
<1>4. CASE Exit
  BY <1>1, <1>2, <1>3, <1>4 DEF Exit, Due, Emitted, inVars, TypeOK
<1>5. CASE Start
  <2>1. b = dbBlock[KindOf[e]] /\ b <= height
    BY <1>1, <1>2, <1>5 DEF Start, Heights
  <2>2. Kept(e)
    BY <1>3, <2>1, DueBefore DEF StoredCovers
  <2> QED BY <2>2, KeptStays DEF Covered
<1>6. CASE FetchDone
  <2>1. pc' # "down" /\ b <= height
    BY <1>1, <1>2, <1>6 DEF FetchDone, Heights, TypeOK
  <2>2. CASE KindOf[e] = slot
    <3>1. b = fetchEnd /\ logs = {} /\ pc = "logs"
      BY <1>2, <1>6, <2>2 DEF FetchDone, TypeOK
    <3>2. Covered(e)
      BY <1>3, <2>1, <2>2, <3>1, DueBefore DEF FetchCovers
    <3> QED BY <2>1, <3>2, CoveredStays
  <2>3. CASE KindOf[e] # slot
    <3>1. b = confirmed[KindOf[e]]
      BY <1>1, <1>2, <1>6, <2>3 DEF FetchDone, TypeOK
    <3>2. Covered(e)
      BY <1>3, <2>1, <3>1, DueBefore DEF ConfirmedCovers
    <3> QED BY <2>1, <3>2, CoveredStays
  <2> QED BY <2>2, <2>3
<1>7. CASE UNCHANGED confirmed /\ ~Exit
  <2>1. b = confirmed[KindOf[e]] /\ b <= height
    BY <1>1, <1>2, <1>7 DEF Heights
  <2>2. CASE pc' = "down"
    <3>1. b = 0
      BY <1>1, <1>7, <2>1, <2>2, BlockStep DEF DownBlank
    <3>2. Due(e, b)
      BY <1>3, <2>1, DueBefore
    <3> QED BY <3>1, <3>2 DEF Due, Emitted, TypeOK
  <2>3. CASE pc' # "down"
    <3>1. Covered(e)
      BY <1>3, <2>1, DueBefore DEF ConfirmedCovers
    <3> QED BY <2>3, <3>1, CoveredStays
  <2> QED BY <2>2, <2>3
<1> QED BY <1>4, <1>5, <1>6, <1>7, BlockStep

LEMMA HandleLogFetchCovers ==
    ASSUME MildFaults, TypeOK, PairsStay, NEW f \in Events, HandleLog(f), pc' # "down",
           NEW e \in logs, Paired(e)
    PROVE  e \in logs' \/ Covered(e)
<1>1. CASE HandleSkip(f)
  BY <1>1 DEF HandleSkip, Covered, Kept
<1>2. CASE HandleNoPair(f)
  BY <1>2 DEF HandleNoPair, PairsStay, MildFaults, TypeOK
<1>3. CASE HandleGet(f)
  BY <1>3 DEF HandleGet
<1> QED BY <1>1, <1>2, <1>3
        DEF HandleLog, HandlePanic, HandleGetErr, HandleLogsErr, Fatal, Exit, MildFaults

LEMMA FetchCoversStep ==
    ASSUME MildFaults, HandInv, PairsStay, NotClosing, MintedInHand, Heights,
           ConfirmedCovers, FetchCovers, [Next]_vars
    PROVE  FetchCovers'
<1> SUFFICES ASSUME pc' \in {"logs", "mint", "build", "enqueue"}, NEW e \in Events, Due(e, fetchEnd)',
                    KindOf[e] = slot'
             PROVE  Covered(e)' \/ e \in logs'
  BY DEF FetchCovers
<1>1. TypeOK /\ pc' # "down"
  BY DEF HandInv
<1>2. PICK b \in Nat : b = fetchEnd'
  BY <1>1, NextTypeOK DEF TypeOK
<1>3. Due(e, b)'
  BY <1>2 DEF Due
<1>4. CASE Fetch
  <2>1. b = height /\ slot' = slot
    BY <1>2, <1>4 DEF Fetch
  <2>2. Due(e, height)
    <3>1. b <= height
      BY <2>1 DEF HandInv, TypeOK
    <3>2. Due(e, b)
      BY <1>1, <1>3, <3>1, DueBefore
    <3> QED BY <2>1, <3>2
  <2>3. CASE blockOf[e] <= confirmed[slot]
    <3>1. Covered(e)
      BY <2>1, <2>2, <2>3 DEF ConfirmedCovers, Due
    <3> QED BY <1>1, <3>1, CoveredStays
  <2>4. CASE ~(blockOf[e] <= confirmed[slot])
    <3>1. confirmed[slot] <= blockOf[e]
      BY <1>1, <2>4 DEF TypeOK
    <3> QED BY <1>4, <2>1, <2>2, <3>1 DEF Fetch, FilterDeposited, Due
  <2> QED BY <2>3, <2>4
<1>5. CASE pc \in {"logs", "mint", "build", "enqueue"} /\ UNCHANGED <<slot, fetchEnd>>
  <2>1. b = fetchEnd /\ b <= height /\ KindOf[e] = slot
    BY <1>2, <1>5 DEF Heights
  <2>2. Due(e, fetchEnd)
    BY <1>1, <1>3, <2>1, DueBefore
  <2>3. CASE Covered(e)
    BY <1>1, <2>3, CoveredStays
  <2>4. CASE e \in logs /\ ~Covered(e)
    <3>1. CASE UNCHANGED logs
      BY <2>4, <3>1
    <3>2. ASSUME NEW f \in Events, HandleLog(f) PROVE e \in logs'
      BY <1>1, <2>2, <2>4, <3>2, HandleLogFetchCovers DEF Due
    <3>3. CASE Enqueue
      <4>1. cur \in DOMAIN eventMap
        BY <3>3 DEF Enqueue, HandInv, OneHand, Written
      <4>2. cur.ev # e
        BY <2>4, <4>1 DEF Covered
      <4> QED BY <2>4, <3>3, <4>2 DEF Enqueue
    <3>4. UNCHANGED logs \/ Enqueue \/ \E f \in Events : HandleLog(f)
      BY <1>5 DEF MildFaults, Next, MineIn, MineOut, PairSet, Start, Crash, Exit, Fatal,
           Signal, MainStep, TickBusy, TickFetch, Fetch, FetchLatestErr, FetchFilterErr,
           FetchDone, HandleSkip, HandleNoPair, HandlePanic, HandleGet, HandleNonce,
           HandleWrite, HandleGetErr, HandleMintErr, HandleLogsErr, EnqueueErr,
           CloseStep, CloseWait, CloseCommitERC20, CloseCommitNFT, CloseExit,
           WorkerStep, Submit, SubmitErr, ConfirmedHandler, TxFailed, PollErr,
           TakeEvent, PutSucceeded, PutFailed, StoreEvent, PutErr, RetryNonce,
           RetryBuild, RetryWrite, RetryErr, RetryEnqueue, RetryEnqueueErr, vars,
           inVars, outVars, storeVars, mainVars, sharedVars
    <3> QED BY <3>1, <3>2, <3>3, <3>4
  <2> QED BY <1>5, <2>1, <2>2, <2>3, <2>4 DEF FetchCovers
<1>6. Fetch \/ (pc \in {"logs", "mint", "build", "enqueue"} /\ UNCHANGED <<slot, fetchEnd>>)
  BY DEF MildFaults, Next, MineIn, MineOut, PairSet, Start, Crash, Exit, Fatal, Signal,
       MainStep, TickBusy, TickFetch, Fetch, FetchLatestErr, FetchFilterErr, FetchDone,
       HandleLog, HandleSkip, HandleNoPair, HandlePanic, HandleGet, HandleNonce,
       HandleWrite, HandleGetErr, HandleMintErr, HandleLogsErr, Enqueue, EnqueueErr,
       CloseStep, CloseWait, CloseCommitERC20, CloseCommitNFT, CloseExit, WorkerStep,
       Submit, SubmitErr, ConfirmedHandler, TxFailed, PollErr, TakeEvent, PutSucceeded,
       PutFailed, StoreEvent, PutErr, RetryNonce, RetryBuild, RetryWrite, RetryErr,
       RetryEnqueue, RetryEnqueueErr, vars, inVars, outVars, storeVars, mainVars,
       sharedVars
<1> QED BY <1>4, <1>5, <1>6

LEMMA NextWatermarkInv ==
    ASSUME MildFaults, WatermarkInv, [Next]_vars
    PROVE  WatermarkInv'
<1>1. TypeOK
  BY DEF WatermarkInv, HandInv
<1>2. HandInv'
  BY NextHandInv DEF WatermarkInv
<1>3. MintedInHand'
  BY <1>1, MintedInHandStep DEF WatermarkInv
<1>4. Heights' /\ StoredCovers'
  BY <1>1, HeightsStep, StoredCoversStep DEF WatermarkInv
<1>5. ConfirmedCovers'
  BY <1>1, ConfirmedCoversStep DEF WatermarkInv
<1>6. FetchCovers'
  BY FetchCoversStep DEF WatermarkInv
<1>7. NotClosing' /\ DownBlank' /\ PairsStay'
  BY <1>1, NotClosingStep, DownBlankStep, PairsStayStep DEF WatermarkInv
<1> QED BY <1>2, <1>3, <1>4, <1>5, <1>6, <1>7 DEF WatermarkInv

(* Without reverts, lost poll results, swallowed fetch errors and the      *)
(* graceful shutdown, the stored confirmed block never passes a deposit    *)
(* that is unrecorded, unminted and in nobody's hands, whatever crashes.   *)
THEOREM NothingPassedOver == MildFaults => (Spec => []WatermarkSafe)
<1> SUFFICES ASSUME MildFaults PROVE Spec => []WatermarkSafe
  OBVIOUS
<1>1. WatermarkInv /\ [Next]_vars => WatermarkInv'
  BY NextWatermarkInv
<1>2. WatermarkInv => WatermarkSafe
  <2> SUFFICES ASSUME WatermarkInv, NEW e \in Events, Emitted(e), Paired(e),
                      blockOf[e] < dbBlock[KindOf[e]]
               PROVE  db[e].status # "none" \/ Minted(e)
    BY DEF WatermarkSafe
  <2>1. blockOf[e] <= dbBlock[KindOf[e]]
    BY ConstantsAssumption DEF WatermarkInv, HandInv, TypeOK
  <2> QED BY <2>1 DEF WatermarkInv, StoredCovers, Due, Kept
<1> QED BY <1>1, <1>2, InitWatermarkInv, PTL DEF Spec
=============================================================================
