---------------------------- MODULE ClientProofs ----------------------------
(***************************************************************************)
(* Proofs about Client: a confirmed transaction stays, and no log is lost   *)
(* between the node's answer and handleLogs.                                *)
(***************************************************************************)
EXTENDS Client, SequenceTheorems, TLAPS

(* ConfirmTx.                                                                *)

\* The transaction is where its receipt said, until a reorganisation comes; once it
\* is confirmed, it is deeper than a reorganisation reaches.
ConfirmTypes ==
    /\ height \in Nat /\ txBlock \in 0..height /\ txOk \in BOOLEAN
    /\ receipt \in Nat /\ reorged \in BOOLEAN
ConfirmInv ==
    /\ ConfirmTypes
    /\ confirmer = "receipt" /\ ~reorged => txBlock = receipt /\ txBlock # 0
    /\ confirmer = "confirmed" /\ ~reorged => txBlock + Confirmations <= height /\ txBlock # 0

LEMMA ConfirmInitInv == ConfirmInit => ConfirmInv
<1> SUFFICES ASSUME ConfirmInit PROVE ConfirmInv
  OBVIOUS
<1>1. height = 0 /\ txBlock = 0 /\ receipt = 0 /\ confirmer = "poll"
  BY DEF ConfirmInit
<1>2. txOk \in BOOLEAN /\ reorged \in BOOLEAN
  BY Zenon DEF ConfirmInit
<1> QED BY <1>1, <1>2 DEF ConfirmInv, ConfirmTypes

\* A transaction deeper than ReorgDepth stays where it is, whatever the chain does.
LEMMA DeepStays ==
    ASSUME ConfirmTypes, MineBlock \/ Reorganise,
           txBlock # 0, txBlock + Confirmations <= height
    PROVE  UNCHANGED <<txBlock, txOk>> /\ height' >= height
<1>1. CASE MineBlock
  BY <1>1 DEF MineBlock, ConfirmTypes
<1>2. CASE Reorganise
  <2>1. PICK from \in 0..height, top \in height..MaxBlocks :
          /\ height - from <= ReorgDepth /\ from < height
          /\ height' = top
          /\ IF txBlock > from \/ txBlock = 0
             THEN txBlock' \in {0} \cup (from + 1)..top /\ txOk' \in BOOLEAN
             ELSE UNCHANGED <<txBlock, txOk>>
    BY <1>2 DEF Reorganise
  <2>2. txBlock <= from
    BY <2>1, ConfirmAssumption DEF ConfirmTypes
  <2> QED BY <2>1, <2>2, ConfirmAssumption DEF ConfirmTypes
<1> QED BY <1>1, <1>2

LEMMA ConfirmNextInv == ConfirmInv /\ [ConfirmNext]_confirmVars => ConfirmInv'
<1> SUFFICES ASSUME ConfirmInv, [ConfirmNext]_confirmVars PROVE ConfirmInv'
  OBVIOUS
<1> USE DEF ConfirmInv, ConfirmTypes, chainVars
<1>1. CASE MineBlock
  BY <1>1, ConfirmAssumption DEF MineBlock
<1>2. CASE Reorganise
  <2>1. ConfirmTypes' /\ confirmer' = confirmer
    BY <1>2, ConfirmAssumption DEF Reorganise
  <2>2. CASE confirmer = "receipt" \/ reorged
    BY <1>2, <2>1, <2>2 DEF Reorganise
  <2>3. CASE confirmer # "receipt" /\ ~reorged
    <3>1. confirmer = "confirmed" => UNCHANGED txBlock /\ height' >= height
      BY <1>2, <2>3, DeepStays
    <3>2. confirmer' = "confirmed" => txBlock' + Confirmations <= height' /\ txBlock' # 0
      BY <3>1, <2>1, <2>3, ConfirmAssumption
    <3> QED BY <2>1, <2>3, <3>2
  <2> QED BY <2>2, <2>3
<1>3. CASE ReadReceipt
  <2>1. reorged' \in BOOLEAN /\ txOk' = txOk
    BY <1>3, Zenon DEF ReadReceipt
  <2>2. /\ height' = height /\ txBlock' = txBlock /\ txBlock # 0
        /\ confirmer' = "receipt" /\ receipt' = txBlock
    BY <1>3 DEF ReadReceipt
  <2> QED BY <2>1, <2>2
<1>4. CASE ReadFailed
  BY <1>4 DEF ReadFailed
<1>5. CASE Confirmed
  BY <1>5 DEF Confirmed
<1>6. CASE Pending
  BY <1>6 DEF Pending
<1>7. CASE ReceiptErr \/ HeadErr
  BY <1>7 DEF ReceiptErr, HeadErr
<1>8. CASE UNCHANGED confirmVars
  BY <1>8 DEF confirmVars
<1> QED BY <1>1, <1>2, <1>3, <1>4, <1>5, <1>6, <1>7, <1>8 DEF ConfirmNext, ConfirmStep

\* The steps of the two halves of Client are steps of each half, or leave it alone.
LEMMA Halves ==
    [Next]_vars => [ConfirmNext]_confirmVars /\ [FilterNext]_filterVars
BY DEF Next, vars, FilterNext

\* For every number of confirmations that is no less than the depth of a
\* reorganisation: a transaction ConfirmTx reported (client.go:97) stays in the chain.
THEOREM ConfirmedStays == Spec => ConfirmedForGood
<1>1. Spec => []ConfirmInv
  BY ConfirmInitInv, ConfirmNextInv, Halves, PTL DEF Spec, Init
<1>2. ConfirmInv /\ [Next]_vars
        => [confirmer = "confirmed" /\ ~reorged
              => UNCHANGED <<txBlock, txOk, reorged>> /\ txBlock # 0]_confirmVars
  <2> SUFFICES ASSUME ConfirmInv, ConfirmNext, confirmer = "confirmed", ~reorged
               PROVE  UNCHANGED <<txBlock, txOk, reorged>> /\ txBlock # 0
    BY Halves
  <2>1. MineBlock \/ Reorganise
    BY DEF ConfirmNext, ConfirmStep, ReceiptErr, ReadReceipt, ReadFailed, HeadErr,
           Confirmed, Pending
  <2>2. UNCHANGED reorged
    BY <2>1 DEF MineBlock, Reorganise, ConfirmInv, ConfirmTypes
  <2> QED BY <2>1, <2>2, DeepStays DEF ConfirmInv
<1> QED BY <1>1, <1>2, PTL DEF Spec, ConfirmedForGood

-----------------------------------------------------------------------------
(* The fetch.                                                                *)

FilterTypes ==
    /\ main \in {"head", "range", "assign", "return", "returned"}
    /\ filter \in {"none", "filter", "next", "handle", "assign", "close", "ended"}
    /\ logs \in Seq(Log) /\ toDeliver \in Seq(Log) /\ itLogs \in Seq(Log)
    /\ event \in Seq(Log) /\ eventCh \in Seq(Log) /\ handled \in Seq(Log)
    /\ done \in BOOLEAN /\ fail \in BOOLEAN /\ closed \in BOOLEAN
    /\ handleErr \in BOOLEAN /\ filterErr \in BOOLEAN
    /\ Len(event) = IF filter = "handle" THEN 1 ELSE 0
Phases ==
    /\ filter \in {"none", "filter"} =>
          /\ logs = <<>> /\ toDeliver = <<>> /\ itLogs = <<>> /\ eventCh = <<>> /\ handled = <<>>
          /\ ~done
    /\ main = "head" => filter = "none"
    /\ done => toDeliver = <<>>
    /\ filter \in {"assign", "close", "ended"} /\ ~fail /\ ~filterErr =>
          toDeliver = <<>> /\ itLogs = <<>>
    /\ closed => filter = "ended"
    /\ main \in {"assign", "return", "returned"} /\ ~handleErr /\ result # "head" =>
          closed /\ eventCh = <<>>
    /\ result \in {"none", "head"} \/ main = "returned"
    /\ main # "returned" => result = "none"
FetchInv == FilterTypes /\ Phases /\ NothingLostOnTheWay

\* Moving the head of one sequence to the end of the one before keeps their order.
LEMMA MoveHead ==
    ASSUME NEW S, NEW s \in Seq(S), NEW t \in Seq(S), t # <<>>
    PROVE  /\ s \o t = Append(s, Head(t)) \o Tail(t)
           /\ s \o t = (s \o <<Head(t)>>) \o Tail(t)
           /\ Head(t) \in S /\ Tail(t) \in Seq(S) /\ Append(s, Head(t)) \in Seq(S)
OBVIOUS

LEMMA FilterInitInv == FilterInit => FetchInv
<1> SUFFICES ASSUME FilterInit PROVE FetchInv
  OBVIOUS
<1>1. <<>> \in Seq(Log) /\ Len(<<>>) = 0
  BY EmptySeq
<1>2. FilterTypes
  <2>1. /\ done \in BOOLEAN /\ fail \in BOOLEAN /\ closed \in BOOLEAN
        /\ handleErr \in BOOLEAN /\ filterErr \in BOOLEAN
    BY Zenon DEF FilterInit
  <2> QED BY <1>1, <2>1 DEF FilterInit, FilterTypes
<1>3. Phases
  BY DEF FilterInit, Phases
<1>4. InTransit = logs
  BY <1>1, ConcatEmptySeq DEF FilterInit, InTransit
<1> QED BY <1>2, <1>3, <1>4 DEF FetchInv, NothingLostOnTheWay

\* A sequence of one element has nothing but its head.
LEMMA OneHead ==
    ASSUME NEW S, NEW s \in Seq(S), Len(s) = 1
    PROVE  s # <<>> /\ Tail(s) = <<>> /\ <<>> \in Seq(S) /\ Len(<<>>) = 0
<1>1. s # <<>> /\ <<>> \in Seq(S) /\ Len(<<>>) = 0
  BY EmptySeq
<1>2. Tail(s) \in Seq(S) /\ Len(Tail(s)) = 0
  BY <1>1, HeadTailProperties
<1> QED BY <1>1, <1>2, EmptySeq

\* The same with another sequence in front of the two; the equations are operators,
\* which the provers take as they are.
Assoc(r, s, t) == (r \o s) \o t = r \o (s \o t)
MovedHead(r, s, t) == (r \o s) \o t = (r \o Append(s, Head(t))) \o Tail(t)

LEMMA Associative ==
    ASSUME NEW S PROVE \A r, s, t \in Seq(S) : Assoc(r, s, t)
<1> SUFFICES ASSUME NEW r \in Seq(S), NEW s \in Seq(S), NEW t \in Seq(S)
             PROVE  (r \o s) \o t = r \o (s \o t)
  BY DEF Assoc
<1> QED OBVIOUS

LEMMA MoveHeadBehind ==
    ASSUME NEW S PROVE \A r, s, t \in Seq(S) : t # <<>> => MovedHead(r, s, t)
<1> SUFFICES ASSUME NEW r \in Seq(S), NEW s \in Seq(S), NEW t \in Seq(S), t # <<>>
             PROVE  MovedHead(r, s, t)
  OBVIOUS
<1>1. s \o t = Append(s, Head(t)) \o Tail(t) /\ Tail(t) \in Seq(S) /\ Append(s, Head(t)) \in Seq(S)
  BY MoveHead
<1>2. Assoc(r, s, t) /\ Assoc(r, Append(s, Head(t)), Tail(t))
  BY <1>1, Associative
<1> QED BY <1>1, <1>2, Zenon DEF MovedHead, Assoc

\* Each step of a log from one place to the next keeps what is in transit.
LEMMA MainStepKeeps ==
    ASSUME FetchInv, MainStep PROVE FetchInv'
<1> USE DEF subVars, itVars, chVars, outcomeVars
<1>1. CASE FetchHead
  <2>1. FilterTypes' /\ Phases'
    BY <1>1 DEF FetchInv, FilterTypes, Phases, FetchHead
  <2>2. UNCHANGED <<InTransit, logs, fail, handleErr>>
    BY <1>1 DEF FetchHead, InTransit
  <2> QED BY <2>1, <2>2 DEF FetchInv, NothingLostOnTheWay
<1>2. CASE FetchHeadErr
  <2>1. FilterTypes' /\ Phases'
    BY <1>2 DEF FetchInv, FilterTypes, Phases, FetchHeadErr
  <2>2. UNCHANGED <<InTransit, logs, fail, handleErr>>
    BY <1>2 DEF FetchHeadErr, InTransit
  <2> QED BY <2>1, <2>2 DEF FetchInv, NothingLostOnTheWay
<1>3. CASE HandleLog
  <2>0. Head(eventCh) \in Log /\ Tail(eventCh) \in Seq(Log)
        /\ Append(handled, Head(eventCh)) \in Seq(Log)
        /\ handled \o eventCh = Append(handled, Head(eventCh)) \o Tail(eventCh)
    <3>1. handled \in Seq(Log) /\ eventCh \in Seq(Log) /\ eventCh # <<>>
      BY <1>3 DEF FetchInv, FilterTypes, HandleLog
    <3> QED BY <3>1, MoveHead
  <2>1. CASE handled' = Append(handled, Head(eventCh)) /\ UNCHANGED <<main, handleErr>>
    <3>1. FilterTypes'
      BY <1>3, <2>0, <2>1 DEF FetchInv, FilterTypes, HandleLog
    <3>2. Phases'
      BY <1>3, <2>0, <2>1 DEF FetchInv, Phases, HandleLog
    <3>3. UNCHANGED <<InTransit, logs, fail, handleErr>>
      BY <1>3, <2>0, <2>1 DEF HandleLog, InTransit
    <3> QED BY <3>1, <3>2, <3>3 DEF FetchInv, NothingLostOnTheWay
  <2>2. CASE main' = "assign" /\ handleErr' = TRUE /\ UNCHANGED handled
    <3>0. handleErr' \in BOOLEAN /\ handleErr'
      BY <2>2, Zenon
    <3>1. FilterTypes'
      BY <1>3, <2>0, <3>0, <2>2 DEF FetchInv, FilterTypes, HandleLog
    <3>2. Phases'
      BY <1>3, <2>0, <3>0, <2>2 DEF FetchInv, Phases, HandleLog
    <3> QED BY <3>0, <3>1, <3>2 DEF FetchInv, NothingLostOnTheWay
  <2> QED BY <1>3, <2>1, <2>2 DEF HandleLog
<1>4. CASE HandleLogsEnd \/ AssignHandleErr \/ FetchReturn
  <2>1. FilterTypes' /\ Phases'
    BY <1>4 DEF FetchInv, FilterTypes, Phases, HandleLogsEnd, AssignHandleErr, FetchReturn
  <2>2. UNCHANGED <<InTransit, logs, fail, handleErr>>
    BY <1>4 DEF HandleLogsEnd, AssignHandleErr, FetchReturn, InTransit
  <2> QED BY <2>1, <2>2 DEF FetchInv, NothingLostOnTheWay
<1> QED BY <1>1, <1>2, <1>3, <1>4 DEF MainStep

LEMMA DeliverKeeps ==
    ASSUME FetchInv, Deliver PROVE FetchInv'
<1> DEFINE before == (handled \o eventCh) \o event
<1>1. /\ handled \in Seq(Log) /\ eventCh \in Seq(Log) /\ event \in Seq(Log)
      /\ itLogs \in Seq(Log) /\ toDeliver \in Seq(Log) /\ toDeliver # <<>>
  BY DEF FetchInv, FilterTypes, Deliver
<1>2. before \in Seq(Log)
  BY <1>1, ConcatProperties
<1>3. Tail(toDeliver) \in Seq(Log) /\ Append(itLogs, Head(toDeliver)) \in Seq(Log)
  BY <1>1, MoveHead
<1>4. MovedHead(before, itLogs, toDeliver)
  BY <1>1, <1>2, MoveHeadBehind
<1>5. FilterTypes'
  BY <1>3 DEF FetchInv, FilterTypes, Deliver, itVars, chVars, outcomeVars
<1>6. Phases'
  BY <1>1 DEF FetchInv, Phases, Deliver, itVars, chVars, outcomeVars
<1>7. UNCHANGED <<InTransit, logs, fail, handleErr>>
  BY <1>4 DEF MovedHead, Deliver, InTransit, itVars, chVars, outcomeVars
<1> QED BY <1>5, <1>6, <1>7 DEF FetchInv, NothingLostOnTheWay

LEMMA FilterStepKeeps ==
    ASSUME FetchInv, FilterStep PROVE FetchInv'
<1> USE DEF subVars, itVars, chVars, outcomeVars
<1>0. /\ handled \in Seq(Log) /\ eventCh \in Seq(Log) /\ event \in Seq(Log)
      /\ itLogs \in Seq(Log) /\ toDeliver \in Seq(Log)
  BY DEF FetchInv, FilterTypes
<1>1. CASE FilterLogs
  <2>1. /\ handled = <<>> /\ eventCh = <<>> /\ event = <<>> /\ logs' \in Seq(Log)
        /\ toDeliver' = logs' /\ itLogs' = <<>> /\ <<>> \in Seq(Log)
    BY <1>0, <1>1, EmptySeq, LogFilterAssumption DEF FetchInv, FilterTypes, Phases, FilterLogs
  <2>2. FilterTypes'
    BY <1>1, <2>1 DEF FetchInv, FilterTypes, FilterLogs
  <2>3. Phases'
    <3>1. ~done /\ ~closed
      BY <1>1 DEF FetchInv, Phases, FilterLogs
    <3> QED BY <1>1, <2>1, <3>1 DEF FetchInv, Phases, FilterLogs
  <2>4. InTransit' = logs'
    BY <1>1, <2>1, ConcatEmptySeq DEF FilterLogs, InTransit
  <2> QED BY <2>2, <2>3, <2>4 DEF FetchInv, NothingLostOnTheWay
<1>2. CASE FilterLogsErr
  <2>0. filterErr' /\ filterErr' \in BOOLEAN
    BY <1>2, Zenon DEF FilterLogsErr
  <2>1. FilterTypes' /\ Phases'
    BY <1>2, <2>0 DEF FetchInv, FilterTypes, Phases, FilterLogsErr
  <2>2. UNCHANGED <<InTransit, logs, fail, handleErr>>
    BY <1>2 DEF FilterLogsErr, InTransit
  <2> QED BY <2>1, <2>2 DEF FetchInv, NothingLostOnTheWay
<1>3. CASE TakeLog
  <2>0. /\ Head(itLogs) \in Log /\ Tail(itLogs) \in Seq(Log)
        /\ <<Head(itLogs)>> \in Seq(Log) /\ Len(<<Head(itLogs)>>) = 1
    BY <1>0, <1>3 DEF TakeLog
  <2>1. CASE event' = <<Head(itLogs)>> /\ filter' = "handle" /\ UNCHANGED fail
    <3>1. FilterTypes'
      BY <1>3, <2>0, <2>1 DEF FetchInv, FilterTypes, TakeLog
    <3>2. Phases'
      BY <1>3, <2>0, <2>1 DEF FetchInv, Phases, TakeLog
    <3>3. handled \o eventCh \in Seq(Log)
      BY <1>0, ConcatProperties
    <3>4. event = <<>>
      BY <1>0, <1>3 DEF FetchInv, FilterTypes, TakeLog
    <3>5. ((handled \o eventCh) \o event) \o itLogs
            = ((handled \o eventCh) \o <<Head(itLogs)>>) \o Tail(itLogs)
      <4>1. (handled \o eventCh) \o event = handled \o eventCh
        BY <3>3, <3>4, ConcatEmptySeq
      <4>2. (handled \o eventCh) \o itLogs
              = ((handled \o eventCh) \o <<Head(itLogs)>>) \o Tail(itLogs)
        BY <1>0, <1>3, <3>3, MoveHead DEF TakeLog
      <4> QED BY <4>1, <4>2
    <3>6. UNCHANGED <<InTransit, logs, fail, handleErr>>
      BY <1>3, <2>1, <3>5 DEF TakeLog, InTransit
    <3> QED BY <3>1, <3>2, <3>6 DEF FetchInv, NothingLostOnTheWay
  <2>2. CASE fail' = TRUE /\ filter' = "assign" /\ UNCHANGED event
    <3>0. fail' \in BOOLEAN /\ fail'
      BY <2>2, Zenon
    <3>1. FilterTypes'
      BY <1>3, <2>0, <3>0, <2>2 DEF FetchInv, FilterTypes, TakeLog
    <3>2. Phases'
      BY <1>3, <2>0, <3>0, <2>2 DEF FetchInv, Phases, TakeLog
    <3> QED BY <3>0, <3>1, <3>2 DEF FetchInv, NothingLostOnTheWay
  <2> QED BY <1>3, <2>1, <2>2 DEF TakeLog
<1>4. CASE SeeEnd
  <2>0. done' /\ done' \in BOOLEAN /\ toDeliver = <<>>
    BY <1>4, Zenon DEF SeeEnd, SubEnded
  <2>1. FilterTypes' /\ Phases'
    BY <1>4, <2>0 DEF FetchInv, FilterTypes, Phases, SeeEnd
  <2>2. UNCHANGED <<InTransit, logs, fail, handleErr>>
    BY <1>4 DEF SeeEnd, InTransit
  <2> QED BY <2>1, <2>2 DEF FetchInv, NothingLostOnTheWay
<1>5. CASE NextFalse
  <2>1. FilterTypes' /\ Phases'
    BY <1>5 DEF FetchInv, FilterTypes, Phases, NextFalse
  <2>2. UNCHANGED <<InTransit, logs, fail, handleErr>>
    BY <1>5 DEF NextFalse, InTransit
  <2> QED BY <2>1, <2>2 DEF FetchInv, NothingLostOnTheWay
<1>6. CASE SendEvent
  <2>1. event # <<>> /\ Tail(event) = <<>> /\ <<>> \in Seq(Log) /\ Len(<<>>) = 0
    BY <1>0, <1>6, OneHead DEF FetchInv, FilterTypes, SendEvent
  <2>2. Append(eventCh, Head(event)) \in Seq(Log)
    BY <1>0, <2>1, MoveHead
  <2>3. MovedHead(handled, eventCh, event)
    BY <1>0, <2>1, MoveHeadBehind
  <2>4. FilterTypes'
    BY <1>6, <2>1, <2>2 DEF FetchInv, FilterTypes, SendEvent
  <2>5. Phases'
    BY <1>6, <2>1, <2>2 DEF FetchInv, FilterTypes, Phases, SendEvent
  <2>6. UNCHANGED <<InTransit, logs, fail, handleErr>>
    BY <1>6, <2>1, <2>3 DEF MovedHead, SendEvent, InTransit
  <2> QED BY <2>4, <2>5, <2>6 DEF FetchInv, NothingLostOnTheWay
<1>7. CASE AssignFilterErr \/ CloseCh
  <2>0. closed' \in BOOLEAN
    BY <1>7, Zenon DEF AssignFilterErr, CloseCh, FetchInv, FilterTypes
  <2>1. FilterTypes' /\ Phases'
    BY <1>7, <2>0 DEF FetchInv, FilterTypes, Phases, AssignFilterErr, CloseCh
  <2>2. UNCHANGED <<InTransit, logs, fail, handleErr>>
    BY <1>7 DEF AssignFilterErr, CloseCh, InTransit
  <2> QED BY <2>1, <2>2 DEF FetchInv, NothingLostOnTheWay
<1> QED BY <1>1, <1>2, <1>3, <1>4, <1>5, <1>6, <1>7 DEF FilterStep

LEMMA FetchNextInv == FetchInv /\ [FilterNext]_filterVars => FetchInv'
<1>1. ASSUME FetchInv, UNCHANGED filterVars PROVE FetchInv'
  BY <1>1 DEF filterVars, subVars, itVars, chVars, outcomeVars, FetchInv, FilterTypes, Phases,
              NothingLostOnTheWay, InTransit
<1> QED BY <1>1, MainStepKeeps, DeliverKeeps, FilterStepKeeps DEF FilterNext

\* For logs of any number and channels of any size: every log of the node's answer
\* is in one of the places on the way to handleLogs, in its order, once.
THEOREM FetchLosesNothing == Spec => []NothingLostOnTheWay
<1>1. FetchInv => NothingLostOnTheWay
  BY DEF FetchInv
<1> QED BY <1>1, FilterInitInv, FetchNextInv, Halves, PTL DEF Spec, Init

\* A fetch that returns no error missed nothing unless an error was dropped: when it
\* returns, nothing is left on the way, so that InTransit is what was handled.
THEOREM FetchComplete == Spec => []CompleteUnlessDropped
<1>1. FetchInv => CompleteUnlessDropped
  <2> SUFFICES ASSUME FetchInv, main = "returned", result = "nil", ~filterErr, ~fail, ~handleErr
               PROVE  handled = logs
    BY DEF CompleteUnlessDropped
  <2>1. filter = "ended" /\ eventCh = <<>>
    BY DEF FetchInv, Phases
  <2>2. toDeliver = <<>> /\ itLogs = <<>> /\ event = <<>> /\ handled \in Seq(Log)
    BY <2>1 DEF FetchInv, FilterTypes, Phases
  <2>3. InTransit = handled
    BY <2>1, <2>2, ConcatEmptySeq DEF InTransit
  <2> QED BY <2>3 DEF FetchInv, NothingLostOnTheWay
<1> QED BY <1>1, FilterInitInv, FetchNextInv, Halves, PTL DEF Spec, Init
\* A channel is never fuller than its capacity, as nobody sends before there is room.
Capacity == Len(itLogs) <= BufferSize /\ Len(eventCh) <= ChannelSize

LEMMA CapacityInit == FilterInit => Capacity
BY LogFilterAssumption DEF FilterInit, Capacity

LEMMA CapacityNext == FetchInv /\ Capacity /\ [FilterNext]_filterVars => Capacity'
<1> SUFFICES ASSUME FetchInv, Capacity, [FilterNext]_filterVars PROVE Capacity'
  OBVIOUS
<1> USE DEF subVars, itVars, chVars, outcomeVars
<1>0. /\ itLogs \in Seq(Log) /\ eventCh \in Seq(Log) /\ toDeliver \in Seq(Log)
      /\ event \in Seq(Log)
      /\ Len(itLogs) <= BufferSize /\ Len(eventCh) <= ChannelSize
      /\ Len(<<>>) = 0 /\ BufferSize \in Nat /\ ChannelSize \in Nat
  BY LogFilterAssumption DEF FetchInv, FilterTypes, Capacity
<1>1. CASE HandleLog \/ TakeLog
  <2>1. itLogs' = itLogs \/ (itLogs # <<>> /\ itLogs' = Tail(itLogs))
    BY <1>1 DEF HandleLog, TakeLog
  <2>2. eventCh' = eventCh \/ (eventCh # <<>> /\ eventCh' = Tail(eventCh))
    BY <1>1 DEF HandleLog, TakeLog
  <2> QED BY <1>0, <2>1, <2>2 DEF Capacity
<1>2. CASE Deliver
  BY <1>0, <1>2 DEF Deliver, Capacity
<1>3. CASE SendEvent
  BY <1>0, <1>3 DEF SendEvent, Capacity
<1>4. CASE FilterLogs
  BY <1>0, <1>4 DEF FilterLogs, Capacity
<1>5. CASE UNCHANGED <<itLogs, eventCh>>
  BY <1>5 DEF Capacity
<1>6. HandleLog \/ TakeLog \/ Deliver \/ SendEvent \/ FilterLogs \/ UNCHANGED <<itLogs, eventCh>>
  BY DEF FilterNext, MainStep, FilterStep, FetchHead, FetchHeadErr, HandleLogsEnd,
         AssignHandleErr, FetchReturn, FilterLogsErr, SeeEnd, NextFalse, AssignFilterErr,
         CloseCh, filterVars
<1> QED BY <1>1, <1>2, <1>3, <1>4, <1>5, <1>6

\* For channels of any size: the counters of both goroutines are where the code can
\* be, and neither channel holds more than it can (client.go:275, bridge.go:145).
THEOREM FilterTypeCorrect == Spec => []FilterTypeOK
<1>1. FetchInv /\ Capacity => FilterTypeOK
  <2> SUFFICES ASSUME FetchInv, Capacity PROVE FilterTypeOK
    OBVIOUS
  <2>1. {done, fail, closed, handleErr, filterErr} \subseteq BOOLEAN
    BY Zenon DEF FetchInv, FilterTypes
  <2> QED BY <2>1 DEF FetchInv, FilterTypes, Capacity, FilterTypeOK
<1> QED BY <1>1, FilterInitInv, FetchNextInv, CapacityInit, CapacityNext, Halves, PTL
        DEF Spec, Init
=============================================================================
