----------------------------- MODULE LogFilter -----------------------------
(***************************************************************************)
(* One fetch: FetchERC20 and FetchNFT hand the logs of a filter from a       *)
(* subscription through the generated iterator and a channel to handleLogs.  *)
(* Three goroutines: the main one, the fetch's (which filters) and the       *)
(* subscription's (which delivers).  The first two share the variable err.   *)
(***************************************************************************)
EXTENDS Integers, Sequences

CONSTANTS
    Log,            \* the deposit logs
    Logs,           \* what the node may answer: a set of sequences of logs
    BufferSize,     \* of the subscription's channel, 128 in go-ethereum
    ChannelSize     \* of eventCh, 256

ASSUME LogFilterAssumption ==
    Logs \subseteq Seq(Log) /\ BufferSize \in Nat \ {0} /\ ChannelSize \in Nat \ {0}

VARIABLES
    main,       \* the main goroutine: "head", "range", "assign", "return", "returned"
    filter,     \* the fetch's: "none", "filter", "next", "handle", "assign", "close", "ended"
    logs,       \* what the node answered
    toDeliver,  \* the logs the subscription has still to deliver
    itLogs,     \* it.logs, its channel
    done,       \* it.done
    fail,       \* it.fail # nil
    event,      \* it.Event, as a sequence of at most one log
    eventCh, closed,
    handled,    \* the logs handleLogs took from eventCh
    handleErr,  \* it returned an error
    filterErr,  \* FilterERC20Deposited returned one
    err,        \* the err both goroutines assign: "nil" or an error
    result      \* what the fetch returned

subVars == <<logs, toDeliver, itLogs>>
itVars == <<done, fail, event>>
chVars == <<eventCh, closed>>
outcomeVars == <<handled, handleErr>>
filterVars == <<main, filter, subVars, itVars, chVars, outcomeVars, filterErr, err, result>>

FilterInit ==
    /\ main = "head" /\ filter = "none"
    /\ logs = <<>> /\ toDeliver = <<>> /\ itLogs = <<>>
    /\ done = FALSE /\ fail = FALSE /\ event = <<>>
    /\ eventCh = <<>> /\ closed = FALSE
    /\ handled = <<>> /\ handleErr = FALSE /\ filterErr = FALSE
    /\ err = "nil" /\ result = "none"

-----------------------------------------------------------------------------
(* The main goroutine.                                                       *)

\* LatestBlockNumber answers, and the other goroutine starts.
FetchHead ==
    /\ main = "head"
    /\ main' = "range" /\ filter' = "filter"
    /\ UNCHANGED <<subVars, itVars, chVars, outcomeVars, filterErr, err, result>>

FetchHeadErr ==
    /\ main = "head"
    /\ main' = "returned" /\ result' = "head"
    /\ UNCHANGED <<filter, subVars, itVars, chVars, outcomeVars, filterErr, err>>

\* One turn of handleLogs: the event is handled, or the store or send fails and
\* handleLogs returns with eventCh left as it is.
HandleLog ==
    /\ main = "range" /\ eventCh # <<>>
    /\ eventCh' = Tail(eventCh)
    /\ \/ handled' = Append(handled, Head(eventCh)) /\ UNCHANGED <<main, handleErr>>
       \/ main' = "assign" /\ handleErr' = TRUE /\ UNCHANGED handled
    /\ UNCHANGED <<filter, subVars, itVars, closed, filterErr, err, result>>

HandleLogsEnd ==
    /\ main = "range" /\ eventCh = <<>> /\ closed
    /\ main' = "assign"
    /\ UNCHANGED <<filter, subVars, itVars, chVars, outcomeVars, filterErr, err, result>>

\* err = b.handleLogs(ctx, eventCh)
AssignHandleErr ==
    /\ main = "assign"
    /\ main' = "return"
    /\ err' = IF handleErr THEN "handle" ELSE "nil"
    /\ UNCHANGED <<filter, subVars, itVars, chVars, outcomeVars, filterErr, result>>

\* return end, err
FetchReturn ==
    /\ main = "return"
    /\ main' = "returned" /\ result' = err
    /\ UNCHANGED <<filter, subVars, itVars, chVars, outcomeVars, filterErr, err>>

-----------------------------------------------------------------------------
(* go-ethereum's subscription to past logs (external): it sends the logs of   *)
(* the node's answer one by one and, after the last, nil as its error.       *)

\* Bug: the channel of the subscription takes any number of logs.
DeliverUnbounded ==
    /\ toDeliver # <<>>
    /\ itLogs' = Append(itLogs, Head(toDeliver))
    /\ toDeliver' = Tail(toDeliver)
    /\ UNCHANGED <<main, filter, logs, itVars, chVars, outcomeVars, filterErr, err, result>>

Deliver ==
    /\ toDeliver # <<>> /\ Len(itLogs) < BufferSize
    /\ itLogs' = Append(itLogs, Head(toDeliver))
    /\ toDeliver' = Tail(toDeliver)
    /\ UNCHANGED <<main, filter, logs, itVars, chVars, outcomeVars, filterErr, err, result>>

SubEnded == toDeliver = <<>>

-----------------------------------------------------------------------------
(* The fetch's goroutine: FilterERC20Deposited or FilterNFTDeposited.        *)

FilterLogs ==
    /\ filter = "filter"
    /\ filter' = "next"
    /\ logs' \in Logs /\ toDeliver' = logs' /\ itLogs' = <<>>
    /\ UNCHANGED <<main, itVars, chVars, outcomeVars, filterErr, err, result>>

FilterLogsErr ==
    /\ filter = "filter"
    /\ filter' = "assign" /\ filterErr' = TRUE
    /\ UNCHANGED <<main, subVars, itVars, chVars, outcomeVars, err, result>>

\* Next takes a log, and unpacks it or fails.  Before it is done it may do so as
\* soon as there is one; afterwards it takes what is left in the channel.
TakeLog ==
    /\ filter = "next" /\ ~fail /\ itLogs # <<>>
    /\ itLogs' = Tail(itLogs)
    /\ \/ event' = <<Head(itLogs)>> /\ filter' = "handle" /\ UNCHANGED fail
       \/ fail' = TRUE /\ filter' = "assign" /\ UNCHANGED event
    /\ UNCHANGED <<main, logs, toDeliver, done, chVars, outcomeVars, filterErr, err, result>>

\* Next hears that the subscription ended, maybe with logs still in its channel; the
\* error it hears is nil.
SeeEnd ==
    /\ filter = "next" /\ ~done /\ SubEnded
    /\ done' = TRUE
    /\ UNCHANGED <<main, filter, subVars, fail, event, chVars, outcomeVars, filterErr, err, result>>

\* Bug: the iterator ends as soon as it hears of the end.
NextFalseEarly ==
    /\ filter = "next" /\ done
    /\ filter' = "assign"
    /\ UNCHANGED <<main, subVars, itVars, chVars, outcomeVars, filterErr, err, result>>

\* Next returns false, and the filter nil: nobody asks for it.Error().
NextFalse ==
    /\ filter = "next" /\ done /\ itLogs = <<>>
    /\ filter' = "assign"
    /\ UNCHANGED <<main, subVars, itVars, chVars, outcomeVars, filterErr, err, result>>

\* Bug: the callback drops the event when the channel is full.
SendOrDrop ==
    /\ filter = "handle"
    /\ eventCh' = IF Len(eventCh) < ChannelSize THEN Append(eventCh, Head(event)) ELSE eventCh
    /\ event' = <<>>
    /\ filter' = "next"
    /\ UNCHANGED <<main, subVars, done, fail, closed, outcomeVars, filterErr, err, result>>

\* The callback: eventCh <- e, which waits while the channel is full.
SendEvent ==
    /\ filter = "handle" /\ Len(eventCh) < ChannelSize
    /\ eventCh' = Append(eventCh, Head(event))
    /\ event' = <<>>
    /\ filter' = "next"
    /\ UNCHANGED <<main, subVars, done, fail, closed, outcomeVars, filterErr, err, result>>

\* err = b.reaadClient.FilterERC20Deposited(...), logged when it is not nil.
AssignFilterErr ==
    /\ filter = "assign"
    /\ filter' = "close"
    /\ err' = IF filterErr THEN "filter" ELSE "nil"
    /\ UNCHANGED <<main, subVars, itVars, chVars, outcomeVars, filterErr, result>>

\* Bug: the channel is closed only after a filter without an error.
CloseIfNoErr ==
    /\ filter = "close"
    /\ filter' = "ended" /\ closed' = ~filterErr
    /\ UNCHANGED <<main, subVars, itVars, eventCh, outcomeVars, filterErr, err, result>>

CloseCh ==
    /\ filter = "close"
    /\ filter' = "ended" /\ closed' = TRUE
    /\ UNCHANGED <<main, subVars, itVars, eventCh, outcomeVars, filterErr, err, result>>

-----------------------------------------------------------------------------
MainStep ==
    FetchHead \/ FetchHeadErr \/ HandleLog \/ HandleLogsEnd \/ AssignHandleErr \/ FetchReturn
FilterStep ==
    \/ FilterLogs \/ FilterLogsErr \/ TakeLog \/ SeeEnd \/ NextFalse
    \/ SendEvent \/ AssignFilterErr \/ CloseCh
FilterNext == MainStep \/ Deliver \/ FilterStep

FilterSpec == FilterInit /\ [][FilterNext]_filterVars

-----------------------------------------------------------------------------
(* Properties.                                                               *)

\* The program counters, and the channels within their capacity.
FilterTypeOK ==
    /\ main \in {"head", "range", "assign", "return", "returned"}
    /\ filter \in {"none", "filter", "next", "handle", "assign", "close", "ended"}
    /\ Len(itLogs) <= BufferSize /\ Len(eventCh) <= ChannelSize
    /\ Len(event) = IF filter = "handle" THEN 1 ELSE 0
    /\ {done, fail, closed, handleErr, filterErr} \subseteq BOOLEAN

\* What the three goroutines have between them, from the first log handled to the
\* last one not delivered, unless one was refused on its way.
InTransit == handled \o eventCh \o event \o itLogs \o toDeliver

\* Nothing is lost, duplicated or reordered on the way from the node's answer to
\* handleLogs (bank.go:475, client.go:275, bridge.go:145), although the iterator
\* may learn of the end before it has taken the last log.
NothingLostOnTheWay == ~fail /\ ~handleErr => InTransit = logs

\* A fetch that returns no error handled every log of the filter's range, unless an
\* error was dropped: of the filter, which is only logged (bridge.go:146), of the
\* iterator, which is not asked (client.go:287), or of handleLogs, whose err the
\* other goroutine may overwrite (bridge.go:150).
CompleteUnlessDropped ==
    main = "returned" /\ result = "nil" /\ ~filterErr /\ ~fail /\ ~handleErr => handled = logs

\* Every fetch comes to its end: the goroutines wait for each other over two full
\* channels, but never in a circle.
FetchReturns == main = "head" ~> main = "returned"
=============================================================================
