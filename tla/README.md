# A verification project for evm-bridge

The repository moves tokens between two EVM chains. A user deposits a token into
the **bank** contract of the *in chain*; the daemon `bridgecli serve` reads the
bank's deposit logs and mints a wrapped token on the *out chain*. This directory
holds TLA+ models of that code, TLC configurations that check them on small
instances, and proofs that TLAPS checks for every instance.

## 1. Inventory

| Part | Source | State | Operations |
| --- | --- | --- | --- |
| Daemon main loop | `cli/cmd/bridgecli/serve.go`, `cli/bridge/rotator.go` | the rotator's slot | on every tick: rotate, look at the slot's map, store the slot's confirmed block, fetch; on a signal: close; on any fetch error: die (`handleErr`) |
| Bridge | `cli/bridge/bridge.go` | `ConfirmedBlockERC20`, `ConfirmedBlockNFT`, the two `EventMap`s | `FetchERC20`, `FetchNFT`, `handleLogs`, `send`, `mint`, `confirmedHandler`, `confirmerErrHandler`, `Close` |
| Wallet | `cli/bridge/wallet.go` | the nonce | read once at start from the latest block, incremented by every `mint` |
| Client | `cli/client/client.go`, iterators in `cli/client/bank.go` | none of its own; a fetch has two channels and the shared `err` | `LatestBlockNumber`, `Nonce`, `SendTx`, `ConfirmTx`, log filters, `Build…MintTx` with its gas estimate |
| Store | `cli/pb/*.go`, `cli/proto/*.proto` on LevelDB | events (status, retry), confirmed block per slot, pairs, as bytes | `Get`, `Put`, through `Marshal` and `Unmarshal` |
| Operator | `cli/cmd/bridgecli/pair.go` | none | `pair set` while no daemon holds LevelDB's lock |
| Confirmer | library `transaction-confirmer`, external | bounded queue, transactions it polls | `EnqueueTx`; its workers submit, poll and call the two handlers |
| Bank | `contracts/Bank.sol` | funds, three deposit indices | deposits and withdrawals of coin, ERC20, NFT |
| Bridge contract | `contracts/Bridge.sol` | two whitelists, the bank | forwards to the bank, edits whitelists |
| Access control | `contracts/AccessControlRegistry.sol`, `AccessController.sol` | version, controllers, roles | `setAccessControler`, `setupRole`, `setRoleAdmin` |
| Wrapped tokens | `contracts/WrappedToken.sol`, `MockNFT.sol` | balances, owners | `mint`, `safeMint`, `burn` |

How they interact. The main goroutine and the confirmer's workers share the two
event maps, the wallet and the store. A fetch writes a hash into a map *and then*
enqueues the transaction; the confirmer calls back with the hash, and the handler
reads and deletes the map entry, then writes the store or sends again. The main
loop reads only the **length** of a map, without its lock: zero means that every
mint of the last fetch is confirmed, so that fetch's end block may be stored.
After a crash, the stored block is where fetching resumes, and everything in
memory is lost. The chains go on by themselves. A fetch itself is three goroutines:
go-ethereum's subscription delivers logs to the generated iterator, the fetch's
goroutine takes them from it and sends them on a channel, and `handleLogs` ranges
over that channel.

What is hard: the interleavings of the main goroutine with the workers on the
maps; the one-fetch lag between the confirmed block in memory and in the store;
crashes and restarts with transactions pending; errors that are logged and
dropped; a retry that must not lose the event it carries; the wallet's nonces,
where one hole blocks every later mint; a channel that ends before it is empty, or
never; a confirmation that a reorganisation takes back; lengths in stored bytes that
overflow an index. `PROJECT.json` lists each hazard at its
line with the properties aimed at it.

What makes each part correct: a deposit is recorded as SUCCEEDED only if minted,
as FAILED only after its retries; a record does not change afterwards; the stored
block passes no deposit that could still be lost; no callback with the hash of a
transaction misses its event (`ErrHandler("")`, after a failed `SendTx`, has no hash
to find one by); no nonce is left unused as long as gas estimates succeed (a failed
one loses its nonce); every deposit is minted in the end and neither slot
stops being fetched; for the contracts, that what the bank holds is what was
deposited and not withdrawn and lets go of it only when permitted, that access
comes only from those who have it, that versions of the controllers are kept; and
that a token id survives the conversions on its way; for the store, that what is
read back is what was put, whatever a later version added; for a fetch, that it
returns, and complete if it returns no error; that a confirmed mint stays.

## 2. Modules

| Module | What it is |
| --- | --- |
| `Relayer` | daemon, bridge, wallet, store, confirmer and both chains |
| `MCRelayer` | instances of `Relayer` for TLC |
| `Ledger` | the abstract bridge, which `Relayer` implements |
| `RelayerProofs` | types, callbacks, SUCCEEDED records, the stored confirmed block (TLAPS) |
| `RetryProofs` | FAILED records, nonces, the refinement of `Ledger` (TLAPS) |
| `Wire` | the four records: what `Marshal` writes, `Size` reserves, `Unmarshal` knows |
| `Unmarshal` | the generated `Unmarshal` and `skip`, loop by loop |
| `Store` (extends both), `MCStore` | every `Get` and `Put` of the daemon, on bytes |
| `Records` | the abstract store, which `Store` implements |
| `UnmarshalProofs` | bounds, progress and types of `Unmarshal`, the length of what `Marshal` writes (TLAPS) |
| `StoreProofs` | the same for `Store`, and the refinement of `Records` (TLAPS) |
| `LogFilter` | one fetch with its goroutines and channels |
| `Confirm` | `ConfirmTx` on a chain that reorganises |
| `Client`, `MCClient` | the two side by side |
| `ClientProofs` | both (TLAPS) |
| `Bank`, `MCBank`, `BankProofs` | `Bank.sol` with `Bridge.sol`: custody |
| `AccessControl`, `MCAccessControl`, `AccessControlProofs` | the registries and their controllers |
| `TokenId`, `MCTokenId`, `TokenIdProofs` | an NFT's id from the bank's log to `safeMint` |

### Relayer

One process, composed of its goroutines, between two chains. `pc` says where the
main goroutine is: `idle` (in the `select`), `fetch` (the block is stored, the
head not yet read), `logs` (in `handleLogs`, before the next `Get`), `mint` (the
record was looked at, `IncrementNonce` comes), `build` (before the gas estimate),
`enqueue` (between `writeEventMap` and `EnqueueTx` in `send`), `closing`, `closeNFT`, `closed`, or `down` when there
is no process. `event` is what `handleLogs` holds from `Get` to `writeEventMap`: the
deposit with the retry count it read, which a handler may have made stale since.
`worker[w]` says which step of a handler a worker is in, once it
has deleted the map entry. A step ends where another goroutine, a crash or a
chain could see the difference:

- `TickFetch`, `TickBusy`: one tick of `start()`; the rotation, the unlocked look
  at the map, the `Put` of the confirmed block.
- `Fetch`, `FetchLatestErr`, `FetchFilterErr`: the head is read and the logs from
  the confirmed block to it, both included, are filtered. The channel of the code
  is the set `logs`, taken in the order of `LogBefore`.
- `HandleSkip`, `HandleNoPair`, `HandlePanic`, `HandleGetErr`: turns of `handleLogs`
  that end with what `Get` and `GetPair` return. A deposit that is sent takes
  `HandleGet` (`Get` and `GetPair`), `HandleNonce`, `HandleWrite` (the estimate, which
  may fail: `HandleMintErr`, and `writeEventMap`) and `Enqueue`/`EnqueueErr`; between
  any two of them a worker may store an outcome or take a nonce, and a chain may
  mine. The estimate
  and the map write are one step: nobody looks for the hash before it is enqueued, and
  the map as a whole is looked at by the main goroutine only. `FetchDone` ends the fetch.
  `HandleLogsErr` is an error that reaches `handleErr`, unless the race on `err`
  in `FetchERC20` loses it.
- `Submit`, `SubmitErr`, `ConfirmedHandler`, `TxFailed`, `PollErr`, `PutSucceeded`,
  `PutFailed`, `PutErr`, `RetryNonce`, `RetryBuild`, `RetryWrite`, `RetryErr`,
  `RetryEnqueue`, `RetryEnqueueErr`: the workers. A handler is at least two steps: it
  deletes the map entry, then stores the outcome, or takes a nonce, has the gas
  estimated, writes the map and enqueues. Here the map write is a step of its own,
  because the main goroutine may look at the map before it.
- `Signal`, `CloseWait`, `CloseCommitERC20`, `CloseCommitNFT`, `CloseExit`: `Close`.
- `Start`, `Crash`, `Exit`, `PairSet`; `MineIn`, `MineOut` for the chains.

A transaction is its nonce and its event, and is its own hash. An event is a
positive number (the bank's ids start at 0; 0 stands for "none" here). Each event
has a kind (its slot) and a token.

What a run may let go wrong is the constant `Faults`; each name in `FaultNames`
is one kind of failure at the calls where the code meets it.

Assumed of code that is not in this repository:

- `EnqueueTx` fails when the confirmer's queue is full, and never blocks;
- when `SendTx` returns an error the confirmer calls the error handler with the
  hash `SendTx` returned, which is `""`;
- the node refuses a transaction whose nonce is used or pending, and mines an
  account's transactions in nonce order;
- the wallet library reads the nonce once, when it is made;
- LevelDB admits one process, so `pair set` runs only between two lives;
- neither chain reorganises here: `Confirm` is about that.

`Ledger` is what a depositor may rely on, without goroutines or processes:
deposits are logged, mints of logged deposits are attempted, and a status is
recorded when the out chain bears it out. `Books` instantiates it with the logs
emitted, the mined mints and the stored statuses; `KeepsBooks` says that `Relayer`
implements it. It does not forbid a second mint, because the daemon may make one
(`MintedOnce`).

A deposit is *settled* (`Settled`) when it is stored as SUCCEEDED and nobody has it in
hand: no map, no handler, and no `handleLogs` that looked at its record before
(`Sending`). The last is needed: a handler may store SUCCEEDED (`bridge.go:268`) after
`handleLogs` looked (`bridge.go:187`) and before it writes the map (`bridge.go:224`),
and the deposit is then sent once more. `SettledIsFinal` says that this is all that
can happen: what is settled stays settled.

### Bank

The two contracts that hold and forward, in one module because each call of the
bridge is one call of the bank. `balance` and `allowance` are the state of coin
and tokens, `calls` the stack of bank calls that wait for another contract. The
bank calls out in the middle of a function in three cases: it pays coins, it hands
over an NFT (`safeTransferFrom` asks the receiver), or an ERC20 calls back the account a
transfer concerns (`Hooked`). There, the function is two actions — `Withdraw` and
`WithdrawReturns`, `DepositToken` and `DepositTokenReturns` — and in between only
the account called (`MayCall`) may act; the rest of a function is one step. A
frame's `under` sums up the withdrawals below it, moved but not logged; a frame of a
withdrawal also says who called (`by`) and which contract (`via`), which is what
`OnlyPermitedWithdraw` asks about. `BankWithdraw` and `BridgeWithdraw` are the two ways
in, each with the check of its contract, and then the bank's `Withdraw`. A
transaction that reverts is no step: a deposit that could only revert is not entered
where nobody is called in between, and where somebody is, its frame stays on the
stack, which is why this configuration switches the deadlock check off.

A deposit names any account as its sender, the bank included: an NFT contract lets the
bank move its own token to itself (`Bank.sol:147`), and some ERC20s do. Such a log
stands for nothing, so `deposited` sums up the logs that name another sender.
`CanSpend` is what a token asks for.

The roles are constants here (`AccessControl` says how they change). Left out:
deposits that name the bridge as their sender, which approves nobody, so that they
move nothing; ERC20s that move another amount than they are asked to (a fee), for
which `Custody` does not hold, as `Bank.sol:110` logs the amount asked for; calls of a
function with a token of the other standard; and coins sent to the bank other than by
`deposit`.

### AccessControl

Controllers with members and admins of roles, registries with a version counter.
`MaxVersion` is the largest `uint16`. OpenZeppelin's part is external: a role's
admin grants and revokes, anyone renounces. `NotAController` is any address without
`hasRole`: `setAccessControler` does not look.

### TokenId

`event.go:115` and `bridge.go:244` for words of any width: `Half` is 2^63 in the
code and `Full` is 2^256. One token contract, and nothing is withdrawn.

### Wire, Unmarshal, Store, Records

The three `.pb.go` files hold four messages and, for each, copies of the same
generated code. A step of that code is modelled once and mapped to one of its
copies; what differs (tags, fields, their order) is in `Wire`, from each message's
own functions. `Bytes` and `Size` are two definitions because they are two
functions: `Marshal` is right only if they agree (`SizeExact`).

`Unmarshal` keeps the locals of the Go function as variables: `iNdEx`, `preIndex`,
`postIndex`, the varint being read (`wire`, `scale` for the shift), and `skip`,
`depth` for the call of `skipEvent`. `pc` names the loop or the check it is at; each
byte of a varint is a step. Ints wrap (`Plus`, `Signed`). A read outside the slice would
be a panic: `ReadsInBounds` says that none happens.

`Store` adds the database and who calls: `Get…` fills a record from a log and then
unmarshals into it, `PutEvent`, `PutPair`, `PutBlock` store. A slice has less than
`Sign` bytes, because its length is an int (`IsSlice`), and so has what a Put writes:
`Marshal` could not make a longer one. `held` is what the
caller's last call left it with. `Parse` is `Unmarshal` on bytes from anywhere.
`Records` is the store the bridge believes in: a record comes back as it was put,
and who asks for one that is not there is left with what it asked with (`New`).
`Keys` are the keys of the bridge and the commands.
The mapping keeps `held`, and `records` is a history variable that only Put
changes.

### LogFilter, Confirm, Client

`LogFilter` is one `FetchERC20` or `FetchNFT`. `main` is the goroutine that runs
`handleLogs`, `filter` the one the fetch starts, and `Deliver`/`SubEnded` the
subscription's. `TakeLog`, `SeeEnd` and `NextFalse` are the iterator's `Next`, with
Go's free choice when a log and the end are both ready. Both goroutines assign
`err`, each in a step of its own, so either may overwrite the other's.

`Confirm` is one `ConfirmTx`, with a step between its two reads. `Reorganise`
replaces up to `ReorgDepth` blocks; the transaction lands anywhere above, or
nowhere. The confirmer polls again after `ErrTxNotFound` and `ErrTxConfirmPending`
only; an error of either read (`ReceiptErr`, `HeadErr`) is final, as is a failed
status, and goes to the error handler. `reorged` remembers that this happened between the reads.

`Client` runs both side by side, as the daemon does; they share nothing.

## 3. Runs

| Run | Faults | What it shows |
| --- | --- | --- |
| `faults` | all twelve | `TypeOK`; no callback with a transaction's hash misses its event; SUCCEEDED means minted; a settled record is final |
| `watermark` | crash, pair, latest, sendtx, put, estimate | `WatermarkSafe`: the stored block passes no deposit that a restart would lose |
| `retries` | crash, revert, latest, get, put, sendtx; ERC20 only | `FailedAfterRetries`; `NoNonceGap`, across a restart; `KeepsBooks`: `Relayer` implements `Ledger` |
| `liveness` | none, ERC20 only | `EventuallyMinted`, `FetchesPeriodically` |
| `double_mint` | none | violated: `MintedOnce` |
| `close_early` | signal, revert | violated: `CloseWaits` |
| `stuck_slot` | crash | violated: `FetchesPeriodically` |

The store, the client, the contracts and the token id:

| Run | Instance | What it shows |
| --- | --- | --- |
| `store` | 8-bit words, two records, every short string of 14 bytes that matter | `TypeOK`, `ReadsInBounds`, `FieldsConsume`, `GetReturns`; `SizeExact`; `KeepsPromise`: `Store` implements `Records` |
| `client` | up to four logs over channels of 1 and 2, two confirmations | `FilterTypeOK`, `NothingLostOnTheWay`, `CompleteUnlessDropped`, `FetchReturns`; `ConfirmedForGood` |
| `bank_custody` | coin, an NFT, an ERC20 with hooks, two nested calls | `TypeOK`, `Custody`, `OnlyPermitedWithdraw` |
| `access` | two controllers, two roles, versions 0 to 2 | `TypeOK`, `NoAccessFromNothing`, `VersionsKept`, `FrozenForGood` |
| `token_ids` | words of 2 bits, ids that fit | `TypeOK`, `SmallIdsFaithful`, `NoneBlocked` |

**Bounds.** Two deposits, two workers, one retry, one turn of `Close`: two
deposits are the least that share a slot or use both, two workers the least that
race each other, and one retry tells "tried again" from "given up".
`MaxHeight` 2 lets a fetch end at a block, a deposit arrive later, and the
boundary block be read twice; `faults` and `retries` use 1, because their faults
multiply the states (a later fetch then reads the same block again). The tokens of
`retries` are ERC20s and no estimate fails there: a retry whose estimate fails does
lose its nonce (`bridge.go:231`). `MaxNonce` bounds the transactions of one life and
`MaxOutages` the crashes and signals: one crash is one restart on whatever it left.
In the liveness runs the bounds must not stop the system by themselves: there
`MaxNonce` is larger than the number of mints that can happen (each deposit is
sent again at most once for every handler that holds it) and `QueueSize` equals
the number of transactions in flight, so that the queue is never full.
Workers are interchangeable and are a symmetry set, except in runs with liveness.
No run of `MCRelayer` switches the deadlock check off: a tick is always possible. The
one place where a bound stops the daemon is `handleLogs` with its nonces used up, and
`BoundedSpec` lets it stand there (`NoncesUsedUp`); it changes nothing else.

In `MCBank` an amount is 1, alice has one of each asset and operator none, the bank
permits the bridge and operator, the bridge permits operator, and alice has no role;
`MaxDepth` 2 is one call within another, and `MaxDeposits` 2 lets an asset be deposited
again after its withdrawal, or the bank's own be logged after alice's deposit. The
bounds stop a run by themselves, as does the end of the ids in `MCTokenId`:
both switch the deadlock check off. In `MCAccessControl` `MaxVersion` 2 reaches the
end of the counter after two changes, and two accounts are the least of which one
can lose what the other keeps; renouncing a role is always possible.

`MCStore` scales a 64-bit word to 8 bits and a 32-bit one to 5: a varint then has two
bytes, the second with one bit to spare, as the tenth has in the code, and a length
wraps with the bytes at hand. The inputs of `Parse` are all strings of up to three
bytes from an alphabet with a tag of every wire type, the ends of groups,
continuation bytes and the largest word, and longer ones that put an odd length
after a tag. `MaxRecords` 2 is one record beside another. `InitialDbs` holds, besides
nothing, records a later version wrote: a time, and unknown fields with nested
groups. Times are two byte strings that `StdTimeMarshalTo` could return.

In `MCClient` an answer has four logs at most, so that both channels fill up and
each goroutine has to wait. `Confirmations` equals `ReorgDepth`, the boundary of what
is promised, and `MaxBlocks` 5 lets a reorganisation come before, between and after
the reads. The fetch ends and the bound stops the chain, so the deadlock check is
off there: `FetchReturns` is what says that the goroutines do not wait for each
other.

**Fairness** (`FairSpec`). Weak fairness of the main goroutine, of `Close`, of
each worker, of the restart and of the out chain's miner. The Go scheduler runs a
runnable goroutine in the end, a ticker fires for ever, the confirmer's workers
loop, and the node mines what it pools. Nothing obliges a deposit, a signal or a
fault to happen. No step needs strong fairness: what a worker can do with a
transaction stays possible until it is done. In `Store`, weak fairness of `Decode`
and `Return`: `Unmarshal` is a plain loop. In `Client`, of each of the three
goroutines, and of nothing else: `FetchReturns` needs no help from the chains.

**Findings.** Each violated property is a sentence of the code or its texts that
the code does not keep: the daemon may mint twice without any fault, because the
handler deletes the map entry before it stores the outcome (`bridge.go:264`);
`Close` may not wait for a retry (`bridge.go:128`); and a crash with a mint pending
can stop a slot for good (`client.go:83`, `client.go:91`).

Seven more remarks, on which no run is spent. A failed log filter passes deposits
over (`bridge.go:146`): with `filter` among its faults `watermark` is violated, and
`CompleteUnlessDropped` says exactly which errors a fetch may drop. One NFT read
twice can keep the daemon from ever reaching the ERC20 slot (`serve.go:140`):
with an NFT deposit `EventuallyMinted` is violated. With `revert` among its faults
`watermark` is violated too, because a retry is in no map for a moment
(`bridge.go:286`) and a crash may then find the stored block past it. The bridge's
whitelist (`README.md:35`) is not asked when the bank is called directly
(`Bank.sol:105`), as the Go client does. Anyone may have the bank log a deposit of an
NFT that it holds already, in the bank's own name (`Bank.sol:147`): if those logs
counted as deposits, `Custody` would be violated, and the daemon does take them for
deposits. With `estimate` among its faults `retries` finds a nonce lost
(`NoNonceGap`). And an NFT with an id of 2^63 or more is
minted with another id, which the theorem `RoundTrip` states exactly.

## 4. Proofs

`ConstantsAssumption` is all that is assumed: any set of events, any workers, any
bounds, any faults.

- `TypeCorrect`: `TypeOK` is inductive; the two clauses on `enqueue` are what lets
  an enqueue keep the queue's type.
- `CallbacksHaveEvents`. `CallbacksFindTheirEvent` alone is not inductive: a
  handler deletes the entry of *its* hash, and the proof must know no other queue
  holds it. `OneHand` adds that a transaction is in one hand at a time: not in a map
  while it is being made (`Unwritten`), in a map and neither queued nor polled from
  then until it is enqueued (`Written`), and never with two goroutines; and that nonces
  in use are below the wallet's, which makes a new transaction fresh. `NoProcess`
  says that a process that is down holds nothing.
- `SucceededMeansMinted`: the handler that is about to store SUCCEEDED took its
  event from a transaction mined with status 1; mined transactions stay.
- `SettledForGood`: an action property, from the types and `OwnEvent`: what is being
  made mints the event that its goroutine has in hand, so that a deposit nobody has in
  hand is not about to enter a map.
- `NothingPassedOver`: `WatermarkSafe` under `MildFaults`. The invariant follows a
  deposit from the fetch to the store: while a fetch is handled its deposits are
  covered or still in `logs`; a deposit up to the confirmed block *in memory* is
  recorded, minted or in a map; a deposit up to the *stored* block is recorded or
  minted. A tick passes from the second to the third because it found the map
  empty, and that is sound only when a handler's event is minted already
  (`MintedInHand`) — true without reverts, and false with them. `MildFaults` names the faults under which the proof works;
  each one left out (`filter`, `get`, `lostErr`, `poll`, `revert`, `signal`) does
  break the property or the lemma.
- `FailedOnlyAfterRetries`. `FailedInv` follows the retry count through its three
  places: stored with a FAILED record, carried by an entry of a map, and in a
  worker's hand. A count is covered by mints of *other* transactions of the same
  deposit that were mined with status 0, so the handler of one more failure may add
  one. An entry whose transaction can no longer call back (its nonce was taken by
  another after a restart) promises nothing, hence `Pending`. Without `poll`: that error
  records FAILED at once.
- `NoNonceLost`: whoever drops the transaction of a nonce above the mined ones leaves
  it with another carrier, or leaves an entry in a map. `Tidy` says which hands are
  empty when. Under `EstimatesSucceed`, because a failing estimate spends a nonce on
  nothing.
- `RelayerKeepsBooks`: every step of `Relayer` is one of `Ledger` or none. The two
  steps that record need `FailedInv` and `SucceededInv`; a mint is of a logged deposit
  because every transaction and handler is about one (`LoggedOnly`).

The store and the client, from `WireAssumption`, `UnmarshalAssumption`,
`StoreAssumption`, `LogFilterAssumption` and `ConfirmAssumption`. The first three say
that the words have at least 8 and 5 bits as the tags need, that what Unmarshal is
given is a slice, that an earlier daemon left well-typed records as their bytes,
that ids are natural numbers, and that retries and block numbers fit their Go types:

- `UnmarshalReadsInBounds` and `UnmarshalConsumes`, for any width of the words, any
  input and any message. `IndexInv` is the range of every local at every `pc`, with
  the indices ahead of where the field began: a length below zero, a sum that wrapped
  and an index past the end are each refused before the slice they would leave is
  taken. The second theorem bounds the turns of the loop by the length of the input.
- `StoreTypeCorrect`. `StoreInv` adds `RecordInv` (each assignment to a field of `m` has
  the field's type), that every key's bytes are those of the record last put under it
  and a slice (`Stored`), and that a Get that runs reads the bytes of its key.
- `SizesExact`: `Size` reserves exactly what `Marshal` writes. The heart is `SovExact`,
  that `encodeVarint` writes `sov` bytes. Induction over data goes through here because
  it is done on sets of numbers: a set with no least element is empty, so a number for
  which the claim fails has a least one (`LeastElement`), and by `RecursiveFunction`
  the recursive functions exist. `SizeOfMessage` adds up the fields of each message.
- `StoreKeepsPromise`: `Store` implements `Records`. A Put is a Put of `Records` at
  once. For a Get, `SplitsExist` cuts the bytes of a record into the parts of its fields
  (`Splits`), and `Reads` says, for every `pc`, which part comes next, how much of a
  varint is read (`Left`: what has been read plus the scaled rest is the number) and
  that the fields before it are those of the record (`Agrees`). Every step of
  `Unmarshal` keeps that (`ReadsOn`), so it never fails, and at the end `m` is the record.
  `Unmarshal` does not reset what it fills: a field that is zero in the stored record is
  not in its bytes, and must be zero in the caller's record already (`Covers`).
  The theorem assumes `OneVersion`: in what an earlier daemon left there are no unknown
  fields, no negative enumerations, and `Covers` holds; and two deposits with one id
  agree on which fields are zero. The constants of `MCStore` without the unknown fields
  meet it. Records of a later version, with unknown fields, are covered by the run
  `store` only.
- `FilterTypeCorrect`: channels never hold more than they were made for, in either call
  of the filter.
- `ConfirmedStays`: a transaction read with its block and then found `Confirmations`
  deep is out of reach of every later reorganisation (`DeepStays`), which are no
  deeper than that by `ConfirmAssumption`.
- `FetchLosesNothing` and `FetchComplete`. Handled logs, the channel, the iterator's
  event, its channel and the undelivered rest are at any moment the answer in its
  order. `Phases` ties the ends together: `handleLogs` ends after the close, the
  close after the iterator's end, and that after the last delivery.

The contracts, from the assumption on their constants (`BankAssumption`,
`AccessControlAssumption`, `TokenIdAssumption`):

- `BankTypeCorrect` and `CustodyHolds`, for tokens that move what they are asked to. `Custody` speaks of `Leaving`, the
  withdrawals still to be logged, which a frame keeps for the frames under it. The
  invariant needs `Chained`: each frame's `under` is what the frame below includes.
  Then a call that is entered adds its own withdrawal, a call that returns leaves
  those under it, and each action changes both sides of `Custody` alike
  (`CustodyKept`). That no account is overdrawn is part of the types.
- `AccessTypeCorrect`, `VersionsAreKept`; `AccessNotFromNothing`: a closed set of
  roles stays closed under every call of a controller; `FrozenStays` rests on it, as
  the only call that changes the version asks the current controller.
- `RoundTrip`: an id is minted as itself exactly below half a word or in the last
  half word of 256 bits. `NothingBlocked` and `SmallIdsKept` assume `IdsFit`: without it two ids that
  agree in 64 bits ask for the same wrapped token. `TokenIdTypeCorrect`: the widths.
- `OnlyThePermittedWithdraw`: what the bank has of an asset goes down only when a
  withdrawal of it is entered by the user whose turn it is, who has the role of the
  contract called (`PermitedCall`: the bank's, or the bridge's while the bridge has the
  bank's). Deposits, also those that name the bank, and the return of a nested call
  take nothing (`OnlyWithdrawTakes`).

Only model-checked: `KeepsPromise` for records with the unknown fields of a later
version (the theorem is for records without), and liveness, `EventuallyMinted`,
`FetchesPeriodically`, `GetReturns` and `FetchReturns`, which is beyond the prover.
The violated properties of section 3 are counterexamples and have no proof.

## 5. Not modelled

Flags, configuration, dialling and logging are plain I/O. Of the generated code, the
codec and the two iterators of deposit logs are modelled; the rest of the bindings
(calls, transactions and watchers that abigen writes for the bank, ERC20s and NFTs),
getters, `String`, `Equal` and the migrations hand values on and keep no state. How
times are encoded is protobuf's library: `Times` are its results. The
balances of wrapped tokens and `burn` are not modelled: the daemon never burns and
nothing in the repository turns a burn into a withdrawal.

Reorganisations of the in chain, and a failed receipt that a reorganisation takes back
(`client.go:112`), are hazards no property covers: no code of the repository
reacts to either, so nothing could be promised.

## 6. Plan

Done: all modules of section 2 with their proofs, and both refinements. Left, for
whoever goes on:

1. `StoreKeepsPromise` with unknown fields: `Reads` for the steps of `skipEvent`, on
   bytes that end with whole fields above the known ones.
2. `Bank` and `AccessControl` composed, so that roles change between the steps of a
   nested call.
3. `Relayer` on the steps of `LogFilter` and `Confirm` instead of its own `Fetch` and
   `MinedAs`: it would make a failing filter a consequence instead of a fault.
