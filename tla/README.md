# A TLA+ model of bcxLibrary-Cpp

bcxLibrary-Cpp is the C++ client SDK of the Cocos-BCX blockchain.  An application links
`libbcx`, calls the methods of `bcxapi`, and calls `poolEvent` once per frame; the SDK
keeps one websocket connection to a node and answers every method through a callback.
The repository also contains, and compiles into the SDK, the graphene chain library
(`chain/`, `db/`) and `fc`, on which both rest.  This directory models all of these,
checks the models with TLC and proves the main invariants with TLAPS.

## Inventory

Paths are relative to `bcx/libbcx`; the parts and what is left out of each are listed in
`PROJECT.json` under `components`, and the hazards line by line under `hazards`.

| part | state | operations | what makes it correct |
|---|---|---|---|
| `network/WebSocket.cpp` | `_readyState`, `_closeState`, the list of instances, the message queue, `_receivedData`, libwebsockets' connection | `init`, `send`, `close`, `closeAsync`, the callbacks, the loop of the websocket thread | messages leave once and in order; a broken connection is reported as one close; `close()` returns, and nothing happens after it |
| `bcx/bcxws.cpp` | `_counter`, `callbackMap`, `noticeMap` | `init`, `send_call`, `broadcast`, `onOpen`, `onMessage`, `onClose`, `onError` | every promise is settled once; none is lost or outlives its connection; one reconnect |
| event loop, `bcx/bcxtimer.cpp`, `bcx/boostHttpClient.cpp` | posted functions, the list of timers, the buffers of a POST | `poolEvent`, `addTimer`, `processTimer`, the handlers of the faucet request | timers fire, once; an account is reported as created only if the whole answer says so |
| `bcx/bcxapi_p.cpp`, `bcx/bcxdb.hpp` | current account, `savedKeys`, api ids, chain id | 33 methods, each a chain of requests | each callback is called once; SUCCESS means sent; an operation is signed by the account it names |
| `chain/`: evaluators, markets, maintenance, genesis | the objects of the ledger | every operation, the steps of a block | nothing is made or lost, markets are at rest, what is derived follows, nobody pays unasked, a block always applies |
| `chain/`: `db_block.cpp`, `fork_database.cpp`, `db_management.cpp` | the chain, forks, pending transactions, undo history, files | push and pop of blocks, switching forks, push of transactions, close, crash, open, reindex | the objects are those of the head's chain; transactions are kept; a restart recovers |
| `db/` | tables, indexes, undo states | create, modify, remove, sessions, merge, commit, save, open | going back restores; secondary indexes follow |
| `fc`: variants, JSON, serialisation, alphabets | documents and values | building, copying, printing, parsing, packing | what is written is read back |
| `fc`: numbers, UTF-8, names, streams, rpc connections, holders, bloom filters, rate limiting; `chain/protocol`: digests, memos | see the modules | see the modules | exact values, whole streams, answered calls, matched lifetimes |

Two threads run in the SDK.  The UI thread runs the application, `bcxapi_p`, `bcxws` and
the timers; the websocket thread runs libwebsockets and the callbacks of `WebSocket`.  The
websocket thread reaches the UI thread only through the functions it posts, and the UI
thread the websocket thread through the message queue, `_readyState` and `_closeState` (the
last one without a mutex).  Each faucet request has one more, detached thread, which posts
a function like the websocket thread.  The chain library runs in one thread; what is hard
there is the order of blocks and transactions, exceptions in the middle of an operation,
crashes, and rounding.

What is hard in the SDK: the connection may break between any two critical sections of the
two threads; continuations of a promise run inside `resolve()` and `reject()`, so an
application may re-enter `bcxws` from within its handlers; a request may be answered,
rejected and have its notice in any order; `close()` and `onConnectionClosed` wait for
each other; the methods read the shared session in continuations, between which logins
and logouts happen.

## Modules

A module in a deeper column EXTENDS the one above it.

    WebSocket                    the two threads, the queue between them, libwebsockets
      SocketClose                ... with an application that calls close()
      BcxWs                      ... with bcxws, poolEvent and the timers
      WebSocketProofs            lemmas about the socket
        BcxWsProofs              (with BcxWs) theorems
        SocketCloseProofs        (with SocketClose) theorems
    RequestLink                  what bcxws promises to its callers; BcxWs implements it
    BcxApi                       the methods of bcxapi_p on top of that promise
      MCBcxApi, BcxApiProofs
    MainLoop                     poolEvent: timers, posted functions, the faucet request
      MainLoopProofs             theorems

    ChainObjects                 objects, assets, prices, balances, fees
      AccountOps                 transfers, vesting, permissions; accounts
        Market                   limit orders, margin positions, settlements, bids
          AssetOps               operations on assets
            GovernanceOps        signatures, proposals, witnesses, committee, workers
              Operations         the rest, the fee schedule, transactions
                ChainMaint       expirations, irreversibility; maintenance; a block
                  Ledger         genesis, the state machine, notifications, properties
                    MCLedger     eleven scopes
    UndoDatabase                 undo states, sessions, merge
      UndoSessions               sessions in any nesting
        ObjectDatabaseProofs     (with Indexes) theorems
      ChainDb                    (with ForkDatabase) blocks, forks, pending, restart
        MCChainDb
    ForkDatabase                 fork_database and block_database

    Variant                      text conversions; fc::variant and its dictionaries
      Json, Serial               JSON text; packed bytes and typed variants
        Codec                    documents and values on their way (both)
          MCCodec
    Words, Utf8, Names           uint128 and safe; UTF-8; urls, ids, keys
    Streams                      buffered streams, getline, datastream
    Holders                      optional, static_variant, variant as owners of values
      FcProofs                   (with Streams) theorems
    Rpc, JsonConnection          the two kinds of rpc connection
      ConnectionProofs           (both) theorems
    Indexes                      a table with secondary indexes, observers, its file
    Bloom, RateLimit, Digests    bloom filters; rate limiting; what is hashed and signed
      MCLibrary                  all of these and UndoSessions, one part at a time

**WebSocket.**  A step is one critical section, or one access to a field no mutex
protects.  `thread` and `ui` are program counters: e.g. `onConnectionError` is
`ErrorLock` (sets CLOSING), `ErrorPost` (posts `onError`) and then `ClosedLock`,
`ClosePost` of `onConnectionClosed`; `close()` is `CloseCheck`, `CloseSet`, `CloseLock`,
the wait, `CloseDone`, `CloseReport`.  `wsi` is the external part: the state of the
connection that libwebsockets holds, with the callbacks it may make in each state
(ESTABLISHED, CONNECTION_ERROR, CLOSED, WSI_DESTROY, RECEIVE, WRITEABLE).  Messages are
reduced to the id of their request, the number of 64 kB fragments, and what kind of JSON
they are.  The ghost `sent` records what was written completely.

**BcxWs.**  The keys of `callbackMap` and `noticeMap`, the outcome of each promise, and
the timers.  `_rejectAllRqeuest` is not atomic: one step per element (`RejectOne`), with
the application free to call `send_call` in between, as the continuations may; `rej` is
what the loop has still to visit.  `OnBad` is a message on which `fc::json` throws: the
exception leaves `poolEvent` and the rest of the batch is lost.

**RequestLink.**  The abstract specification: a link that is up or down, requests accepted
or refused and settled once, and no link that comes up while a request of the previous one
waits.  The refinement mapping is `up <- readyState = "OPEN"`, `accepted <- Waiting`.

**SocketClose.**  `bcxws::close()` is offered by the SDK and never used by `bcxapi`; hence
a module of its own.  Of the delegate it keeps that every `onClose`, the one `close()` calls
included, starts a timer that calls `init` again: what follows is a connection whose
callbacks look for an instance of the socket and find none.

**BcxApi.**  A method is a gate (what is tested before anything is sent), whose operation
it is, and a sequence of requests; each request says what becomes of the chain on each
shape of an answer: go on, report an error, end silently, or undefined.  That table is
read off the `then` and `fail` handlers.  A step is one run of continuations up to the
next request.  The session is read in the step in which the code reads it.  That each
request is settled once is what RequestLink promises; requests are answered in any order.

**MainLoop.**  One round of `poolEvent`: `processTimer` callback by callback, with timers
added by callbacks, then a batch of posted functions.  Each faucet request runs through
the handlers of `boostHttpClient` while the server delivers its answer in pieces and may
close at any of them.

**The ledger.**  The object database is one record `d`; an evaluator is a predicate
(`do_evaluate`) and a function to the next database (`do_apply`), an exception is
`d.ok = FALSE`.  Orders of indexes are orders on ids, loops are iterated bodies with a
bound that their progress respects.  A scope of MCLedger is a genesis, a setup, and the
transactions offered afterwards; blocks come in between and bring time.

**ChainDb.**  A block is the sequence of the bodies from the first block on, which is what
its id stands for.  What an operation does is reduced to creating, modifying or removing
an object, proposing and approving such operations, or failing; the steps of
`push_block`, `_push_block`, `pop_block`, `with_pending_transactions`, `open`, `reindex`
and the files are as in the code.

**UndoSessions** drives UndoDatabase's operators (`create`, `modify`, `remove`,
`start_undo_session`, `undo`, `merge`, `commit`, `pop_commit`) in any nesting; `past` is a
ghost: the objects and next ids at the beginning of each undo state.

**Codec.**  A `variant_object` is a handle to a vector of entries its copies share.
Documents are built, copied, merged, printed and parsed; values of every kind of type are
packed, unpacked and converted at every depth.

**Streams.**  The source hands over as many bytes as it likes, the sink accepts as many as
it likes, the reader and writer buffer in between.  `datastream` counts in its first pass
and writes in its second.

**Rpc.**  The near end calls the api objects of the far end by number, by name or through
the default object, hands over callbacks and is called back; both ends read their messages
one at a time, in the order in which they were written, and messages of another program
(unknown ids, unknown methods, arguments that are missing) may come in between.

**JsonConnection.**  What a side writes waits in its stream until a flush; a request is
handed to a handler of its own, and the handlers of a side end in any order.  Either side
may close, or meet the end of what it reads.  Calls are made at any time, before `exec` and
after the read loop has ended; `close()` cancels the newest handler and the loop, which then
leaves with an exception for the promises (`closed`) or without one (`canceled`).

**Holders.**  `storage` is what was constructed and not destroyed, so that a value that is
constructed or destroyed twice is seen.  When a new value cannot be had, an `optional` is
empty, a `static_variant` is `torn` (it has the tag of a value that is not there), and a
`variant` keeps its old value, because the new one is built first, or is null when it was
to become a copy (`assign_throws`, `copy_assign_throws`, `assign`).  A blob is what
`variant::clear()` does not delete and what copies share by their pointer.  `write` is what
a program does through the references of `get_array`, `get_object` and `get_blob`.  Holders
are separate objects: none is assigned from a part of itself.

External code: libwebsockets, promise-cpp, the stream ends, hashes, signatures and
ciphers (terms in Digests, pairs of keys and contents).

In `PROJECT.json`'s map, a helper whose lines lie within another definition's is not
always listed by itself.

## Runs

| run | checks | scope |
|---|---|---|
| `bcxws` | refinement `KeepsLink`; `SettleOnce`, `NoLostRequest`, `OneConnection`, `SentInOrder` | two calls, one break and one reconnect, every kind of message, two fragments |
| `bcxws_live` | `DownSettles`, `ClosedReconnects`, `InitReports` | one call, a server that sends JSON, under fairness |
| `socket_close` | `QuietAfterClose`, `CloseReturns` | `close()` on an open socket, also one that has reconnected; writes may fail; `bcxws` reconnects after it |
| `api` | `AnswersOnce`, `SuccessIsSent`, `SentByItsAccount` | any two of the 33 methods; three calls with logins at any time; three with logins between other calls |
| `main_loop` | `TimersFire`, `FaucetReports` | three timers and a clock that is set once; two faucet requests |
| `ledger` | `ChangesTold`, `BlockApplies`, `SupplyConserved`, `BitassetsCovered`, `MarketAtRest`, `CoverReachesTarget`, `DerivedFollows`, `WithdrawalsLimited`, `NobodyPaysUnasked`, `SigningExact`, `MostVotedElected` | trading, margin calls, global settlement, prediction markets, vesting, accounts, votes and budget, proposals, backing assets, confidential transfers, signatures |
| `chain_db` | `StateOfChain`, `HistoryReachesIrreversible`, `HeadNeverFalls`, `TransactionsKept`, `RestartRecovers` | forks; nested proposals; close, crash and open; crashes within and after switches of forks, with blocks that fail |
| `codec` | `TextRoundTrip`, `PackedRoundTrip` | two documents and a draft; a sample of every kind of type, every depth 0..9; the alphabets |
| `library` | `ValuesExact`, `StreamsWhole`, `ApiCallsAnswered`, `JsonCallsAnswered`, `LifetimesMatched`, `IndexesFollow`, `SessionsUndo` | twelve parts, one at a time |

Three runs expect a violation; each is a disagreement between the code and what a comment
or the test program says of it:

- `close_any_time` (`CloseReturns`): `WebSocket.hpp` calls `close()` synchronous.  Before
  the connection is open it may never return.  If libwebsockets gave no context, it waits
  and nobody notifies it; if the connection fails at that time, `onConnectionClosed` finds
  both CLOSING, which `onConnectionError` has set, and the SYNC_CLOSING of `close()`, and
  notifies for ever with `_readyStateMutex` locked, while `close()` waits for that mutex.
- `api_init` (`InitFoundApis`): the test program prints success for status 0.  The status
  of `query_login` starts at 0 and `always` reports it although the login or an api id
  was refused.
- `chain_dupes` (`NoDuplicates`): `transaction_object.hpp` says that duplicates are
  detected.  Blocks that were replayed have not recorded their transactions; after a
  switch of forks behind them one is accepted again.

### Bounds

- `bcxws`: `MaxInits = 2` gives a first connection, a break at every possible place, and the
  connection that follows it.  `MaxCalls = 2` lets one call settle while another is sent,
  rejected or in the middle of `_rejectAllRqeuest`.  `MaxInbox` bounds what the server may
  put into the queue of functions (events of the connection itself are never blocked).
  `MaxFrags = 2` is the first number with a half-sent and a half-received message.  The
  theorems below lift these bounds for everything but liveness.
- `socket_close`: `MaxInits = 3` gives the first connection, one after a break, and the
  attempt that follows `close()`.
- `api`: two or three calls and at most two accounts: every property is about one call and
  another that changes the session under it, after one login.
- `main_loop`: `MaxNow = 3`, timers of one or two units, so that timers become due in the
  same round, in different rounds, and after the clock has been set; a body of two bytes
  comes in one piece or two.
- `ledger`: three or four transactions after the setup of a scope and the blocks until
  `MaxTime`; amounts are small, so that every rounding happens.  Times are after the last
  hard fork (2018).
- `chain_db`: two witnesses and `UndoBlocks = 2` make blocks irreversible, and forks as long
  as the undo history, within four blocks.  `MaxUndoHistory = 4` is `GRAPHENE_MAX_UNDO_HISTORY`.
  In the scope of crashes two branches part above a common block, one of them may fail where
  it becomes the longer one, and the process crashes once, between two calls or in a push,
  with the last block in none, one or both of the files.
- `codec`: a 64-bit word has 8 bits (the variable length integers depend on its remainder
  by 7, which is kept), a 32-bit word 4; vectors of at most two entries; `MaxAlloc = 8`.
- `library`: words of 2-bit quarters; UTF-8 texts of up to 4 bytes and names of up to 4
  tokens after some beginnings; 1024 and 2048 bytes of the buffers are 3 and 2; a 4-bit
  `int32_t`; two calls over an rpc connection, two uses of a callback and one message of
  another program; two holders, three cells and two blobs; undo histories of one type, two
  values, two objects and three states; filters
  of one-byte keys in 6-bit words with 4-bit cells; three limited calls in three rounds;
  blocks of up to five transactions.  A transaction is not changed after it was signed.

`CHECK_DEADLOCK FALSE` throughout: when the bounds are used up, there is nothing left to
do.

### Assumptions and exclusions

- `init` is called once, first (the SDK has no other use for it).
- `CloseOnlyWhenOpen`: `close()` is called on an open socket.  `CloseReturns` fails without
  it (run `close_any_time`); a write that fails at the same time is excluded by name.  So it
  is in `QuietAfterClose`: a `close()` that meets ASYNC_CLOSING returns at once and has
  closed nothing.
- `Disciplined`: the application logs in and out only while no other call waits, and logs
  in to another account only after a logout.  The second part of `SentByItsAccount` needs
  it: `validate_password` makes the account current before it has looked at the keys, and
  keys of an earlier account stay.
- `AnswersOnce` names the methods it cannot hold for (`Leaky`): those that wait for a
  request which handles an `int` only, that return on `null`, or that only log; those that
  read the first element of a list that may be empty; the one
  that throws (`create_contract` on a default account); `createAccountByAccount`, which
  settles with a string literal where a `std::string` is expected; and
  `get_transaction_by_id`, which calls back twice.
- `ChangesTold` allows for objects that are announced to their old owner only;
  `MostVotedElected` leaves out blocks in which maintenance pays fees between counting one
  account and the next; `BlockApplies` is checked for settlement offsets below 100 %;
  `TextRoundTrip` names the texts that the printers and parsers are known not to give back,
  among them those with control characters, whose escapes the parser does not know: they
  come back as `Readable` says.
- `FaucetReports` names a request whose whole answer has come on a connection that the
  server keeps (`KeptAlive`): the last `async_read` waits for one more byte, and there is no
  timeout.  The request does not send the "Connection: close" of the comment above it.
- `RestartRecovers` names when `open` may refuse: after a crash that leaves the entries of
  two branches in the index (`Mixed`), which takes a switch of forks that was given up or
  cut off.  `reindex` then pushes a block that does not link.
- `JsonCallsAnswered` names the calls that may wait for ever: those made after the read loop
  has ended, and all when `close()` has ended it without an exception.
- `LifetimesMatched` says nothing of a `static_variant` that is torn, and of blobs only that
  a variant with one leads to one.

### Fairness

The safety runs assume none.  `bcxws_live`, `socket_close` and `close_any_time`: weak
fairness of each thread's own progress (a callback that began goes on; the loop comes round
to a request to connect; a batch that was taken is run), because both are running threads
and the application calls `poolEvent` in its main loop, as the test program does in every
frame.  Strong fairness of the timers: `poolEvent` runs those that are due before it takes
a batch, so they are enabled only between batches, yet get their turn each time.  Of
libwebsockets: an attempt to connect succeeds or fails, a connection that ended is
destroyed, an established connection becomes writable again and again (`onClientWritable`
asks for it each time).  Nothing is assumed of the server: it may never answer, and no
property says that a request on an open connection is answered, since the SDK has no
timeout for it.  `main_loop`: weak fairness of `poolEvent`, of the clock while a timer is
waited for, and of each handler of a faucet request; none of the server.

## Proofs

For every value of the constants that satisfies the named assumptions of the modules
(`WebSocketAssumption`, `BcxApiAssumption`, `MainLoopAssumption`,
`UndoSessionsAssumption`, `StreamsAssumption`, `SizesFit`, `JsonAssumption`,
`RpcAssumption`, `HoldersAssumption`): any number of calls, connections, fragments, methods
at once, timers, faucet requests, objects, sessions, bytes, holders; any set of message
kinds, values, keys, names and inputs.

| module | theorem | states |
|---|---|---|
| `BcxWsProofs` | `TypeCorrect`, `Invariance` | `Spec => []TypeOK`, `Spec => [](TypeOK /\ Inv /\ SettleOnce)` |
| | `PromisesSettleOnce`, `NoRequestLost` | `SettleOnce`, `NoLostRequest` |
| | `RejectsWhenDown`, `NoRequestStranded`, `NeverCrashes` | `NoInsertWhileRejecting`, `NoStrandedRequest`, `NoCrash` |
| | `OneConnectionAtATime`, `LeaveInOrder` | `OneConnection`, `SentInOrder` |
| | `ImplementsRequestLink` | `Spec => KeepsLink`, the refinement |
| `SocketCloseProofs` | `TypeCorrect`, `Invariance`, `QuietOnceClosed` | the action property `QuietAfterClose`, under `CloseOnlyWhenOpen` |
| `BcxApiProofs` | `TypeCorrect`, `Invariance` | `Spec => [](TypeOK /\ Inv)` |
| | `CallsBackOnce`, `SuccessMeansSent`, `SentInItsName` | `AnswersOnce`, `SuccessIsSent`, `SentByItsAccount` |
| `MainLoopProofs` | `Invariance` | `Spec => []Inv` |
| | `TimersFireOnce`, `FaucetTruthful` | `FiresOnce`, `CreatedIfSaid`: the safety of `TimersFire` and of `FaucetReports` |
| `ObjectDatabaseProofs` | `Invariance`, `UndoRestores` | `UndoSpec => [](TypeOK /\ Inv)`, `SessionsUndo` |
| | `IndexesInvariance`, `SecondaryFollows` | `IndexesSpec => []...`, `IndexesFollow` |
| `FcProofs` | `StreamsInvariance`, `BytesGoThrough` | `StreamsSpec => []...`, `StreamsWhole` |
| | `HoldersInvariance`, `Lifetimes` | `HoldersSpec => []HoldersInv`, `LifetimesMatched` |
| `ConnectionProofs` | `JsonInvariance`, `JsonCalls` | `JsonSpec => []JsonInv`, `JsonCallsAnswered` |
| | `RpcInvariance`, `RpcCalls` | `RpcSpec => []RpcInv`, `ApiCallsAnswered` |

TLC has checked every inductive invariant on the instances of the runs before it was
proved.

**bcxws.**  None of the properties is inductive.  `Inv` has three parts.  `Phases` says
where the whole client can be: idle, connection requested, running, close event on its
way, rejecting all, timer running, or close event lost with a batch; each phase fixes what
the queue, the two function lists, the maps, the timers and the program counter of the
websocket thread may hold.  It is needed because "there is one close event, and it is the
last" is what makes a reconnect unique and `Waiting` empty when it happens.  `Pending` says
that what the maps and timers hold is pending and held in one place.  `NeverClosed` says
that `close()` is not used by `bcxapi`.  `PendingStep` carries `Pending` through every
action; `ThreadPhases` and `UiPhases` carry `Phases` through the steps of the two threads,
one case per action, and per phase where an action moves from one to the next.
`OneConnection` follows by counting in each phase.  `SentInOrder` needs `Ordered`: what was
sent, what is half sent and what is queued are in the order of the ids, and below the
counter.  The refinement needs `NoticesWait` (`noticeMap` holds only waiting requests); its
step simulation has one case per action of BcxWs.

**SocketClose.**  `Inv`: until `close()` begins (`Live`), each `init`, that of a timer
included, is followed by one connection and one close event, so that no request to connect
waits and no connection is being made while the socket is open, which is when `close()` may
be called (`CloseOnlyWhenOpen`).  From then on (`Closing`) the timers go on, but by the time
they connect again the instances are gone and no callback sets OPEN.  `FailureNoted` relates
ASYNC_CLOSING to the failed write that the property excepts.

**BcxApi.**  `MethodsFit` goes through the table of methods once and states what the proofs
use of it.  A step of a call has one of a few forms (it asks on, answers, ends silently,
throws); `Inv` says how the callback follows the chain (`CallbackFollows`), that what was
sent was sent by the last request (`SentByLast`), and how a waiting call relates to the
session (`SessionFollows`).

**MainLoop.**  `Inv` has two halves that share only where `poolEvent` is.  `TimersInv`: no
two timers of the list have one id, all ids are at most `_currentTimerId`, and none that is
no loop is in the list once it has fired, except while its callback runs; a callback may
add timers behind it.  `Sweep` is written with an increasing map of the slots that are kept,
because what `SelectSeq` returns would need induction.  `FaucetInv`: a posted function
carries the number of bytes its request had when it ended, and a request that ended gets no
more, so that what the function parses is what came.

**UndoSessions.**  `Inv` is that every undo state tells how the snapshot it began from
became the next one (`Tells`): every object is new, modified, removed or as it was, old
values are those of the snapshot, and no id is used a second time.  `TellsComposed` is the
matrix in the comment of `undo_database::merge`: two undo states in a row, composed, tell
the way from the first snapshot to the last.  `TellsRewound`: what `undo` and `pop_commit`
do with a state that tells the way gives back its snapshot.

**Indexes.**  The lemmas about inserting, removing and modifying (`ListsInserted`,
`ListsRemoved`, `ListsModified`) say that a secondary index that listed the table lists the
new one.

**Streams.**  `ReadsSome`: whichever way `readsome` goes, it takes the next bytes of the
buffer and the source together, and at least one; from this `BytesKept` follows by
re-cutting.  `LineUnderWay` (no newline but at the end of what `getline` has) makes each
returned line the rest of a line of the input.  `Counted` says that the blocks still to be
written fill the buffer exactly from where it is up to the counted size; it is stated with
the positions at which they end, so that it needs no induction, and `SizesFit` says that
no block is too long for the `int32_t` of `datastream::write`.

**Holders.**  `HoldersInv` has one clause for each of the three types: an `optional` has a
value exactly while it is valid, a `static_variant` has one of the type its tag names as
long as it lives, a `variant` has nothing, a value of its own, or a pointer to a cell that
is in use; `HeapSound` says that each cell in use has one variant that points at it, which
is what a byte-wise copy or a forgotten `clear()` would break.  A torn holder is outside of
these clauses, and cells with blobs outside of `HeapSound`.  The lemmas about single
operations (`OptionalOps`, `StaticOps`, `ClearSound`, `PutAt`, `PutSound`, `WriteSound`,
`MoveSound`) are combined by one lemma per type.

**JsonConnection.**  `JsonCallsAnswered` is not inductive, since it does not say that what
is on its way fits what is waited for.  `JsonInv` adds this: a message with the id of a
call is the request of that call or an answer to it (`Belongs`), and a promise that waits
has its request or a response that settles it in the stream or with a handler, unless one of
the sides has stopped reading (`PromiseSettles`); one that waits behind a loop that ended
with an exception was made late.  `newest` says whether the handler that `close()` cancels
is still there.  There is one lemma per form of step:
nothing moves, a message of another program comes, a notice, a call, an answer, a handler
ends, a side closes.

**Rpc.**  `RpcInv` puts the two ends together (`Connected`).  The api objects of the far end
have one number each; what is under way to the far end is a request that asks what the call
with its id asked, an answer, or foreign (`ToFar`), and likewise to the near end
(`ToNear`); every call has the answer that is meant, or waits with its request or response
under way, or the connection is closed (`CallsFine`); functors lead to the callbacks they
came with (`FunctorsSound`); and what was told to callbacks is what was heard followed by
what is under way, in that order (`Follows`, stated with a map of positions so that it needs
no induction).  What an answer means does not change when apis and callbacks are added
(`MeantGrows`), which carries the messages on their way through every step.  The proof
showed that two arms of the CASE in `returned` and `Meant` could both be true; they are
disjoint now, as the methods of the api objects are.

Only model-checked:

- liveness (`DownSettles`, `ClosedReconnects`, `InitReports`, `CloseReturns`, and the second
  parts of `TimersFire` and `FaucetReports`), which is out of the prover's reach;
- `Ledger`, `ChainDb`, `Codec`, `Words`, `Utf8`, `Names`, `Bloom` and `Digests`: loops,
  parsers and walks over nested structures are RECURSIVE operators or bit operations there,
  and what they compute would have to be proved by induction over data;
- `RateLimit` (`RateHeld`): the amounts that are paid are sums over the lists of waiting
  calls, and a sum over a sequence again needs induction over data.

## Not modelled

- The destructors of `WebSocket` and the join of its thread; a data race on the vector of
  instances while it is deleted; a timer callback that calls `delTimer`, which would
  move the list under `processTimer` (no code of the SDK calls it).
- fc's threads, tasks and asynchronous network: the body of `start_next_fiber` is commented
  out and `thread::current()` returns a new thread each time, so nothing scheduled runs.
  Rpc, JsonConnection and RateLimit take their handlers as called one after the other.
- `WritableSend` looks at `_readyState` and takes the message in one step; the code does the
  first (915-921) before it locks the queue (925).  The only step that could come between is
  one of the UI thread that sets CLOSING, and it commutes with sending.
- A `close()` that finds CLOSED leaves SYNC_CLOSING behind; if a reconnect is then refused,
  `onConnectionClosed` notifies for ever (`WebSocket.cpp:1217-1230`), on the websocket
  thread.  `CloseReturns` is about `close()`, which has returned.
- In `ChainDb`: the guard on the nesting of `push_proposal` (`db_block.cpp:271-287`;
  proposals nest one deep in the instances) and the flush of `reindex` at `flush_point`
  (`db_management.cpp:105-110`; it takes 10000 blocks).
- Cryptography, compression, logging, files and time of `fc`; `binary_api_connection.hpp`,
  which does not compile as it is written; `cin_buffer`; `average_rate_meter`;
  `compressible_bloom_filter`; the arithmetic operators of `variant`.
- Of the chain: address authorities, checkpoints, debug updates, the hard forks before 2018
  and what maintenance did once at each.
- Of the methods: the contents of operations and memos, the accounts an operation names
  besides its own, two keys of one account (before and after `changePassword`),
  `get_account_contract_data` (ignores its answer), `query_get_key_references` and
  `comm_fail_hander` (no callers).
- The undefined behaviour of erasing through an iterator that a rehash may have invalidated
  (`_onnotice`): the erase is taken to work, as it does in node-based maps.

## Plan

1. `HistoryReachesIrreversible` of ChainDb from the lemmas about UndoSessions, once the
   walks over the fork database are written without RECURSIVE operators.
2. `WebSocket`: the destructor, `quitWebSocketThread`, `joinWebSocketThread` and
   `_isDestroyed`.
