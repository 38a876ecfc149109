# A TLA+ model of solcpp

solcpp is a C++ client library for the Solana blockchain and for the Mango v3
exchange on it. This directory holds TLA+ modules that model its code, TLC
configurations that check them on small instances, and proofs of the main
results for every value of the constants. `PROJECT.json` lists, for every
definition, the lines of `src/` it stands for, and every run, finding, hazard
and theorem.

Contents: 1 inventory, 2 modules and their correspondence to the code, 3 runs,
bounds and results, 4 fairness, 5 proofs, 6 what the code does and a reader
might not expect, 7 what is not modelled, 8 plan.

## 1. Inventory

### 1.1 Components

| Component | Code | State it keeps | Operations | Hard behaviour |
|---|---|---|---|---|
| WebSocket session | `lib/websocket.cpp`, `include/websocket.hpp` | `callback_map` (request id -> request), `maps_wsid_to_id` (server's id -> request id), both under `mutex_for_maps`; `is_connected`; stream and buffer | `subscribe`, `unsubscribe`, `disconnect` on the user's thread; `on_resolve`, `on_connect`, `on_handshake`, `on_read`, `get_callback`, `call_callback`, `on_close` on the read thread | two threads on two maps, two ids per subscription of which one is known only after an answer, callbacks called outside the lock |
| WebSocketSubscriber | `lib/solana.cpp` 1075-1139 | `curr_id`, the `io_context`, the read thread, the session | constructor with a bounded wait, destructor with a join, `onAccountChange`, `removeAccountChangeListener` | a timeout that races a late handshake, a join that must not wait for ever, a write that throws half-way |
| Transaction confirmation | `lib/solana.cpp` 759-832 | none between calls; a loop over two remote values | `confirmTransaction` (which calls `getLatestBlockhash`, `getBlockHeight`, `getSignatureStatus`) | decisions on values that were read by different calls at different commitment levels |
| Transaction compilation | `lib/solana.cpp` 146-148, 440-620 | the list of account metas and the counters of the header | `fromInstructions`, `fromInstruction`, `serializeTo`, `CompactU16::encode`, `sign`, `signTransaction`, and around them `getLatestBlockhash` and `sendTransaction` | merging privileges, a sort by a comparison that is not an order, positions in one byte |
| EpochSchedule | `lib/solana.cpp` 99-120, `include/solana.hpp` 90-148 | five parameters read from the cluster | `getEpoch`, `getEpochAndSlotIndex`, `getFirstSlotInEpoch`, `getLastSlotInEpoch`, `getSlotsInEpoch` | bit arithmetic at powers of two, end of the warm-up |
| Fixed-point numbers | `include/fixedp.h` | none | `multiply`, `divide`, conversions | products wider than the type, wrap-around, two shifting loops |
| Mango account | `include/MangoAccount.hpp`, `include/utils.hpp`, `include/mango_v3.hpp`, `include/serum_v3.hpp` | account info, `spotOpenOrdersAccounts` | `loadOpenOrders`, health components, health, ratio, value, `isLiquidatable` | the same quantity worked out in several places, stale and partly loaded open orders |
| RPC requests | `lib/solana.cpp` 660-1075, `include/solana.hpp` 1000-1100 | a reference to the URL | one blocking HTTP request per call | exceptions on every error |
| Keys and signatures | `lib/solana.cpp`, `include/solana.hpp` | key bytes | libsodium calls, key files | - |
| Codecs | `include/base58.hpp`, `include/base64.hpp`, `include/int128.hpp` | none | encode, decode, format | carries between limbs of a number, leading zeros, padding |
| Mango instructions | `include/mango_v3.hpp` 267-343 | none | `placePerpOrderInstruction`, `cancelAllPerpOrdersInstruction` | privileges of eight accounts, a list of empty keys |
| Examples | `examples/*.cpp` | the event-queue reader of `accountSubscribe.cpp` keeps the last sequence number | - | a ring buffer read while it is written |
| Tests, fixtures, build | `tests/`, `CMakeLists.txt`, `conanfile.txt` | - | - | read for what they say of the program |

### 1.2 How the components interact

- The user's thread calls `onAccountChange`, which puts a request in
  `callback_map` and writes it to the socket. The read thread runs the
  `io_context`, and so every `on_...` handler: it dispatches each message,
  joins request ids and server ids when a subscription is confirmed, and calls
  the user's callbacks after it released the lock. The RPC server is a third
  party: it chooses the ids that `maps_wsid_to_id` translates back.
- The constructor of `WebSocketSubscriber` waits for a promise that
  `on_handshake` sets, for a bounded time. The destructor calls
  `session::disconnect` and joins the read thread; the join returns when the
  `io_context` has nothing left to do, which is up to `on_read`.
- `confirmTransaction` is a client of three remote calls, each with a
  commitment level of its own.
- `fromInstructions` fills the lists that `serializeTo` writes with
  `CompactU16`; the cluster reads the privileges of an account from its position
  in the message and from three counters.
- A transaction starts from the text of a blockhash, which `fromBase58` turns into a
  key, and ends as a text that `b64encode` makes; what is between is the
  business of `CompiledTransaction` and of libsodium.
- `MangoAccount` computes with `i80f48`, an instance of `numeric::fixed`, and at a few places with
  doubles, on what
  `Connection::getAccountInfo` returned and on what `loadOpenOrders` put in the map.

### 1.3 What makes each component correct

- Session: data about an account reaches only callbacks registered for that
  account; ids are paired as the user and the server paired them; the three
  callbacks of a listener run in order and at most once where that is meant;
  removal concerns one listener and is final; an accepted subscription is
  confirmed and a removal answered.
- Subscriber: construction and destruction return, and nothing runs after
  destruction.
- Confirmation: each of the four outcomes says something true about the cluster.
- Compilation: what the cluster reads from the text is what the instructions
  asked for, with the signatures the header demands.
- Codecs: decoding gives back what was encoded; a text becomes a key only if it is
  the text of that key.
- EpochSchedule: every slot is in exactly one epoch, at the index counted from
  its first slot.
- Fixed-point: a result that fits is the exact one, rounded in one known direction;
  the loops end.
- Mango account: the different computations agree, the stricter health is not
  above the laxer one, and missing information never makes an account safer.

The list of hazards, each with its line and the properties aimed at it, is in
`PROJECT.json`.

## 2. Modules

### 2.1 Session and Listeners: the subscription protocol

`Session` tells the connection in three steps and the protocol in full. A step of a thread is what
it does between two points at which the other can run: a critical section, a
`ws.write`, the completion of a read, the call of a callback. A section under
`unique_lock` is one step; the two sections under `shared_lock`, in
`unsubscribe` and `get_callback`, are an entry and an exit, because they may
overlap.

| Model | Code |
|---|---|
| `Subscribe`, `SubscribeWrite`, `SubscribeWriteThrows`, `SubscribeReturn` | `session::subscribe` under the lock, `ws.write`, the exception that leaves `onAccountChange` before `curr_id += 2`, and its return |
| `Unsubscribe`, `UnsubscribeUnknown`, `UnsubscribeErase`, `UnsubscribeWrite`, `UnsubscribeWriteThrows` | `session::unsubscribe`: looking up the entry, the id that is not there, the erase under the shared lock, the write |
| `HandshakeSucceeds`, `OnHandshake`, `ConnectFails` | the stream opens, `on_handshake` raises the flag and reads, or one of the three handlers is given an error |
| `Disconnect` | `session::disconnect`, called by the destructor |
| `ReadMessage`, `ReadFails` | entry of `on_read` |
| `DispatchUnsubscribed`, `DispatchSubscribed`, `DispatchError`, `DispatchNotification` | the four kinds of messages `on_read` tells apart |
| `GetCallback`, `GetCallbackNone`, `RunCallback` | `get_callback` under its lock and `call_callback` outside it |
| `ServerAccepts`, `ServerRefuses`, `ServerUnsubscribes`, `ServerNotifies`, `Cut` | the server and the network, external |

`RequestContent` keeps one `acct` for the parameters and the callback, which
belong together in the code. `ws_id` is uninitialised until the confirmation;
`WsIdRead` lets a read of it before that give any value. `asked`, `unsubscribed`,
`confirmed` and `finished` record what happened; the code has no counterpart
of them, and only the user's actions read them: `Returned` (an id is removed
only after `onAccountChange` returned it) and `AwaitsConfirmation` say which calls
a user can make.

`Listeners` is the abstract specification: what a user who waits for
`on_subscribe` before removing a listener may rely on, without server ids, maps,
messages or locks. `Session` implements it (`ImplementsListeners`), mapping
`removed` to `unsubscribed` and `running` to the reader's callback.

### 2.2 Lifecycle: construction and destruction

The user's thread is in the constructor (`waiting`), between it and the
destructor (`using`), in `join` (`joining`) or done. The read thread runs the
chain `OnResolve`, `OnConnect`, `HandshakeSucceeds`, `OnHandshake`, `SetPromise`,
`StartRead`, `OnRead` or one of its failures. `on_handshake` is several steps,
because `disconnect` can run between any two of its effects. Messages are
only counted; what they mean is the subject of `Session`. A user whose constructor
timed out can write while the handshake is under way, which beast does not
allow: the write throws, or it passes and the handshake may be lost (`EarlyWrite`).

`Subscriber` composes the two. Each of its steps is one of `Session`, one of `Lifecycle`,
or one of each at once (`OnHandshake`, `Read`, `DestructorDisconnects`, everything the
server sends): they share `is_connected` and the messages, whose number is what
`Lifecycle` counts. So the calls of a user whose constructor timed out, the
callbacks of a session that is being destroyed and a connection that is lost
before the first registration are behaviours of one specification, and it has
the fairness.

### 2.3 ConfirmTransaction

One action per remote call of the loop, one per outcome, and the
cluster: `NewBlock`, `Land`, `Drop`, `Vote`. A call takes effect at the server in
one step and any number of cluster steps pass between two calls. Heights and
commitments are data; a `status` that is absent is `"none"`.

The loop compares the status with `confirmLevel` for equality (`Confirmed`), so a `false` does not mean that
the transaction was not confirmed, as `solana.hpp:868` has it: one that is confirmed after
one poll and finalized before the next is never noticed, and the call returns false when its
rounds are used up. What the code does promise is `StandingLevelNoticed`, at the level
`tests/main.cpp:838` waits for: only a level that is left again is missed.

### 2.4 CompactU16, CompileTransaction and SendTransaction

`CompactU16` has the encoder of `solana.cpp` and, as the reference, a reader of the
format (`Width`, `Decode`). `CompileTransaction` follows `fromInstructions`: `Collect`
(the metas of all instructions), `Merge` (each key once, with the most it is asked
for), `SortNext`, `CountPrivileges`, `CompileNext`, and then `serializeTo`.
`std::sort` is not stable and its behaviour is undefined for a comparison that is
not an order: `SortNext` takes as next element any one that no remaining element is
less than, and any remaining element at all when `operator<` holds in both
directions for some pair (`Conflict`). Counters and positions are numbers modulo `IndexRange`, the
256 values of a `uint8_t` made small so that running over is one of the cases.

`SendTransaction` puts the compilation between the two calls of the user:
`getLatestBlockhash`, which reads the blockhash out of a text and throws if it
is none, and `sendTransaction`, which signs, encodes and sends. Keys, blockhashes and
messages are bytes; the signature is an operator the configuration supplies.
`MangoInstructions` has the two builders of `mango_v3::ix`, whose lists of
accounts are among the requests.

`Base58` and `Base64` have the codecs loop by loop. The reference is separate:
`Denotes` says of a text and of bytes, by long multiplication with no limbs,
that one is the canonical text of the other; `Carried` says which bytes a text of
complete groups carries, bit by bit.

### 2.5 EpochSchedule

The operations of the class and the two bit functions they use, with
`nextPowerOfTwo` by its smearing shifts, for numbers of `Bits` bits: a shift is a division, `|` adds up the
bits of both, and `trailingZeros` is how often its loop halves. A clock walks through the slots, so
that the transition from one epoch to the next can be stated as an action property.

### 2.6 FixedPoint, FixedDivision and Doubles

`FixedPoint` has the arithmetic of `numeric::fixed` as operators for any width: `One`
is 1 as a raw number (2^F in the code, with F = 48) and `Top` is the first value that
is too large (2^127 in the code). `Multiply` and `Divide` are those of types
without a larger type to fall back to, which `i80f48` is. `FixedDivision` runs the
three loops of `detail::divide` a round at a time; `Divide` is the formula for
what they compute, and the rest of the library is modelled with it.

`Doubles` has what a number loses in a conversion: `to_double`, and the quotient of `nativeToUi`, which is a
long double and then a double. A floating-point number is an integer in a fixed scale: at most `Mantissa` for its leading
digits (2^53 in the code), and zeros behind them (`Unit`). `Rounded` is the rounding of IEEE 754, to the nearest and
to the even one of two. `LongMantissa` is that of a long double: 2^64 on x86, and the same as of a double where the
two types are one.

### 2.7 MangoAccount

The owner loads open orders (a request, then an answer that may fail, or stop half-way
at a closed account), fetches a new cache, and computes, while the chain
moves. All the computations are operators on the state; fixed-point operations are
those of `FixedPoint`, with their rounding and wrap-around. `LayoutAssumption` gives the
members of the on-chain records that the library reads.

At four places the code leaves the fixed-point type, and the model with it: the worse case of a spot market is the one whose position is larger
as a double (`Worse`; perpetual positions are compared as 64-bit integers, `PerpComponent`), deposits and
borrows are rounded to native units as doubles (`Floor`, `Ceil`), and amounts of open orders become units of the user
interface by a division of long doubles (`nativeToUi`). Sums and products of 64-bit words wrap around (`ToInt64`, `ToUint64`). A token
without decimals gets `DefaultDecimals`, or an exception if it has no oracle (`Decimals`, `Throws`), except
where the code reads `decimals` itself, for amounts of open orders and for the quote currency of perpetual positions.

`FilteredUpTo` is the loop that collects the addresses to ask for.
`loadOpenOrders` never advances `index`, so every entry of the answer goes to the first
address and only the last one is kept. `Inserted` does the same. `AddressesMapped` is what the comment of
the function promises.

The members of the records are numbers of their type; sums of fixed-point numbers are of any
size in the model. The properties that compare sums therefore ask for numbers that stay in their type
(`NothingWraps`, `AmountsFit`, `RatioFits`, `LockedFits`, `QuantitiesFit`), which those of every state of the run
do. What `WorstCase` allows for rounding grows with the price: the last bit of what the bids would buy is worth that much. On a
spot market it grows with the positions as well (`Indistinct`): two that are the same double may be the
sum of their sizes divided by `Mantissa` apart, and the code then takes the asks, whichever is worse. With nothing
allowed for that, TLC finds `WorstCase` violated. So does what `ValueIsHealth` allows, by `Lost` of every amount that goes through a double.

## 3. Runs

Every run is listed in `PROJECT.json` with its module and configuration. For
each property of a passing run the model holds a broken variant of one
definition next to the sound one (the operators commented `broken:`), which stands for
a plausible mistake in the code; with it in place TLC finds the property violated.

### 3.1 Runs that pass

| Run | Properties | What it shows |
|---|---|---|
| `session_any_order` | `TypeOK`, `CallbackMatchesData`, `PairingsMatch`, `SilentAfterOnUnsubscribe`, `OnceEach` | holds even if listeners are removed before they were confirmed, as `tests/main.cpp` does |
| `session_confirmed_first` | `MapsFollowUser`, `ConfirmedListenerReachable`, `OnlyRemovedEnd`, `RemovedNotLookedUp`, `ImplementsListeners`, `AnswersReported`, `NothingOutlivesTheSubscriber`, `ReadyMeansConnected`, `DestructorReturnsIfReady` | the whole subscriber, for a user who waits for `on_subscribe` as `examples/ws.cpp` does: removal concerns one listener and is final, answers are reported, and a subscriber that was connected in time is destroyed with nothing left running |
| `confirm_transaction` | `TypeOK`, `TrueIsRight`, `TimeoutIsFinal`, `StandingLevelNoticed`, `Returns` | for the level the tests wait for: a returned true and a timeout are right for the cluster as it then is, a level is missed only if it is passed between two polls, and the call ends |
| `compile_transaction` | `MergeRight`, `HeaderRight`, `IndicesRight`, `BlockhashRight`, `WireRight`, `SignaturesSuffice` | what the cluster reads from the text that is sent is what was asked for, under the blockhash the cluster gave |
| `epoch_schedule` | `SlotInItsEpoch`, `EpochsFollow` | slots, epochs and indices fit together |
| `fixed_division` | `TypeOK`, `MultiplyFloors`, `NothingLost`, `DivideTruncates`, `LoopsAreDivide`, `Finishes` | rounding and termination of the arithmetic |
| `mango_account` | `LoadedIsAnswered`, `HealthIsNet`, `RatioAgrees`, `HealthTypesOrdered`, `OrdersNeverHurt`, `WorstCase`, `ValueIsHealth` | the computations agree with each other |

### 3.2 Runs that find a disagreement

| Run | Property | What the code does |
|---|---|---|
| `session_early_removal` | `RemovedNotLookedUp` | A listener removed before its confirmation is mapped again when the confirmation comes; later notifications find its callback. `websocket.cpp:268` and `tests/main.cpp:888` say they do not. |
| `session_map_race` | `NoDataRace` | `unsubscribe` erases from `maps_wsid_to_id` while it holds the lock only shared, so `get_callback` may be searching the map. |
| `lifecycle_join_hangs` | `DestructorReturns` | After a constructor that timed out, `async_close` meets a stream that is not open yet; the handshake then succeeds, `is_connected` rises again after `disconnect` cleared it, and the read loop that `join` waits for has no reason to end. |
| `mango_open_orders` | `AddressesMapped` | `index` stays 0 in the loop of `loadOpenOrders`: of the open orders of an account on two markets one is lost and the other is stored under the first address, also when it belongs to the second. `MangoAccount.hpp:22-23` promises a map from each address to its orders. |
| `compile_order` | `SortedAsDocumented` | `operator<` holds in both directions between a read-only signer and a writable account that does not sign; the order of `solana.cpp:520-521` is not established. |

`lifecycle_join_hangs` states its fairness (section 4): the counterexample is a
behaviour in which every thread runs and the close that was asked for is answered.

### 3.3 Bounds

| Bound | Value | Why it is enough |
|---|---|---|
| `Accounts`, `WsIds` | 2 each | a confusion of ids needs two subscriptions; a third adds no pair that two do not have. The symmetry of both sets is used in the run without liveness properties |
| `MaxRequests` | 2 | one registration after another: a write that throws, a reused entry, a second id |
| `MaxQueued` | 2 | two messages in flight are what reordering between directions, and a notification between a removal and its answer, need. Confirmations and answers are not bounded by it |
| `MaxUnread` | 6 in `Subscriber`, 3 in `Lifecycle` | in `Subscriber`, one more than ever are on their way at once under the other bounds, so that it keeps nothing from being sent; in `Lifecycle`, the read loop is at a message, has one before it, has none |
| `Level`, `Validity`, `Extra`, `MaxLag`, `MaxRetries`, `MaxTip` | confirmed, 2, 2, 1, 2, 6 | the blockhash of the transaction can be older, as old and newer than the one the loop asks for; the height can reach the timeout within two rounds. The constants of the cluster (150 blocks, 32 blocks of lag) keep the same order |
| `IndexRange` | 10, with requests that name 10 keys | the list of accounts is as long as a position has values: the last position that fits |
| `KeySize`, `LimbBytes` | 8, 2 | four limbs of 16 bits, as the code has eight of 32: carries through several limbs and out of the first, numbers of less than one |
| `Answers` | 64 blockhashes whose text is left alone, one letter longer or shorter at either end, or has a wrong letter; texts of one letter repeated, of 7 to 12 letters | leading zeros of none, one, two and seven bytes; numbers just above and below what fits; every way `fromBase58` ends |
| `Requests` | none; up to two instructions, two accounts and one, all privileges, data of 0, 2, 127 and 128 bytes; a Mango cancellation, alone and with an order | every pair of mentions of a key, in both orders; lengths of one byte and two; texts of complete groups and of one and two bytes more |
| `Schedules`, `MaxSlot`, `Bits` | eleven, 3300, 30 | no warm-up and one to five doublings, with a normal epoch of the length of the next doubling or shorter; several normal epochs after the longest warm-up. Numbers of 30 bits are what TLC's integers hold; the proofs are for up to 64 |
| `One`, `Top`, `Operands` | 8, 128, all but the least number | all pairs of numbers of eight bits, three of them fractional: every sign, every boundary of the loops |
| Mango: `One`, `Top` | 256, 2^22 | eight fractional bits, products of the instance below the width, so that the agreement is about the formulas; the arithmetic at the width is `fixed_division`. 100, the power of ten by which a token's two decimals divide, is not so wide that a division by it drops bits (100 * `One` * `One` is at most 2 * `Top`; in the code the same holds of up to nine decimals) |
| `Mantissa`, `LongMantissa`, `MaxExponent` | 256, 2048, 29 | a double keeps eight digits and the numbers of the run have up to twenty-two, as it keeps 53 of up to 127 in the code: positions, deposits and amounts are rounded, halfway cases included, and a long double is rounded again to a double. 2^29 is above everything that is converted (`RangeAssumption`) |
| `Finer`, `HalfWord`, `DefaultDecimals` | 1024, 128, 2 | doubles of units of the user interface have all their digits (`LongMantissa` * 100 is at most `Finer` * `One`); the amounts of the run fit words of eight bits and some of their sums come close; the default is as many decimals as the other token has |
| Mango: accounts, groups, caches, open orders | 32, 2, 2, 2 and closed | base tokens owed and quote currency held, or the other way round, long and short perpetual positions with and without trades to settle, none, one or two open orders accounts, in and out of the basket, symmetric weights and others, a token without decimals |

The least number is left out of `Operands` because its negation overflows,
which is undefined in C++; see section 6.

## 4. Fairness

- `Subscriber`: weak fairness of the user's thread inside a call, in the constructor's wait (it has
  a deadline) and in the join; of the read thread; of the server's answers; of the closing
  handshake. The two threads are scheduled by the operating system, each operation
  of the chain up to the first read has a timer or the name lookup's, the server
  answers what it received, and beast bounds the closing handshake by its suggested
  timeout. No fairness for the user's calls, for notifications, and for the
  loss of the connection: a server may keep it open for ever.
- `Lifecycle`: the same, for the run that finds the join that hangs. `Session` on its own is checked for
  safety.
- `ConfirmTransaction`: weak fairness of the calling thread, remote calls included.
  `cpr::Post` sets no timeout, so that `Returns` rests on the server or the
  TCP connection answering or failing. Nothing is asked of the cluster, which may stand still.
- `FixedDivision`: one thread computes to the end.
- The other modules check safety only.

## 5. Proofs

TLAPS checks the following for every value of the constants that meets the
named assumptions. The proofs are in modules of their own, laid out as: type or
helper lemmas, one lemma per operation, `Init` and step lemmas for the inductive
invariant, and the theorems.

| Module | Theorems | Assumptions | Argument |
|---|---|---|---|
| `SubscriberProofs`, the protocol, for any user | `TypeCorrect`, `PairingsCorrect`, `CallbackCorrect`, `SilentCorrect`, `OnceCorrect` | `BoundsAssumption`, `DisciplineAssumption` | the inductive invariant of the first three is `TypeOK /\ PairingsMatch /\ CallbackMatchesData`; `OnceInv`, on top of it, carries the others |
| `SubscriberProofs`, the protocol, for a user who waits | `FollowsCorrect`, `OnlyRemovedCorrect`, `ReachableCorrect`, `NotLookedUpCorrect`, `ImplementsPromise` | the same, and `AwaitsConfirmation` | `MapsFollowUser`, on top of both invariants; then the refinement of `Listeners`, a lemma for each step |
| `SubscriberProofs`, the whole | `ImplementsSession`, `ImplementsLifecycle`, `NothingOutlives`, `ReadyIsConnected`, `SubscriberFollows`, `SubscriberForgets`, `SubscriberImplementsPromise`; of `Lifecycle`: `LifeTypeCorrect`, `LifeNothingOutlives`, `LifeReadyIsConnected` | those of `Session`; `AwaitsConfirmation` for the three about listeners | each step of the whole is one of each module, or leaves it alone; the theorems of the two are then instances. For `Lifecycle`, its invariant adds `StreamFollows`, `FlagFollows` and `UserFollows` to the types: the stream, the flag and the promise are what the place of the two threads says |
| `ConfirmTransactionProofs` | `TypeCorrect`, `TrueIsRightAlways`, `TimeoutIsFinalAlways` | `LevelAssumption`, `BlocksAssumption`, `SlackAssumption` | see below |
| `CodecProofs` | `RoundTrip`, `DecodesWhatItEncodes`, `CarriesWhatItEncodes`; for Base58 `FromBase58Right`, `ToBase58Right`, `KeysHaveTheirSize` | `KeySizeAssumption`, `LimbsAssumption`, `RoomAssumption`, for Base58 only | see below |
| `TransactionProofs`, the compilation | `MergeCorrect`, `IndicesCorrect`, `HeaderCorrect` | the assumptions of `CompileTransaction` | `IInv`, see below |
| `TransactionProofs`, what is sent | `SendMergeCorrect`, `SendIndicesCorrect`, `SendHeaderCorrect`, `BlockhashCorrect`, `WireCorrect`, `SignaturesCorrect` | those, `SignatureAssumption`, `AnswersAssumption`; `SignatureTyped` for the last two | `SendInv`, for the blockhash `Answered`, see below |
| `EpochScheduleProofs` | `InEpochCorrect`, `SlotCorrect`, `EpochsFollowCorrect` | `BitsAssumption`, `SchedulesAssumption` | `InEpoch`, see below |
| `FixedDivisionProofs` | `TypeCorrect`, `MultiplyCorrect`, `DivideCorrect`, `LoopsCorrect`, `LoopsDivide` | `PowersAssumption`, `WidthAssumption`, `OperandsAssumption`, `OneAssumption`, `TopAssumption` | see below |
| `MangoAccountProofs` | `LoadedCorrect`, `TypesOrdered`, `HealthCorrect`, `NeverHurtCorrect`, `RatioCorrect`, `WorstCorrect`, `ValueCorrect` | `LayoutAssumption`, `OraclesAssumption`, `OneAssumption`, `TopAssumption`, `WidthAssumption`, `WordAssumption`; for `WorstCorrect` and `ValueCorrect` also `MantissaAssumption`, `ExponentAssumption` and `RangeAssumption`, for the latter `FinerAssumption`, `TenAssumption`, `QuoteAssumption` and `DecimalsAssumption` | `LoadInv`, for whatever looks into open orders also `OrdersInv`, see below |

`CommonLemmas` has the facts that several of them need: induction, recursion, the division and
wrapping around of integers, and what halving a number as often as needed leaves.

**Session.** `CallbackMatchesData` is about the one moment a callback runs, and is not
inductive: whether the pair is right was decided when the request was written, when
the server issued an id, when the confirmation joined the two in the maps, and
when a notification was looked up. `PairingsMatch` says it of every place where a pair
is kept: the maps, the messages in both directions, the locals of the
threads and the table of the server. Its part `IdsAreFresh` carries the delicate
case, a write that throws after the request was put in `callback_map`: the entry
is overwritten by the next registration and no message about it exists.

`SilentAfterOnUnsubscribe` and `OnceEach` need more than the pairs: what cannot come
again. `OnceInv` says that a listener that is gone has no entry and that its id is below
`curr_id`, so that no registration makes one again (`GoneHaveNoEntry`, `RemovalsAreOld`); and that a
request for a subscription, and then its confirmation, exists at most once on its way
(`AskedOnce`, `ConfirmedOnce`). An answer to a removal may come twice, when the user removes twice:
it is `RequestErased` that makes the second one find nothing.

**Listeners.** That removal concerns one listener and is final holds for a user who waits for
`on_subscribe`, `AwaitsConfirmation`. None of the three properties is inductive: they speak of what
the maps say at one moment. `MapsFollowUser` says what they say at every moment, while a
message about a listener is on its way and while either thread is inside a call. An entry marked `subscribed`
carries the id the server issued (`EntriesConfirmed`), and so an `unsubscribe` erases and sends that id and no
other (`RemovalsConfirmed`, `RemovalsOwn`); what `maps_wsid_to_id` holds is confirmed and not removed
(`MappedConfirmed`), and the reverse (`ConfirmedMapped`); no request was given two ids (`IssuedOnce`). Without
`AwaitsConfirmation` the invariant is false, which is what `session_early_removal` shows.

`ImplementsPromise` shows every step of `Session` to be a step of `Listeners` or none of its
steps: the write of the request is the registration and the write of the removal the removal (or the
call that found nothing to remove); `DispatchSubscribed`, `GetCallback` and `DispatchUnsubscribed` start the three
callbacks, and `RunCallback` is their return. The steps of the server, of the network and of the
destructor map to none.

**Subscriber.** `ImplementsSession` carries every theorem about `Session` to
the whole subscriber, and so `SubscriberImplementsPromise` says that the program from construction
to destruction implements `Listeners`. None of them was proved under fairness; what is said about
listeners of a user who waits is said under `AwaitsConfirmation`.

**Lifecycle.** `NothingOutlivesTheSubscriber` needs to know that the io_context cannot end
while the stream is open, and that is not visible in the user's state; `StreamFollows`
relates the stream to the place of the read thread, `FlagFollows` the flag and the promise.

**Confirmation.** `TimeoutIsFinal` is about what can no longer happen. The invariant says: heights
lag by at most `MaxLag` (`ChainOK`); the locals of the loop are older values of the cluster
(`LoopOK`); from the first call on the timeout height is beyond the expiry of the transaction
(`TimeoutBeyondExpiry`, where `SlackAssumption`, `MaxLag < Extra`, is
used); an answer at a confirmed level stays true (`AnswerStable`); and a transaction unknown
beyond its expiry stays unknown (`UnknownStaysUnknown`). `TrueIsRightAlways` is
stated for every level but `processed`, whose blocks can be dropped.

**Epochs.** `InEpoch` is the invariant: the slot is so many slots behind the first one of some epoch that has more slots than
that. It is inductive because an epoch begins where the one before it ends (`EpochsAdjoin`), also where the
doubling epochs and the normal ones meet. What is computed from such a slot is that epoch and that distance (`InfoIs`): after
warm-up by division, and in warm-up because `nextPowerOfTwo` finds the next power of two (`NextPower`), which no test tries
for every number. A shift by m and an `|` spread each one of a number over twice as many places as before (`SmearSpreads`), so
that six of them reach all 64 (`AllShifts`), a number whose highest one is at place k becomes all ones up to k,
and these add up to one less than the next power (`AllOnes`). The sum that `|` is, and its bits, are `SumExists` and `SumHasBits`.

**Fixed-point.** `MultiplyFloors` is a fact about integers: the four partial products, the high
one rounded down, add up to the product. For division `NothingLost`
(`numerator = answer * denominator + rest`) is carried through both loops by `LoopsOK`,
which bounds the shifted denominator below `2 * Top` so that nothing is shifted out, and relates
`x` to it; at the end the rest is below the denominator, and the fraction is the
quotient of the rest. `PowersAssumption` gives the powers of two as a set closed under doubling
up to the width and halving, since the exponential is out of reach of the provers.

`LoopsAreDivide` says that the loops compute the formula `Divide`, also for a wide denominator, where the third loop
shifts both numbers. The formula asks for the number of shifts after which the remainder is no longer too wide,
and was not before the last (`Shifts`). The invariant of the third loop, `Lowering`, says that it has done so many rounds
and that each was needed; that there is one such number only is `HalvingsUnique`, and that
there is one is `HalvingsExist`, by `LeastElement`. `TwoTo`, what a shift divides by, is a recursive function.

**Induction.** The library's induction theorems take an operator and cannot be instantiated. `CommonLemmas`
states induction of sets instead (`SetInduction`, `FiniteInduction`), and gets it from the
well-foundedness of strict inclusion on finite sets, which the library states without an
operator, by way of `LeastElement`. `Recursion` says that a recursive function exists
whenever its step keeps a set; from it the loops that are written as recursive functions have values to reason about.

**Sums.** `SumFunction` folds a function over its domain in an order only `CHOOSE` knows, and the library
of the prover has no facts about it. Unfolded, the fold is a recursive function over the
subsets of the domain; that it exists is `SumsExist`, by induction on the size of the subsets.
`SubsetInduction` then goes by taking out the element that is added next, whichever it is,
and gives what the health needs: sums of functions that are above each other, or apart by at most so much at each
index, are (`SumAtLeast`, `SumsApart`), and the sum of differences is the difference (`SumOfDifferences`).

**Mango account.** `LoadedIsAnswered` compares the map with the last answer and is nearly inductive:
`LoadInv` adds that what `loadOpenOrders` waits for is what it filtered, so that an account with one
address is asked for one (`ReachedOfOne`, `AnswerLoads`). The others hold of every account,
group, cache and map of open orders, and what they need of the steps is the types of
these. `HealthTypesOrdered`: a position times its price keeps its sign (`WorthSigned`), and a weight that is
stricter makes it less (`StricterIsLess`), because `Multiply` is monotone where it does
not wrap (`MultiplyMonotone`). `HealthIsNet`: an asset is cut the same way in both computations; a
liability is negated first in one of them, so that each of the two cuts falls on the other side of the exact
value (`CutSum`), and the second multiplies what the first lost by the weight: up to three raw units for each
of the two positions of a market if no weight is above two, which is `Rounding`, and always to the side of less health.
`OrdersNeverHurt`: all bids and all
asks each leave the account with at least the position and the quote currency it has without its open
orders (`OrdersAdd`), and a larger position is not less healthy (`LargerIsHealthier`).

`RatioAgrees` rests on `HealthIsNet`, and on where a quotient stands with respect to one (`QuotientAgainstOne`): it is at
least one if the numerator is not the smaller; and if it is at least one, the denominator is larger
by no more than the bits the division dropped (`Dropped`). `WorstCase`: with symmetric weights what a position counts is
its worth less a part of its size (`SymmetricWeight`), so that of two positions the one of the larger size counts no more
than the other and the worth of the difference (`LargerCountsLess`); weighing loses less than three bits
(`WeighedByCuts`); what is larger as a double is larger, or smaller by no more than `Indistinct` (`WorseIsLarger`), and what is
larger as a 64-bit integer is larger (`PerpLarger`); and what the asks are paid for the difference is its worth, exactly for perpetual positions (`PerpBalances`)
and up to one bit of a quotient, times the price, for open orders (`SpotBalances`).

`ValueIsHealth` compares two functions that share nothing: the one rounds balances to native units, divides them by
powers of ten, multiplies by a price that was scaled up by other powers of ten and divides the notional of
perpetual positions at the end; the other stays in native units and weighs with one. Both are compared with the same
exact amount, an integer once everything is multiplied by `One` twice. The powers of ten cancel
(`PowersOfTen`: 10^(j-k) * 10^k = 10^j), and what each rounding moves is bounded where it
happens: a division by a power of ten that is undone again leaves less than that power (`CutBack`, `UiIs`), the
scaled price is exact (`UiPriceIs`), a deposit, a borrow and an amount of open orders is off by
what its doubles round and one or two units (`DepositIs`, `BorrowIs`, `NativeToUiIs`), the worth of an amount is cut once more (`WorthBetween`); that the orders' locked
quote currency is worth what it was, although one case turns it into a quotient by the price, is `SpotExact` and
`CasesExact`, and that the three ways to settle the funding agree is `FundingAgrees`. For each market `MarketAgrees` adds this up
to `MarketRounding`, and `SumsWithin` adds up the markets. One part of the bound comes from prices, decimals and the number of
markets; the other is a fraction of what the account holds, borrows and has in open orders (`Lost`,
`BaseLost`, `QuoteLost`), about a 2^53rd, and comes from the doubles. `OrdersInv` is the one thing it needs of the steps: only contents of
accounts are ever on the map, because the loop stops in front of an address that has none, however long
the answer is (`ReachedStops`). The conditions of `ValueIsHealth` hold in 7992 of the 11808 states of the
run; what the run finds there is a difference of -88 to 140 where the bound is 2373 to 2891.

**Doubles.** A number below `Largest` has a last digit to round to (`UnitIs`), which is one, or at most a `Mantissa`th of twice the
number; the nearest multiple is no more than half of it away (`NearestIs`), so that a double differs from the number by
no more than a `Mantissa`th of it (`DoubleIs`, `DoubleWithin`). For the quotient of two roundings this makes
three of them (`QuotientIs`).

**CompactU16, Base64.** A case for each of the three lengths of an encoded number. The text of Base64 is cut into groups
of four letters, each of which stands for three bytes, or, at
the end, two or one. A lemma for each kind says that the letters give the bytes back
(`FourLetters`, `TwoBytesLetters`, `OneByteLetters`); `GroupsOfText` and `EndOfText` find
the group a byte lies in.

**Base58.** Letters, limbs and bytes are three ways to write a number, and the proofs compare what is written
through its value: `Value(s, n, b)`, what the first `n` digits of `s` stand for to the base `b`, which is below `Power(b, n)`
(`ValueBelow`) and belongs to one sequence of digits without leading zeros (`CanonicalUnique`).
A loop that carries from the last digit to the first multiplies and adds, and what does not fit is left as the
last carry (`CarryValue`, for the three loops of `Multiply`, `Round` and `TimesBase`).

`FromBase58Right`: after every letter the limbs have the value of the letters so far, or the number is too big for them or
a letter is none, and then `b58tobin` has failed for good (`ReadSoFar`, `ReadMore`); the bytes taken out of the
limbs have the same value (`BytesRight`); counting the zeros in front on both sides, as the size test
does, leaves exactly the key that the text denotes.

`ToBase58Right`: `b58enc` starts each round at the last digit and stops it, after the digit that was the
first one of the round before, when no carry is left. `Written58` says that what lies in front of `high` is zero, so that
stopping there changes nothing; the buffer of `size * 138 / 100 + 1` digits is long enough
(`BufferHasRoom`: 256^8 is at most 58^11), and its first digit stays zero until the last byte, so that no
carry is lost. The digits without leading zeros are those of the text because both have the value of the
key, and the text with its zeros fits the buffer of the caller (`TextHasRoom`). This last step needs
`RoomAssumption`, that the size of a key is a multiple of eight, as 32 is: for a size of one byte `b58encode` would
refuse a key of two letters.

**Compilation.** `MergeRight` is kept by each round of the merging loop. What comes after it speaks of
lists made from earlier lists, and `IInv` says how each depends on the one before: `sorted` is a selection of
`uniqueMetas`, without repetition (`Selected`), in an order that no later element contradicts (`InOrder`); `accounts` are its keys
and `header` its counters (`Listed`); every instruction is compiled with the final list (`CompiledRight`), and every key it
names is there (`AllMentioned`, `MentionedIsListed`). Then `IndicesRight` follows from what `Index` finds, and `HeaderRight` from this: in a list that
`operator<` orders the signers are an interval at the front, and in each of the two parts the
accounts that are not written an interval at its end (`Prefix`, `Interval`), so that the counters,
which are cardinalities, say where each ends. Both are stated for what a byte can count, as the runs state them.

**What is sent.** `BlockhashRight` follows from the two theorems about Base58 and from `Answered`: until the
compilation is sent, its blockhash is what `fromBase58` made of the answer, and it threw for no other.

`WireRight` compares the text with what was compiled through a reader that knows only
the format. `SendInv` adds to `IInv` that the text is the encoding of the message, and that the message is
`Serialized`: there is a sequence of `tails`, one for each instruction that is still to be read, each of which is the
bytes of an instruction in front of the next one. `SerializeNext` changes every one of them. The reader is
followed from the front: `VectorRead` for a list behind its length, `InstructionRead`,
`InstructionsRead` for all of them, by matching the recursion of the reader with
the tails, and `MessageRead`. `WireCorrect` and `SignaturesCorrect` suppose `SignatureTyped`: libsodium's
signature has `SignatureSize` bytes.

`LengthsFit` is in `WireRight` because of these proofs: the code converts the length of a list to a `uint16_t`
without looking, and a list of 65536 bytes would be sent with the prefix of an
empty one. No transaction the cluster takes is that long.

**Only model-checked.** All liveness properties (`AnswersReported`, `DestructorReturnsIfReady`,
`StandingLevelNoticed`, `Returns`, `Finishes`), since the prover
has no support for fairness and ENABLED. Every invariant and every action property of the runs
that hold is also proved.

## 6. What the code does and a reader might not expect

These came out while the model was written. They are not disagreements
with anything the repository says, so no run is made of them; the properties
are stated with the condition under which they hold.

- Removing a listener before its confirmation sends the server whatever
  `ws_id` held, as the id to unsubscribe. If that is the id of another listener, the
  other subscription ends: `OnlyRemovedEnd` fails when `AwaitsConfirmation` is FALSE.
- `detail::divide` shifts remainder and denominator right when the remainder is too wide.
  Both lose bits, and for denominators above `2 * Top / One` the result may
  be off by a last place, or by one when the rounded fraction reaches 1 and is or-ed
  to an odd quotient. `DivideTruncates` is stated for the others (`Narrow`); for the wide
  ones `LoopsAreDivide` says what comes out.
- The negation of the least number overflows.
- Doubles decide which case of a spot market is the worse (`MangoAccount.hpp:87`): above 32 native units a position has bits
  they do not keep, and where the two are one double the code takes the asks. Deposits are cut after the conversion (300), so that
  one just below a native unit counts as that unit.
- Amounts of open orders (316, 320) and of perpetual positions (251, 277) are scaled by the decimals in the group, deposits and prices by
  `getMangoGroupTokenDecimals`, which puts the default for a zero: for a token without decimals the two
  disagree by a factor of a million, and `ValueIsHealth` asks for decimals where the former are used.
- `getMangoGroupTokenDecimals` throws for a token that has neither decimals nor an oracle, and looks for the oracle of the quote
  currency behind the end of `oracles`, if that has no decimals.
- With a price of zero `quoteLocked / price` throws, so that an account with open orders has no health. The properties ask for prices above zero.
- Because of the disagreement in `loadOpenOrders` (3.2) `LoadedIsAnswered` is
  stated for accounts with at most one open orders account; the agreement of the computations is checked for all.
- `computeValue` counts the open orders of a market also when it is not in the margin basket, and perpetual positions of a market that is
  not listed; health counts neither, and counts trades that were not settled, which the value does not: `ValueIsHealth` is stated for accounts without these.
- Nothing in `MangoAccount` checks whether a product fits, and a product that does not is cut to the width of
  the type without notice: a price of nearly the largest number makes an asset a debt. `HealthIsNet`,
  `HealthTypesOrdered` and `OrdersNeverHurt` are stated for numbers that fit, and the first for liability weights of at most two.
- Liabilities above `2 * Top / One` raw units (2^32 native units) lose bits in the division of the ratio, so that a
  ratio of zero may go with a health that is below zero, by less than a 2^79th of the liabilities: `RatioAgrees` has `Dropped` for it.
- `getLeverage` divides by assets minus liabilities and throws for an account worth nothing.
- The code counts one signature in every transaction, whatever the header requires:
  `SignaturesSuffice` is stated for transactions that only the payer signs, and the library has
  no way to add another signature.
- `b64decode` takes a character outside the alphabet for a zero, and reads past its table for one above 'z'.

## 7. What is not modelled

- The other RPC requests, and JSON conversions (one blocking call each, no state), key files and
  libsodium, `b58decode` (only tests use it), formatting of 128-bit integers, the on-chain layouts
  beyond what `MangoAccount` reads, `uiToNativePriceQuantity` (it computes in double), the examples,
  the tests and build files. The reader of the event queue in `examples/accountSubscribe.cpp` is
  not part of the library; after a gap of more events than the queue has slots it prints every slot
  more than once.
- In `Session`: callbacks that are null, frames that are not JSON (`json::parse` is outside the
  `try` block), more than one writer thread, a server that uses an id for two
  subscriptions, callbacks that call back into the subscriber.
- In `Base64`: letters outside the alphabet.
- In `MangoAccount`: health types Maint and Init for the values in units of the user interface, `getLeverage`; sums
  and differences of fixed-point numbers do not wrap around, which the properties exclude (`NothingWraps`), and signed 64-bit
  products that overflow, which C++ leaves undefined, wrap around as compilers make them, and are
  excluded as well (`QuantitiesFit`, `PerpFits`).
- In `Doubles`: infinities and numbers too small for all their digits, which no conversion in the library
  reaches. `pow(10.0L, k)` is taken as exact, as it is for the decimals in use, and `abs`, `floor`,
  `ceil` and `pow` as the overloads for floating-point numbers.
- In `EpochSchedule`: schedules whose normal epochs begin after epoch 26, for which `1 << epoch` or its product with 32 overflows an int
  (`SchedulesAssumption`; the main network's begin at 14), and slots of 2^53 and more, which `floor` rounds on their way through a double.
- In `FixedPoint`: `to_float` and `to_int`, which nothing calls, and the versions of multiply and divide for
  types that have a larger type.

## 8. Plan

Done, in this order: `Session` with `Listeners`, `Lifecycle`, `ConfirmTransaction`,
`CompactU16` with `CompileTransaction`, `EpochSchedule`, `FixedPoint` with `FixedDivision`, `Doubles`,
`MangoAccount`; then `Subscriber`, which composes the first two, `Base58`, `Base64`, `SendTransaction`
and `MangoInstructions` around the compilation; and the proofs of section 5.

Nothing of the plan is left. What would widen it are the parts of section 7, first the conversions of the other
requests, once one of them keeps state.

Properties of less depth (types, `Finishes`) give way to those of new modules.
