# mscoin_go in TLA+

A verification project for `mscoin_go`, the backend of a coin exchange: three
pairs of HTTP/RPC services (market, exchange, ucenter), a background service
(jobcenter), and the packages they share.  The modules describe the parts whose
correctness depends on an order of events: transactions, messages, retries,
crashes.

## 1. Inventory

| Component | State | Operations | Talks to | Here |
|---|---|---|---|---|
| ucenter withdrawals, write side (`app/ucenter/rpc/.../withdraw_service.go`) | Redis codes `WITHDRAW::<phone>`; MySQL `member_wallet`, `withdraw_record` | `SendCode`, `Apply` (reads: `FindRecordList`, `FindAddressByCoinID`) | MySQL, Redis, Kafka topic `withdraw` | modelled |
| Kafka producer (`pkg/mq/kafka/kafka.go`) | none; the topic is the broker's | `PushWithKey`, `Close` | Kafka | partly: synchronous publication |
| Kafka consumer (`pkg/mq/kafka/consumer.go`) | the event in hand, context, reader; the group's offsets in the broker | `Start`, `handleFetchedMessage`, `publishDeadLetter`, `commit`, `Stop` | Kafka, the business handler | modelled |
| jobcenter withdrawals (`app/jobcenter/.../withdraw_service.go`, `withdraw_consumer.go`) | Redis checkpoint `JOBCENTER::WITHDRAW::TX::<id>`; `withdraw_record` | `ProcessApplied`, `finalizeFromCache` | MySQL, Redis, market-rpc, ucenter-rpc, Bitcoin Core | modelled |
| Bitcoin adapter (`pkg/btcx/rpc.go`) | none; unspent outputs and mempool are the node's | `Send`, `Allocate` | Bitcoin Core | partly: no configuration checks |
| ucenter wallets (`wallet_service.go`, `reset_address_logic.go`) | `member_wallet` | `EnsureWalletBySymbol`, `UpdateAddress`, `ResetAddress`, the lists | MySQL, market-rpc, Bitcoin Core | modelled |
| ucenter members (`member_service.go`, `captcha_service.go`, `pkg/jwt`) | `member`; Redis codes `REGISTER::<phone>`; goroutines that count logins | `SendRegisterCode`, `RegisterByPhone`, `Login`, tokens | MySQL, Redis, captcha service | modelled |
| ucenter histories (`transaction_service.go`, `transaction_repository.go`) | `member_transaction`, `withdraw_record` (read) | `FindTransaction`, `FindRecordList` | MySQL | modelled |
| exchange orders (`order_service.go`, `add_logic.go`) | `exchange_order` | `Add`, `CancelOrder`, queries | MySQL, ucenter-rpc, market-rpc | modelled |
| jobcenter tasks (`task/service.go`) | one goroutine and ticker per task | `Start`, `runLoop`, `Stop` | the sync services | modelled |
| kline sync and reads (`kline_service.go`, `market_service.go`) | MongoDB collections; Redis latest price | `SyncPeriod`, `ReplaceBatch`; `SymbolThumbTrend`, `HistoryKline` | OKX, MongoDB, Redis, Kafka | modelled |
| exchange rates (`exchange_rate_service.go`, `rate_service.go`) | Redis `USDT::CNY::RATE` | `SyncUSDCNY`, `USDRate` | OKX, Redis | modelled |
| HTTP APIs (`market-api`, `exchange-api`, `ucenter-api`), middleware, envelope | the request being served | 22 routes | RPC | modelled |
| coins and pairs (`market-rpc`) | `coin`, `exchange_coin` (read) | lookups | MySQL | partly |
| wrappers and helpers (redisx, mysqlx, mongox, okxx, passwordx, jwt, page) | connections | | | partly |
| key helpers of `pkg/btcx` (wallet, base58) | none | | nobody calls them | not modelled |
| generated RPC code, configuration | none | | | not modelled |

There is one long protocol in the system, the withdrawal, and it crosses most
of these parts:

    caller --RPC--> ucenter Apply --[SQL transaction: lock wallet, check, freeze,
        insert record, PUBLISH event, commit]--> Kafka --> jobcenter consumer loop
        --> ProcessApplied: read row, read checkpoint, look up coin and wallet,
            SEND transaction, write checkpoint, mark row successful --> ack, commit offset

What is hard in it: the event is published before the transaction commits, so
it may come before its row or without one; each of ProcessApplied's eight calls
may fail with or without its effect; the consumer retries, is rebalanced, and
dies between any two calls; Redis, MySQL and the Bitcoin node are updated one
after another.  What makes it correct: no overdraft, frozen money equals what
the records ask for, every accepted withdrawal has its event, nothing unfrozen
is paid, no event is skipped, a finished record is not touched again, and every
accepted withdrawal ends.

The other parts are smaller, and hard for other reasons:
- **wallets, addresses, orders**: `SELECT` then `INSERT`, and `SELECT`, RPC, `UPDATE`, by
  requests that run at once and of which each call may fail after its effect.  Adding an order makes wallets
  in another service before the order is validated.  Correct means: one wallet per member and coin, one owner
  per deposit address, an address that was shown is still watched, orders that have wallets and a price, and
  order ids, which are readings of a clock, that find the order they were answered for.
- **members**: a code in Redis that expires while it is being used, two registrations of one phone, a
  login counted by a goroutine that outlives its request, a token that expires.
- **lists**: a page is a `SELECT` with an offset and a `COUNT`, two statements outside a transaction, over tables that
  grow and whose rows change.
- **amounts**: Go adds and subtracts them in `float64` and floors them to ten decimals; the Bitcoin node reads eight.
- **market data**: the tail of a candle series is deleted and inserted again, each document by document, while
  charts and prices are read from it, calls fail, and `Stop` cancels anywhere.
- **HTTP APIs**: a request whose deadline passes while its RPC is still carried out, and
  which the client sends again.

`PROJECT.json` lists the hazards at their lines.

## 2. Modules

| Module | Models | Proofs |
|---|---|---|
| `WithdrawApply` | ucenter `SendCode` and `Apply`, MySQL's row lock, the synchronous producer | `WithdrawApplyProofs` |
| `KafkaConsumer` | `pkg/mq/kafka` consumer framework, several processes of a group, open handler | `KafkaConsumerProofs` |
| `WithdrawPayout` | jobcenter `ProcessApplied` inside `KafkaConsumer` (`INSTANCE`), with a minimal environment for ucenter | `WithdrawPipelineProofs` |
| `WithdrawLifecycle` | abstract: one withdrawal is accepted, paid, finished | implemented: `WithdrawPipelineProofs` |
| `WithdrawPipeline` | `WithdrawPayout` with `WithdrawApply` (`INSTANCE`) in the place of its environment, sharing the topic and the records | `WithdrawPipelineProofs` |
| `BtcSender` | `pkg/btcx` `Send`, one action per RPC to Bitcoin Core, concurrent calls | `BtcSenderProofs` |
| `AddressLedger` | abstract: the address `Send` pays from is one balance | implemented: `BtcSenderProofs` |
| `WalletAddress` | ucenter wallets and deposit addresses: `EnsureWalletBySymbol`, `ResetAddress`, the lists | `ExchangeOrderProofs` |
| `Paging` | pages as the repositories cut them and as `pkg/page` announces them | |
| `ExchangeOrder` | exchange `Add` and `CancelOrder`, over `WalletAddress` | `ExchangeOrderProofs` |
| `OrderLists` | a member's history and current orders, page and count, over `ExchangeOrder` and `Paging` | `ExchangeOrderProofs` |
| `MemberAccount` | codes, registration, login, the login count, tokens | `UcenterProofs` |
| `MemberHistory` | transaction and withdrawal lists, paged while rows are added, over `Paging` | `UcenterProofs` |
| `Ucenter` | `MemberAccount` and `MemberHistory` in one specification | `UcenterProofs` |
| `MarketData` | jobcenter's jobs, its stop, the kline and rate syncs, market-rpc's reads | `ServicesProofs` |
| `Gateway` | a request of the three HTTP APIs on its way, every route | `ServicesProofs` |
| `Services` | `MarketData` and `Gateway` in one specification | `ServicesProofs` |

The modules `MC<module>` declare the model values and the small tables of the instances.  `SumProofs` holds the lemmas on
sums over finite sets that three of the proof modules need.

**WithdrawApply.** `pc[r]` is the step the RPC call `r` is about to run:
validation (`Receive`), code and password (`Authenticate`), `SELECT ... FOR
UPDATE` with the balance check (`LockWallet`, `InsufficientBalance`),
`FreezeBalance`, `SaveRecord`, the publication (`Publish`,
`PublishUnanswered`), the commit (`Commit`, `CommitUnanswered`), and `Rollback`
from any of them.  `balance`, `frozen` and `status` are the *committed* rows; what
an open transaction has written is implied by `pc`.  A request is also the id of
the record it inserts.  The event goes to any partition, because the producer's
balancer (`LeastBytes`) does not use the key.

**KafkaConsumer.** `loop[w]` is where process `w` is in `Start` and
`handleFetchedMessage`; `position[p]` is the reader's position and
`committed[p]` the group's offset, which `CommitMessages` sets to the offset of
the event in hand, whatever it was.  A rebalance starts the new owner from the
committed offset while the old one may still work on an event.  `Cancel` and
`CloseReader` are the two halves of `Stop`.  The business handler is open: it
returns any `ConsumeAction`.

**WithdrawPayout.** One action per call of `ProcessApplied`; `step[w]` is the next
one, `sent[w]` the transaction id it holds, `checkpoint`, `status`, `txid` and
`broadcasts` are Redis, MySQL and the node.  Every call may fail; the
calls that write may fail after they wrote.  `WithdrawPayout` has its own small
environment (`Apply`: receive, publish, maybe commit) so that it can be checked
alone; `WithdrawPipeline` shows that the real `WithdrawApply` is such an
environment (`ImplementsPayout`).

**Composition.** `WithdrawPipeline` extends `WithdrawPayout` and puts `WithdrawApply` (`INSTANCE`, as `A`) in the place
of its environment, with `req`, `status`, `log` and the fault budget shared.  Its steps (`PipelineNext`) are steps of one
service with the other's variables unchanged; `Spec` of `WithdrawPayout` is then the property `ImplementsPayout`.
`MaxEvents` bounds the environment of `WithdrawPayout` and nothing in the pipeline: a request publishes once, and once more for a fault, so
`PipelineAssumption` asks for room for all of it.

**BtcSender.** What is one step in `WithdrawPayout` is here `listunspent` with the choice of
inputs (`collectInputs`) and the change (`floorFloat`), `createrawtransaction`,
`signrawtransactionwithwallet` and `sendrawtransaction`.  The node is
external: `unspent` is what it would list, `Accept` spends the inputs and makes
the change output.  Several calls choose from the same outputs without a lock; the one that comes
second is refused and retried, with a new list.

Amounts are integers, finer than `Satoshi`, the 1e-8 coin the node keeps, and than `Grain`, the 1e-10 coin `floorFloat` keeps.
A sum or a difference of them is a `float64`, which may be off: `Rounding` says by how much, less than a `Grain` in either direction,
for the sums where it is (`FloatDifference`).  So the loop of `collectInputs` may go on at the exact target
(0.1 + 0.7 < 0.8) or fail there, and the change may come out with more decimals than the node reads (0.3 - 0.1 is floored to
0.1999999999).  `CreateRawTransaction` fails on such a change, and on such an arrived amount (`Readable`), at every retry that chooses the same inputs.
`AddressLedger` says what is left of the balance all the same: a payment takes its total exactly when that is a whole number of satoshis,
because only whole amounts are accepted, and otherwise it is off by less than two `Grain`s.

**WalletAddress.** `wreq[r].pc` is the call handler `r` is about to make: the coin of market-rpc
(`FindCoinInfo`), the `SELECT` (`FindExisting`), the `INSERT` (`Save`), `getnewaddress` (`Allocate`), the `UPDATE`
(`UpdateAddress`).  `wallets` and `allocated` are the tables of MySQL and of the node.  Each call may fail without
effect (`CallFails`) or with it (`Answered`).  Names of coins are compared by MySQL without regard to case and by Go
with it, so a coin has several names in `CoinNames` and one unit, `UnitOf`.  `shown` and `overlapped` are
history: what members were told, and whose resets ran at once.

**ExchangeOrder.** Extends `WalletAddress`: an `Add` handler uses the wallet handler of its request twice
(`AskWallet`, `WalletArrives`) for the two coins of the pair, then validates, counts (`CountOrders`) and inserts
(`SaveOrder`) under an id that is a reading of `clock`, which need not advance between two readings.  `Engine` and
`LockWallet` are external: the matching engine the comments speak of, and an administrator.

**OrderLists.** `reading[q]` is a call of `History` or `Current`: what it asked for, the page it has read (`SelectPage`) and the total
(`CountRows`).  Orders are stored, matched and cancelled between the two statements (`order_repository.go:122`, `:128`; `:155`, `:161`).
Parameters are passed on as
they come, and a missing page number is zero, which makes MySQL refuse the offset.  Neither query has an `ORDER BY`: `Scans` are all the orders MySQL
may read the rows in.  Nothing is therefore promised across pages: a member whose pages are read in two different orders
may miss rows, or see one twice, and no line of the code excludes that.

**MemberAccount.** `cache` is Redis with its expiry, `now` the clock.  `rreq` and `lreq` are the handlers, one
action per call; `lreq[l].background` is the goroutine that counts a login.  `sent`, `proofs` and `served` are history:
the codes sent, with which code each member was registered, and which requests a token opened.

**MemberHistory.** `Where` is the WHERE clause and `NewestFirst` every order `ORDER BY create_time DESC` allows; `Count` and
`FindList` are the two statements of a page.  `walk` is a member who asks for one page after the other.

**MarketData.** `job[j]` is where the loop of job `j` is in its cycle: the pairs, the fetch, the deletion, one
document of `InsertMany` after the other, the cache, the publication.  `proc` is jobcenter from `Start` over
`Stop` and the closing of the connections to its end.  A candle is its time and its closing price, and a price is named by the moment it
was made, so that "newer" can be said of prices.  A collection is a bag of candles: nothing in MongoDB keeps two documents of one time apart.
The visible pairs come in any order, since their `SELECT` has none.  `DeleteMany` removes what it finds one document at a time, in any
order, so a tail may be left half deleted as well
as half written.  A reader in between, or after a cycle that was cut short, may take an older candle for the newest one; and `SymbolThumbTrend`
takes the end of its range before its queries (`market_service.go:73-78`), so a slow one may answer an older price than another did before.  The
price of a thumb may thus go back, and no property says otherwise; `SyncsCatchUp` says that it is fresh again and again.

**Gateway.** The constant operators list every RPC method, every logic as the sequence of its calls, every
handler and every route of the three APIs; the actions take one request through middleware, parsing, checks, calls
and envelope.  A call that was sent is in `flight` until its service carries it out, which may be after
its caller's deadline.

**Two parts in one specification.** `MemberAccount` and `MemberHistory`, and likewise `MarketData` and `Gateway`,
share no state and no process.  `Ucenter` and `Services` therefore choose at the start which of the two runs
(`part`): a behaviour of both shows nothing the behaviours of each do not.

## 3. Runs

| Run | Question | Properties | Result |
|---|---|---|---|
| `apply` | Can concurrent withdrawals overdraw a wallet, freeze the wrong amount, be committed without an event, or stay unanswered behind a row lock? | `TypeOK`, `NoOverdraft`, `FrozenMatchesRecords`, `CommittedIsPublished`, `EveryRequestAnswered` | they cannot |
| `consumer` | Is an offset ever committed past an unhandled event? Is every event handled? Does a stop end every retry? | `TypeOK`, `CommittedIsHandled`, `EveryEventHandled`, `StopEndsRetries` | no; yes; yes |
| `payout_group` | With two workers on the same event: is what is acknowledged settled, can a withdrawal be paid once more without one more fault, do its records live the abstract lifecycle? | `TypeOK`, `AckedIsSettled`, `PaymentsNeedFaults`, `ImplementsLifecycle` | yes; no; yes |
| `pipeline` | Do the two services fit? Is what is paid frozen? Is anything sent over a checkpoint? Does every accepted withdrawal end? | `ImplementsPayout`, `PaidIsFrozen`, `NoSendOverCheckpoint`, `AcceptedSettles` | yes; yes; no; yes |
| `sender` | Is the address left as one balance would be? Is an input chosen that is not needed? Is every payment sent in the end? | `ImplementsLedger`, `SenderInv`, `SentUnlessRefused` | yes; no, up to the error of `float64`; yes, unless the address cannot pay it or the node refuses its amounts |
| `exchange` | Concurrent orders, wallet requests and resets: one wallet per coin, one owner per address, nothing shown that is no longer watched, orders that can be matched and found? Does the total of a list reach what is listed? | `TypeOK`, `OneWalletPerCoin`, `AddressOfOneMember`, `ShownStaysWatched`, `ResetGivesAddress`, `OrderInv`, `AnsweredOrderIsFound`, `ListsInv` | yes; `ShownStaysWatched` only while a member's resets do not overlap; `ListsInv` but for current orders that ended meanwhile |
| `members` | Is a phone registered once, and by its code in time? Is a login counted once? What does a member miss who pages through a growing list? | `OnePhoneOneMember`, `AccountInv`, `LoginsAddUp`, `HistoryInv` | yes; yes; at most the rows written between the two statements of his last page |
| `services` | Market data: prices in Redis and in the topic that never go back, charts in order, a stop that ends, syncs that catch up? HTTP: is whatever is carried out entitled, is code 0 earned, is every request answered? | `MarketInv`, `PricesMoveForward`, `StopEnds`, `SyncsCatchUp`, `EffectsAreEntitled`, `GatewayInv`, `EveryRequestIsAnswered` | yes |
| `payout_twice` | Is a withdrawal paid at most once? | `NeverPaidTwice` | no: the checkpoint comes after the broadcast |
| `payout_poison` | Does an event that can never be handled leave the topic? | `NoPoisonIsRetried` | no, when the fee equals the amount |
| `consumer_poison_stop` | Does `Stop` end `Start` with a rejected event in hand? | `StopEndsStart` | no: the dead-letter branch never looks at the context |
| `gateway_envelope` | Does every endpoint answer with the envelope? | `EveryAnswerIsEnvelope` | no: two handlers read a field of the nil a failed logic returns |

`NoSendOverCheckpoint` is a property of one worker and its own checkpoint: another worker may send between its reading of the
checkpoint and its `Send`, and what two workers may do is the matter of `payout_group`.  `ShownStaysWatched` leaves out the members whose resets overlap,
whose address is lost by the code; `AddressOfOneMember` holds for them too.  `AcceptedSettles` takes a failure of `Send` for one of finitely many faults,
but for an arrived amount of zero, which no retry can pay; a change or an amount the node refuses each time (`BtcSender`) is outside it.
That the pipeline implements `WithdrawLifecycle` is proved
(`PipelineImplementsLifecycle`), through `ImplementsPayout`.

The runs whose result is "no" in the last four rows show a disagreement between the code and a
comment of the repository, quoted in `PROJECT.json` under `findings`.  Met while modelling, without a run of their own:
- jobcenter's `withdraw_service.go:257-258` takes a missing row for one that is about to be
  committed; `Rollback` after `Publish` leaves an event whose row never comes, which is retried for ever.
- `pkg/btcx/rpc.go:388` says that `floorFloat` avoids the precision problem of the change.  It floors to ten decimals (`rpc.go:332`) and the
  node reads eight:
  an input of 0.3 that pays 0.1 leaves a change of 0.1999999999, which `createrawtransaction` refuses.  The consumer retries the
  payment, with the same inputs as long as no other output is listed before them.  `SentUnlessRefused` excepts it.
- exchange-api's `history_logic.go:35` and `:42-45` say that a history holds completed, cancelled and over-timed orders only; the query
  (`order_repository.go:122`) does not look at the status, as its own comment (`:115`) admits, so `Selected` takes every order of the pair.
- ucenter's `withdraw_service.go:286` says the key keeps one user's withdrawals in
  order; the balancer (`kafka.go:122`, `LeastBytes`) does not look at the key, so `Publish` picks any partition.
- `model/wallet.go:22` says the frozen balance is released when the withdrawal ends; no code reduces it, so
  `FrozenMatchesRecords` sums over all records, finished or not.

- ucenter's `reset_address_logic.go:59-60` reads "no address yet" and overwrites two calls later: of two resets of one member the later
  one replaces an address the first may already have shown.  `overlapped` marks these members in `ShownStaysWatched`.
- `consumer.go:388`: without a dead-letter topic a rejected event is acknowledged and gone.
- Order limits count orders that are `Trading` (`order_repository.go:184`), and `Add` stores them as `Init`; no code moves
  them on, so the limit never binds.  `CancelOrder` sets the status whatever it was (`order_repository.go:233`).
- `order_service.go` accepts a pair that is `exchangeable` or `enable`, and refuses a market `SELL` with price zero when the
  pair has a minimum selling price.  A label no table knows ("sell") is stored as `BUY` and passes the checks on prices, which
  look at the label.
- `page.go:83-84` computes `hasNext` and `isLast` for pages counted from zero, as `:30` says; every caller counts from one.
- `task/service.go:124-125` lets a task finish its cycle on a stop; `Stop` cancels the context of its calls, also between the
  deletion and the insertion of candles.  The next cycle restores what OKX still answers; older candles are gone.
- The rate in Redis never expires: a dead sync leaves an old rate, not the fallback.

**Faults.** A fault is a lost answer, a failed call, a duplicate publication, a
rebalance, a lost checkpoint, a crash or a stop; a behaviour has at most `MaxFaults` of them.
Without the bound no withdrawal would have to end.  The failures that
cost nothing, because the code meets them in its normal course, are not counted:
a rollback in `Apply`, an event without a row, a dead-letter publication that
fails because the context is done.

**Bounds.**
- `apply`: three requests for one wallet with amounts 2 and 3 (and the invalid 0)
  against 4: two fit, or only one does, and a third waits; a fee of 3 is valid for one amount
  and not for the other.  One member suffices, because a wallet is locked, read and changed by key;
  one partition suffices, because no property is about the order of events.
- `consumer`: two processes compete for one partition of two events, with two
  faults: enough for a rebalance in the middle of an event followed by a late commit, and for a stop of both.
- `payout_group`: one record of either coin, with and without something to send, two processes, two partitions, three
  faults: the same event, or its two copies, in two hands, and one
  loss more.  Duplicates fit in `MaxEvents = 2`.
- `pipeline`: two requests of either coin, one worker, one fault, with
  `MaxEvents = 3` to hold both events and one duplicate.
- `sender`: two calls, three deposits of 1, 2 and 3 satoshis that come at any time and are listed in any order, one lost answer or failed call.  A satoshi
  is four units and a `Grain` two, so that a total and a change may fail to be whole.  `SomePayments` has whole ones with and without a fee,
  a total and an arrived
  amount with more decimals than the node reads, and what `Send` refuses itself.  `SomeRounding` has a sum that misses its target as 0.1 + 0.7
  does, a difference that is a little too small and one that is too large; the theorems hold for any.
- `exchange`: two handlers, each of any kind of request, two members of whom one may not trade, two spellings of BTC and a
  name no coin has, one failure, a clock of three readings, so that two orders read the same or another one and a third is refused.
  In a second part of the same run somebody reads lists over the orders of one member (`ListsBound`): two limit orders stored, matched and cancelled at
  any moment, pages 0, 1 and 2 of one and two rows.  The orders do not depend on who reads them, so the two parts show what both together would.
  Two handlers suffice for every race of the tables: the properties are about two rows or about one row and one handler.
- `members`: two phones, two codes, two registrations and two logins, one fault (a failed call, a lost answer or a crash), codes and tokens
  that live one moment
  of three.  Lists: four rows of two members, two kinds and four times in two days, pages of one, two and the default.
- `services`: jobcenter started twice, two faults, a window of two candles of periods one and two moments long, five moments, a pair OKX does not
  list and one it does, in any order, and an invisible one.  One job is enabled at a time: the loops share no data except the stop, and `WaiterDone`
  waits for each alone.  HTTP: every route with every token, one repetition, up to two wallets.

**Fairness.** `Apply`: a call that was received runs on by itself; InnoDB serves the
waiters of a row lock in turn, hence strong fairness of the lock; a writer that
gets no answer stops after its attempts.  Consumer: the loop runs on, jobcenter is
restarted when it ends (`docker-compose.yml:353`, `restart: unless-stopped`), and the coordinator assigns
partitions.  `KafkaConsumer` needs one more assumption, that a handler which may succeed
does so at last while its process is not being stopped (strong fairness of an acknowledgement); `WithdrawPayout` does not, since
its handler fails only by faults, of which there are finitely many.  An address without enough
unspent outputs is taken for such a fault: it is assumed to be filled up.
Market data: tickers tick, every call returns, since it has a timeout, and a loop whose `select` finds both its channels ready again
and again takes each of them, because Go chooses at random (strong fairness of `Done`); the last steps of a stop are weakly fair.
Nothing is assumed of the start: `SyncsCatchUp` is about a jobcenter that stays up.  Gateway: a handler that can go on does, and timers
expire; no service has to answer.  Two logics set no deadline themselves (`AddLogic`, `SecuritySettingLogic`): they rely on the default of go-zero's
RPC client, `ZrpcTimeout`, which is external.  `exchange` and `members` state safety only: an abandoned request is a legal outcome there.

## 4. Proofs

35 theorems, which hold for every value of the constants, under the assumptions the modules name:
- amounts and fees are integers, `Opening`, the deposits and the bounds are naturals, periods, days, windows, grains and lifetimes are positive
  (`AmountsAssumption`, `PayoutAssumption`, `SenderAssumption`, `AccountConstants`, `HistoryConstants`, `MarketConstants`);
- `float64` misses a sum or a difference by less than a `Grain`, a satoshi is two of them or more, and deposits are whole satoshis
  (`SenderAssumption`), which is so
  of sums of some inputs below a hundred thousand coins;
- page numbers and page sizes are integers, of either sign (`ListsConstants`, `HistoryConstants`);
- pairs name coins that are known, a coin found under a name is found under its own (`WalletConstants`, `OrderConstants`);
- partners are some of the labels "0", "1", "2" of the register form and "none", for a form that
  names no partner (`AccountConstants`);
- a call of `Send` and a withdrawal is one of finitely many (`SenderAssumption`, `PipelineAssumption`), so that sums over them exist;
- the values for "nobody", "nothing" and "not yet" are none of the others.

TLC evaluates each on every run of its module.

`SumProofs`: lemmas only.  Balances and frozen amounts are sums over sets of outputs and records, which the models write with the
library's fold over a set (`SumFunctionOnSet`).  The lemmas say that such a sum exists, and what it is for the empty set, a set with one element more or
less, a subset, and functions that agree.  The fold takes the elements in an order of its own, so the induction is over subsets, by a smallest
counterexample.

`WithdrawApplyProofs`
- `TypeCorrect`.  Needs that a request past its validation has an input (`InputsKnown`).
- `NeverOverdrawn`, `CheckedLocked` (`CheckedIsLocked`, a fact about the row lock that is proved and in no run).  `NoOverdraft` is not
  inductive: the commit subtracts an amount
  that was compared three steps before.  `MoneyInv` adds that an open
  transaction which found its amount holds the row lock *and* that the amount is still there
  (`CheckedIsCovered`); two such requests cannot have one wallet, so a commit
  leaves the others' wallets alone.
- `CommittedPublished`.  `TopicInv` adds that a request at its commit has its event in
  the topic; an event in the topic stays there (`AppendPublishes`).
- `FrozenIsRecorded`.  A commit adds one element to the committed records of one wallet and its amount to what is frozen there; every other step leaves
  both as they are, the rollback included, since uncommitted rows are implied by `pc`.

`KafkaConsumerProofs`
- `TypeCorrect`, with the event in hand (`InHandIsEvent`).
- `NoEventIsSkipped`.  `OffsetInv` adds: everything the owner of a partition has
  fetched is handled, its event in hand apart (`FetchedHandled`); everything
  before an event in hand is handled, whoever has it (`EarlierHandled`); an event at
  its commit is handled; and a process that closed its reader owns nothing
  (`ClosedOwnsNothing`), since a process that gave up an event must not fetch on.

`WithdrawPipelineProofs`, first half, about `WithdrawPayout`: one inductive invariant, `PayoutInv`.
- `ConsumerInv` are the types and what the consumer loop keeps (the log only holds requests, an event in hand is in it).  `HandlerInv` says what
  a worker holds at each call of `ProcessApplied`: past the send a transaction id that the chain has.  `CheckpointInv` bounds the ids in
  Redis and in the row by
  the broadcasts.  With these, `PayoutTypeCorrect` and `AcknowledgedIsSettled`.
- `ExtraPaymentsNeedFaults`.  How often a record is paid does not follow from rows and checkpoints, which several workers read before any of them
  writes.  `SourcesInv` counts who can still pay it without a fault: a partition that holds its event, through its owner, and a worker that
  lost its partition in the
  middle of it (`Sources`); broadcasts and sources together are at most one more than the faults.  A payment uses a source up; each way to a new source
  (a second copy, a rebalance, a crash, a failed call, a lost checkpoint) costs a fault.
- `PayoutImplementsLifecycle`.  Step by step, a record's part of every step is a step of `WithdrawLifecycle` or none.
- `OneWorkerSendsUnchecked`, with the hypothesis that there is one worker, as in the run: with two workers it is false.

`WithdrawPipelineProofs`, second half, about `WithdrawPipeline`.
- `PipelineImplementsPayout`.  Each step of `Apply` is one of the environment's (a request received, published, committed) or changes nothing of what it
  shares (`EnvironmentStep`).  The bound `MaxEvents` of the environment is never met, because a log has at most one event for each request and one more
  for each fault (`EventsFit`).  What is proved of `WithdrawPayout` thus holds in the pipeline: `PipelineImplementsLifecycle`, `PipelineSendsUnchecked`.
- `PaidFrozen`.  What is paid is recorded (by `PayoutInv`), what is recorded is frozen (by the sum), and a sum over fewer records is no
  larger, since amounts are positive.

`BtcSenderProofs`
- `SenderIsSound` (`SenderInv`).  An output is named once and keeps its amount as long as it is unspent (`NodeInv`); so the inputs of a
  transaction are worth what they were when they were listed if the node still takes them (`TxInv`), whatever other calls spent in between.
  What `enough` saw of them was off by less than a `Grain`, whatever `Rounding` is, and so is what the invariant says of their sum.
- `SenderImplementsLedger`.  An accepted payment takes its inputs out of the sum and puts its change back; the rest is the payment and what
  floor and `float64`
  made of the change (`FloorFacts`).  When the total is whole, so are inputs, change and the rest, all multiples of a `Satoshi` (the lemmas on
  multiples in `SumProofs`), and a multiple that is smaller than a satoshi is nothing.  Every other step of the calls leaves the sum alone.

`ExchangeOrderProofs`: one inductive invariant, `OrderIInv`, in two layers, and a third for what members were shown.
- The wallets.  `OneWalletPerCoin` and `AddressOfOneMember` are not inductive.  `WalletTypes` adds that rows bear the unit of their
  coin (`RowsBearUnits`: else a second spelling would make a second wallet) and that the wallet in a handler's hand is its
  member's, of the coin asked for (`KnownWallet`); `PendingIsFresh` that the address a handler is about to write was made for its member and stands in no
  row and in no other hand.  `WalletAction` is what any step of the specification does to the wallets (`OrderSteps`), and
  `WalletIInvStep` shows that it keeps them.  This gives `OneWallet`, `AddressesOwned` and `ResetDone`; the last also needs that an `UPDATE` never
  writes "no address" over an address.
- The orders.  `KnownOrder` says what an `Add` handler has established before each call: the pair exists, the first and then the second wallet is
  there (and stays, `WalletKept`), the form was valid.  With it the `INSERT` keeps `OrderInv`; ids are unique by their key, and an id in
  the answer's hand is stored for its member.  This gives `OrdersMatched`, `AnsweredFound` and `TypeCorrect`.
- `ShownWatched`.  `WatchInv` adds that of a member whose resets never overlapped one reset is at work at a time, that the row it is about to write
  has no address yet, and that the address in an answer on its way is still the row's.  An address that was shown is then never overwritten.
- `ListsCount` (`ListsInv`), about `OrderLists`.  `ListsIInv` adds to `OrderIInv` what a call has read: the page it holds ends within the orders that were
  selected, and each of these is still in the table, where no row is ever deleted (`OrdersStand`), and is still selected or has ended, because what
  has ended stays so (`Listable`).  The set can only grow until it is counted, and after that only with orders that ended.

`UcenterProofs`
- `OneMemberPerPhone` is the table's key; `IdentityIsProved` (`AccountInv`) needs the way of a code from Redis to the row: what Redis holds
  under a phone was the
  last code sent to it (`CacheInv`), a registration past its reading saw it there in time (`ReadInv`), and the `INSERT` hands that on (`ProofInv`).
- `LoginsAreCounted`.  The count of a member is the number of its logins whose goroutine ran (`CountInv`); a step that adds one to the count
  adds one element to that set.
- `WalksSeeWhatWasAsked` (`HistoryInv`).  Between `COUNT` and `SELECT`, and between two pages, rows are added at the new end only.  A row
  the walk has not seen therefore has as many rows
  before it as the earlier pages took, or more (`WalkInv`), so it is still ahead, and what is missed after the last page are rows newer than its `COUNT`.

`ServicesProofs`, market data: `JobsInv`, that is `PriceInv`, `CandleInv`, the remaining types and `EndedInv`.
- `PricesForward`.  A loop caches the price of a candle several calls after it fetched it.  Only the loop of `1m` caches (`OnlyMinutes`);
  nothing in Redis is newer than what
  it has on hand, and when it publishes, Redis has that very price (`OnHand`).  The newest candle's price is that of the moment of the fetch
  (`LatestIsFetched`), by arithmetic on periods.
- `CandlesInOrder` (`MarketInv`).  The bars of a chart are not inductively distinct: a document is inserted without a look at what is there.
  `TailOk` adds that a loop which
  inserts has deleted everything from its oldest candle on, one document at a time (`TailDeleted`), and that what is there of the tail is
  the documents inserted so far, the first ones of the
  fetched list; the times of that list fall (`FetchedFacts`), so the next document has a time of its own (`InsertedFacts`).
- `NoCallsAfterClose`, a conjunct of `MarketInv`: a process that closes its connections has no loop left.

`ServicesProofs`, HTTP.
- `EffectsEntitled` and `ZeroEarned`, from `GatewayIInv`.  `RoutesFit` says of the table of the 22 routes that a route without the
  middleware calls nothing in the name of a member.  The invariant says of every call in flight that its request was let through and that it
  was not carried out yet, though the
  one before it was (`CallsOk`, `FlightIsNew`), and of the request being served that its calls so far were each carried out once
  (`CallsInOrder`).  Late calls of
  abandoned requests thus never count for their repetitions.

Only model-checked:
- Everything about liveness (`EveryRequestAnswered`, `EveryEventHandled`, `StopEndsRetries`, `AcceptedSettles`, `SentUnlessRefused`,
  `StopEnds`, `SyncsCatchUp`,
  `EveryRequestIsAnswered`): it rests on fairness and `ENABLED`, which the prover does not have.

Every safety property of a passing run, and every refinement, is a theorem.  The installed provers know nothing of `SelectSeq`, `SortSeq` and `FlattenSeq`,
whose arguments are operators or whose definitions are recursive.  The models therefore say "the rows that fit" with sets of row ids,
and "the candles" with bags.  Nothing is lost by that: the lists of orders have no `ORDER BY`, and a chart is sorted by times that are proved to differ.

## 5. What is not modelled

- Amounts are integers: in units of 1e-10 coin, the precision of `floorFloat`, in the withdrawal modules, and
  finer ones in `BtcSender`.  Which sums `float64` misses, and by how much, is not computed: it is a constant of `BtcSender`, any error of less than 1e-10.
  The difference of amount and fee that ucenter stores as what arrives (`withdraw_record.go:92`) is exact.
- MySQL is its row lock and its commit: a lock wait that times out is a `Rollback`;
  isolation beyond `FOR UPDATE` plays no part, since nothing else is read in the transaction.
- The Bitcoin node accepts every transaction whose inputs are unspent and whose amounts it can read.  Its policy on dust and
  fees, confirmations (the configured range takes in all outputs) and reorganisations are not modelled.
- The failure of one RPC to another service is one case with a failed query.
- The key helpers of `pkg/btcx` (key generation, base58): encoding without state, which no program calls.
- Generated code (protobuf, go-zero servers and clients, types) and the loading of the configuration.  The routing the generated code does is
  the lists of servers and routes in `Gateway`; go-zero's own timeout of a whole HTTP request is not modelled.
- Hashes of passwords are equalities, signatures of tokens cannot be forged, and the captcha server is a free choice.
- Candles have a time and a closing price only; the trend of a thumb and the fields of coins, orders and answers that no property is
  about are left out.  A `DeleteMany` or `InsertMany` that goes on in the MongoDB server after its client was cancelled or died is not modelled.
- Pools, client addresses (`httputil`), OKX's signatures, and the asynchronous mode of the producer, which no program turns on.
- The components listed as `not_modelled` or `partly` in `PROJECT.json`.

## 6. Plan

Every component with behaviour of its own is modelled, and every safety property a run checks is proved.  What is left:
1. In the instance of `services` one job is enabled at a time; the theorems cover any set of jobs.
2. The node's policy on dust and fees, which `BtcSender` leaves out, and what its refusals mean for `AcceptedSettles`.
3. Lists whose pages are read in different orders: which rows a member may then miss, as `HistoryInv` says it of lists that grow.
