---------------------------- MODULE ExchangeOrder ----------------------------
(***************************************************************************)
(* Orders of the exchange, composed with the wallets of ucenter.  Adding   *)
(* an order asks ucenter for the member, market for the pair, ucenter for  *)
(* the two wallets of the pair (which makes them, step by step, see        *)
(* WalletAddress), validates, counts the member's trading orders, and      *)
(* inserts the order under an id taken from the clock.                     *)
(* No order is matched by the code of the repository: orders stay Init     *)
(* unless Engine, external, moves them.                                    *)
(***************************************************************************)
EXTENDS WalletAddress

CONSTANTS
    Pairs,        \* symbol -> its row of exchange_coin
    OrderForms,   \* what a member may send: [symbol, direction, type, price, amount]
    Forbidden,    \* members whose transaction_status is 0
    MaxClock,     \* bound: readings of the clock
    MaxCancels    \* bound: calls of CancelOrder

ASSUME OrderConstants ==
    /\ Forbidden \subseteq Members /\ MaxClock \in Nat \ {0} /\ MaxCancels \in Nat
    /\ \A p \in DOMAIN Pairs : {Pairs[p].baseSymbol, Pairs[p].coinSymbol} \subseteq CoinNames
    /\ \A form \in OrderForms : form.price \in Int /\ form.amount \in Int

VARIABLES
    orders,    \* table exchange_order: rows in the order of their ids
    oreq,      \* the Add handlers
    clock,     \* time.Now().UnixNano(), which need not advance between two readings
    answers,   \* [memberId, orderId] of the orders callers were told of
    cancels

orderVars == <<orders, oreq, clock, answers, cancels>>
vars == <<wallets, allocated, wreq, shown, overlapped, failures,
          orders, oreq, clock, answers, cancels>>

(***************************************************************************)
(* Codes and labels.  A label no table knows gets the map's zero value,    *)
(* which is BUY and MARKET_PRICE.                                          *)
(***************************************************************************)
Trading == 0
Completed == 1
Canceled == 2
OverTimed == 3
OrderInit == 4
Buy == 0
Sell == 1
MarketPrice == 0
LimitPrice == 1

DirectionCode(label) == IF label = "SELL" THEN Sell ELSE Buy
TypeCode(label) == IF label = "LIMIT_PRICE" THEN LimitPrice ELSE MarketPrice

(***************************************************************************)
(* The repository's queries.                                               *)
(***************************************************************************)
\* The numbers of the rows a WHERE clause selects.
OrdersOf(m, symbol) ==
    {i \in DOMAIN orders : orders[i].memberId = m /\ orders[i].symbol = symbol}
TradingOf(m, symbol) == {i \in OrdersOf(m, symbol) : orders[i].status = Trading}

FindCurrentTradingCount(m, symbol, direction) ==
    Cardinality({i \in TradingOf(m, symbol) : orders[i].direction = direction})

FindByOrderID(id) == {i \in DOMAIN orders : orders[i].orderId = id}

(***************************************************************************)
(* Adding an order.                                                        *)
(***************************************************************************)
NoForm == [symbol |-> "none", direction |-> "", type |-> "", price |-> 0, amount |-> 0]
OIdle == [pc |-> "idle", memberId |-> "none", form |-> NoForm, locked |-> FALSE, id |-> 0]
OPcs == {"idle", "member", "base", "baseWait", "coin", "coinWait", "count", "save",
         "answered", "failed", "done"}

TypeOK ==
    /\ WalletTypeOK
    /\ orders \in Seq([orderId : 1..MaxClock, memberId : Members, symbol : DOMAIN Pairs,
                       direction : {Buy, Sell}, type : {MarketPrice, LimitPrice},
                       price : Int, amount : Int, status : Trading..OrderInit])
    /\ \A r \in Requests :
         /\ oreq[r].pc \in OPcs
         /\ oreq[r].memberId \in Members \cup {"none"}
         /\ oreq[r].form \in OrderForms \cup {NoForm}
         /\ oreq[r].locked \in BOOLEAN /\ oreq[r].id \in 0..MaxClock
    /\ clock \in 1..MaxClock
    /\ answers \subseteq [memberId : Members, orderId : 1..MaxClock]
    /\ cancels \in 0..MaxCancels

Init ==
    /\ WalletInit
    /\ orders = <<>>
    /\ oreq = [r \in Requests |-> OIdle]
    /\ clock = 1
    /\ answers = {}
    /\ cancels = 0

OGoto(r, pc) == oreq' = [oreq EXCEPT ![r].pc = pc]
OrderRest == UNCHANGED <<orders, clock, answers, cancels>>

OrderValid(form) == form.direction # "" /\ form.type # ""

\* exchange-api: the form is refused before anything is asked, or sent on.
Add(r, m, form) ==
    /\ wreq[r].pc = "idle" /\ oreq[r].pc = "idle"
    /\ oreq' = [oreq EXCEPT ![r] = [OIdle EXCEPT !.memberId = m, !.form = form,
                   !.pc = IF OrderValid(form) THEN "member" ELSE "failed"]]
    /\ OrderRest /\ UNCHANGED walletVars

FindBySymbol(symbol) == {p \in DOMAIN Pairs : p = symbol}

\* FindMemberById and FindSymbolInfo: neither row is changed by any of the programs.
FindMemberAndPair(r) ==
    /\ oreq[r].pc = "member"
    /\ OGoto(r, IF FindBySymbol(oreq[r].form.symbol) = {} THEN "failed" ELSE "base")
    /\ OrderRest /\ UNCHANGED walletVars

Pair(r) == Pairs[oreq[r].form.symbol]

AskBaseTwice(r) ==  \* mutant: the second request names the base coin again
    \E pc \in {"base", "coin"} :
        /\ oreq[r].pc = pc
        /\ Start(r, "find", oreq[r].memberId, Pair(r).baseSymbol)
        /\ OGoto(r, IF pc = "base" THEN "baseWait" ELSE "coinWait") /\ OrderRest

\* Both wallets are asked for, and thereby made, before anything is validated.
AskWallet(r) ==
    \/ /\ oreq[r].pc = "base"
       /\ Start(r, "find", oreq[r].memberId, Pair(r).baseSymbol)
       /\ OGoto(r, "baseWait") /\ OrderRest
    \/ /\ oreq[r].pc = "coin"
       /\ Start(r, "find", oreq[r].memberId, Pair(r).coinSymbol)
       /\ OGoto(r, "coinWait") /\ OrderRest

WrongDirection(form, pair) ==
    \/ form.direction = "SELL" /\ pair.minSellPrice > 0 /\ form.price < pair.minSellPrice
    \/ form.direction = "BUY" /\ pair.maxBuyPrice > 0 /\ form.price > pair.maxBuyPrice

MarketRefused(form, pair) ==
    /\ form.type = "MARKET_PRICE"
    /\ \/ form.direction = "BUY" /\ ~pair.enableMarketBuy
       \/ form.direction = "SELL" /\ ~pair.enableMarketSell

ValidateAddRequest(m, form, pair, locked) ==
    /\ m \notin Forbidden
    /\ ~(form.type = "LIMIT_PRICE" /\ form.price <= 0)
    /\ form.amount > 0
    /\ pair.exchangeable \/ pair.enable
    /\ ~locked
    /\ ~WrongDirection(form, pair)
    /\ ~MarketRefused(form, pair)

\* The answer of ucenter arrives; after the second one the request is validated.
WalletArrives(r) ==
    /\ oreq[r].pc \in {"baseWait", "coinWait"}
    /\ wreq[r].pc \in {"answered", "failed"}
    /\ wreq' = [wreq EXCEPT ![r] = Idle]
    /\ LET locked == oreq[r].locked \/ wreq[r].wallet.isLock
           next == IF wreq[r].pc = "failed" THEN "failed"
                   ELSE IF oreq[r].pc = "baseWait" THEN "coin"
                   ELSE IF ValidateAddRequest(oreq[r].memberId, oreq[r].form, Pair(r), locked)
                   THEN "count" ELSE "failed"
       IN  oreq' = [oreq EXCEPT ![r].pc = next, ![r].locked = locked]
    /\ OrderRest /\ UNCHANGED <<wallets, allocated, shown, overlapped, failures>>

\* max_trading_order: zero means no limit.
CountOrders(r) ==
    /\ oreq[r].pc = "count"
    /\ LET max == Pair(r).maxTradingOrder
           count == FindCurrentTradingCount(oreq[r].memberId, oreq[r].form.symbol,
                                            DirectionCode(oreq[r].form.direction))
       IN  OGoto(r, IF max > 0 /\ count >= max THEN "failed" ELSE "save")
    /\ OrderRest /\ UNCHANGED walletVars

BuildAnonymous(m, form, id) ==  \* mutant: the member is not copied into the row
    [orderId |-> id, memberId |-> "none", symbol |-> form.symbol,
     direction |-> DirectionCode(form.direction), type |-> TypeCode(form.type),
     price |-> IF TypeCode(form.type) = MarketPrice THEN 0 ELSE form.price,
     amount |-> form.amount, status |-> OrderInit]

BuildNewOrder(m, form, id) ==
    [orderId |-> id, memberId |-> m, symbol |-> form.symbol,
     direction |-> DirectionCode(form.direction), type |-> TypeCode(form.type),
     price |-> IF TypeCode(form.type) = MarketPrice THEN 0 ELSE form.price,
     amount |-> form.amount, status |-> OrderInit]

IdNeverTaken(id) == FALSE  \* mutant: the table without its unique key

\* UNIQUE KEY uk_exchange_order_order_id (order_id)
IdTaken(id) == FindByOrderID(id) # {}

SaveOrder(r) ==
    /\ oreq[r].pc = "save"
    /\ \E now \in {clock, clock + 1} :
         /\ now <= MaxClock
         /\ clock' = now
         /\ IF IdTaken(now)
            THEN OGoto(r, "failed") /\ UNCHANGED <<orders, failures>>
            ELSE /\ orders' = Append(orders, BuildNewOrder(oreq[r].memberId, oreq[r].form, now))
                 /\ \/ /\ oreq' = [oreq EXCEPT ![r].pc = "answered", ![r].id = now]
                       /\ UNCHANGED failures
                    \/ /\ failures < MaxFailures /\ failures' = failures + 1
                       /\ OGoto(r, "failed")
    /\ UNCHANGED <<answers, cancels, wallets, allocated, wreq, shown, overlapped>>

AddFails(r) ==
    /\ oreq[r].pc \in {"member", "base", "coin", "count", "save"}
    /\ failures < MaxFailures
    /\ failures' = failures + 1
    /\ OGoto(r, "failed")
    /\ OrderRest /\ UNCHANGED <<wallets, allocated, wreq, shown, overlapped>>

AnswerAdd(r) ==
    /\ oreq[r].pc = "answered"
    /\ OGoto(r, "done")
    /\ answers' = answers \cup {[memberId |-> oreq[r].memberId, orderId |-> oreq[r].id]}
    /\ UNCHANGED <<orders, clock, cancels>> /\ UNCHANGED walletVars

\* UPDATE ... SET status=? WHERE order_id=?, whatever the status was.
UpdateStatus(id, status) ==
    orders' = [i \in DOMAIN orders |->
                 IF i \in FindByOrderID(id) THEN [orders[i] EXCEPT !.status = status] ELSE orders[i]]

CancelOrder(id) ==
    /\ cancels < MaxCancels
    /\ cancels' = cancels + 1
    /\ UpdateStatus(id, Canceled)
    /\ UNCHANGED <<oreq, clock, answers>> /\ UNCHANGED walletVars

\* External: the matching engine the comments speak of.
Engine(i) ==
    /\ \/ orders[i].status = OrderInit /\ orders' = [orders EXCEPT ![i].status = Trading]
       \/ orders[i].status = Trading
          /\ \E s \in {Completed, OverTimed} : orders' = [orders EXCEPT ![i].status = s]
    /\ UNCHANGED <<oreq, clock, answers, cancels>> /\ UNCHANGED walletVars

\* A step of a wallet request, and its answer to the member when no order waits for it.
WalletStep(r) == WalletCall(r) /\ UNCHANGED orderVars

WalletRequest(r) ==
    /\ oreq[r].pc = "idle"
    /\ \/ \E m \in Members, name \in CoinNames : FindWalletBySymbol(r, m, name)
       \/ \E m \in Members : \E unit, name \in CoinNames \cup {NoCoin} :
              ResetAddress(r, m, unit, name)
       \/ Answer(r)
    /\ UNCHANGED orderVars

ReadWallets(m) == FindWallet(m) /\ UNCHANGED orderVars

\* External: an administrator locks a wallet.
LockWallet(i) ==
    /\ ~wallets[i].isLock
    /\ wallets' = [wallets EXCEPT ![i].isLock = TRUE]
    /\ UNCHANGED <<allocated, wreq, shown, overlapped, failures>> /\ UNCHANGED orderVars

AddStep(r) ==
    \/ FindMemberAndPair(r)
    \/ AskWallet(r)
    \/ WalletArrives(r)
    \/ CountOrders(r)
    \/ SaveOrder(r)
    \/ AddFails(r)
    \/ AnswerAdd(r)

Next ==
    \/ \E r \in Requests :
         \/ \E m \in Members, form \in OrderForms : Add(r, m, form)
         \/ AddStep(r)
         \/ WalletRequest(r)
         \/ WalletStep(r)
    \/ \E m \in Members : ReadWallets(m)
    \/ \E id \in 1..MaxClock : CancelOrder(id)
    \/ \E i \in DOMAIN orders : Engine(i)
    \/ \E i \in DOMAIN wallets : LockWallet(i)

Spec == Init /\ [][Next]_vars

(***************************************************************************)
(* Properties.                                                             *)
(***************************************************************************)
\* Whoever has an order has both wallets of its pair, to be debited and credited
\* when it is matched, although no foreign key says so.
OrderHasWallets ==
    \A i \in DOMAIN orders :
        \A coin \in {Pairs[orders[i].symbol].baseSymbol, Pairs[orders[i].symbol].coinSymbol} :
            FindByMemberIDAndCoinName(orders[i].memberId, coin) # {}

\* A limit order that is stored has a price, a market order has none, whatever the
\* form held and however its labels were spelled.
StoredOrderIsPriced ==
    \A i \in DOMAIN orders :
        /\ orders[i].memberId \notin Forbidden
        /\ orders[i].amount > 0
        /\ (orders[i].type = LimitPrice) <=> (orders[i].price > 0)

\* What is stored can be matched: it has a price by its type, and wallets on both sides.
OrderInv == OrderHasWallets /\ StoredOrderIsPriced

\* The id a member was answered finds one order, which is his, although ids are
\* readings of a clock that two orders may share.
AnsweredOrderIsFound ==
    \A a \in answers :
        /\ Cardinality(FindByOrderID(a.orderId)) = 1
        /\ \A i \in FindByOrderID(a.orderId) : orders[i].memberId = a.memberId
=============================================================================
