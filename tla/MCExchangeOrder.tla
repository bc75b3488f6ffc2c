--------------------------- MODULE MCExchangeOrder ---------------------------
(* A bounded instance of OrderLists, and so of ExchangeOrder. *)
EXTENDS OrderLists, TLC

CONSTANTS r1, r2, m1, m2, q1

VARIABLE part  \* "orders" or "lists"

mcVars == <<listsVars, part>>

MCCoinNames == {"BTC", "btc", "USDT", "doge"}
MCUnitOf == [n \in MCCoinNames |->
    CASE n \in {"BTC", "btc"} -> "BTC" [] n = "USDT" -> "USDT" [] OTHER -> "none"]

MCPairs == [p \in {"BTC/USDT"} |->
    [baseSymbol |-> "USDT", coinSymbol |-> "BTC", minSellPrice |-> 2, maxBuyPrice |-> 2,
     enableMarketBuy |-> FALSE, enableMarketSell |-> TRUE,
     exchangeable |-> TRUE, enable |-> FALSE, maxTradingOrder |-> 1]]

Form(direction, type, price, amount) ==
    [symbol |-> "BTC/USDT", direction |-> direction, type |-> type, price |-> price,
     amount |-> amount]

MCForms == {Form("BUY", "LIMIT_PRICE", 2, 1), Form("SELL", "MARKET_PRICE", 2, 1),
            Form("SELL", "LIMIT_PRICE", 0, 1), Form("BUY", "LIMIT_PRICE", 0, 1),
            Form("", "LIMIT_PRICE", 2, 1), Form("sell", "LIMIT_PRICE", 3, 1),
            [Form("BUY", "LIMIT_PRICE", 1, 1) EXCEPT !.symbol = "ETH/USDT"]}

\* What the lists are read over: limit orders of one member, with no failure, no lock
\* and no wallet request in between.
ListsBound ==
    /\ clock <= 2 /\ failures = 0
    /\ \A r \in Requests :
         /\ oreq[r].memberId \in {m1, "none"}
         /\ oreq[r].form \in {NoForm, Form("BUY", "LIMIT_PRICE", 2, 1)}
         /\ oreq[r].pc = "idle" => wreq[r].pc = "idle"
    /\ \A i \in DOMAIN wallets : ~wallets[i].isLock
    /\ \A q \in Readers : reading[q].memberId \in {m1, "none"}

\* A call that reads a list changes nothing that orders and wallets depend on: either
\* nobody reads, or somebody reads the few orders of ListsBound.
MCInit == ListsInit /\ part \in {"orders", "lists"}

MCNext ==
    /\ UNCHANGED part
    /\ \/ part = "orders" /\ Next /\ UNCHANGED reading
       \/ part = "lists" /\ ListsNext /\ ListsBound'

MCSpec == MCInit /\ [][MCNext]_mcVars

RequestSymmetry == Permutations(Requests)
=============================================================================
