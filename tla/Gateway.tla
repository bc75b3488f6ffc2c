------------------------------- MODULE Gateway -------------------------------
(***************************************************************************)
(* A request of the three HTTP APIs on its way: the middleware of its      *)
(* route, the parsing of its handler, the checks of its logic, the RPCs of *)
(* the logic one after another, and the answer in its envelope.  An RPC    *)
(* may fail, its answer may be lost, and the service may still carry it    *)
(* out after the deadline of its caller; the client sends the request      *)
(* again.  What an RPC does is the matter of the other modules.            *)
(***************************************************************************)
EXTENDS Integers, Sequences, FiniteSets

CONSTANTS
    Members,      \* the ids tokens name
    MaxWallets,   \* bound: wallets of a member
    MaxRequests,  \* bound: the first request and its repetitions
    ZrpcTimeout   \* whether a call has a deadline the logic did not give it (go-zero: yes)

ASSUME GatewayConstants ==
    /\ 0 \notin Members /\ Members # {} /\ MaxWallets \in Nat /\ MaxRequests \in Nat
    /\ ZrpcTimeout \in BOOLEAN

Nobody == 0  \* no member; as a token: none, or one that does not parse

(***************************************************************************)
(* The methods of the services: which one, and whether it acts for a       *)
(* member or answers the same to anyone.                                   *)
(***************************************************************************)
Rpc(name, actsFor) == [name |-> name, actsFor |-> actsFor]

FindSymbolThumbTrendRpc == Rpc("FindSymbolThumbTrend", "anyone")
FindSymbolInfoRpc == Rpc("FindSymbolInfo", "anyone")
FindCoinInfoRpc == Rpc("FindCoinInfo", "anyone")
FindAllCoinRpc == Rpc("FindAllCoin", "anyone")
HistoryKlineRpc == Rpc("HistoryKline", "anyone")
UsdRateRpc == Rpc("UsdRate", "anyone")
AddRpc == Rpc("Add", "member")
FindOrderCurrentRpc == Rpc("FindOrderCurrent", "member")
FindOrderHistoryRpc == Rpc("FindOrderHistory", "member")
RegisterByPhoneRpc == Rpc("RegisterByPhone", "anyone")
SendCodeRpc == Rpc("SendCode", "anyone")
LoginRpc == Rpc("Login", "anyone")
FindMemberByIdRpc == Rpc("FindMemberById", "member")
FindWalletRpc == Rpc("FindWallet", "member")
FindWalletBySymbolRpc == Rpc("FindWalletBySymbol", "member")
ResetAddressRpc == Rpc("ResetAddress", "member")
FindTransactionRpc == Rpc("FindTransaction", "member")
FindAddressByCoinIdRpc == Rpc("FindAddressByCoinId", "member")
SendWithdrawCodeRpc == Rpc("SendWithdrawCode", "member")
WithdrawCodeRpc == Rpc("WithdrawCode", "member")
WithdrawRecordRpc == Rpc("WithdrawRecord", "member")

\* No HTTP API calls these: other services do, or nobody.
FindExchangeCoinVisibleRpc == Rpc("FindExchangeCoinVisible", "anyone")
FindCoinByIdRpc == Rpc("FindCoinById", "anyone")
FindByOrderIdRpc == Rpc("FindByOrderId", "anyone")
CancelOrderRpc == Rpc("CancelOrder", "anyone")
GetAddressRpc == Rpc("GetAddress", "anyone")

\* What each server answers to.
MarketServer == {FindSymbolThumbTrendRpc, FindSymbolInfoRpc, FindCoinInfoRpc, FindAllCoinRpc,
                 HistoryKlineRpc, FindExchangeCoinVisibleRpc, FindCoinByIdRpc}
ExchangeRateServer == {UsdRateRpc}
OrderServer == {AddRpc, FindOrderCurrentRpc, FindOrderHistoryRpc, FindByOrderIdRpc,
                CancelOrderRpc}
RegisterServer == {RegisterByPhoneRpc, SendCodeRpc}
LoginServer == {LoginRpc}
MemberServer == {FindMemberByIdRpc}
AssetServer == {FindWalletRpc, FindWalletBySymbolRpc, ResetAddressRpc, FindTransactionRpc,
                GetAddressRpc}
WithdrawServer == {FindAddressByCoinIdRpc, SendWithdrawCodeRpc, WithdrawCodeRpc,
                   WithdrawRecordRpc}
Servers == MarketServer \cup ExchangeRateServer \cup OrderServer \cup RegisterServer
           \cup LoginServer \cup MemberServer \cup AssetServer \cup WithdrawServer

(***************************************************************************)
(* The logics: the calls they make one after another, given how many       *)
(* wallets the member has, whether they check the request before, and      *)
(* whether they put a deadline on their calls.                             *)
(***************************************************************************)
Logic(calls) == [calls |-> [w \in 0..MaxWallets |-> calls], checks |-> FALSE, timed |-> TRUE]
Checked(logic) == [logic EXCEPT !.checks = TRUE]
Untimed(logic) == [logic EXCEPT !.timed = FALSE]

CoinInfoLogic == Logic(<<FindCoinInfoRpc>>)
HistoryLogic == Logic(<<HistoryKlineRpc>>)
SymbolInfoLogic == Logic(<<FindSymbolInfoRpc>>)
SymbolThumbLogic == Logic(<<FindSymbolThumbTrendRpc>>)
SymbolThumbTrendLogic == Logic(<<FindSymbolThumbTrendRpc>>)
UsdRateLogic == Logic(<<UsdRateRpc>>)

AddLogic == Untimed(Checked(Logic(<<AddRpc>>)))                 \* OrderValid
CurrentLogic == Logic(<<FindOrderCurrentRpc>>)
ExchangeHistoryLogic == Logic(<<FindOrderHistoryRpc>>)

SendCodeLogic == Logic(<<SendCodeRpc>>)
RegisterLogic == Checked(Logic(<<RegisterByPhoneRpc>>))         \* the captcha is there
LoginLogic == Checked(Logic(<<LoginRpc>>))                      \* the captcha is there
CheckLoginLogic == Logic(<<>>)                                  \* answers whether the token parses
SecuritySettingLogic == Untimed(Logic(<<FindMemberByIdRpc>>))
FindTransactionLogic == Logic(<<FindTransactionRpc>>)
FindWalletLogic == Logic(<<FindWalletRpc>>)
ResetAddressLogic == Logic(<<ResetAddressRpc>>)
FindWalletBySymbolLogic == Logic(<<FindWalletBySymbolRpc>>)
SendWithdrawCodeLogic == Logic(<<FindMemberByIdRpc, SendWithdrawCodeRpc>>)
WithdrawCodeLogic == Logic(<<WithdrawCodeRpc>>)
WithdrawRecordLogic == Logic(<<WithdrawRecordRpc>>)

\* All coins, then the wallets, then the addresses of one wallet after the other.
QueryWithdrawCoinLogic ==
    [Logic(<<>>) EXCEPT !.calls =
        [w \in 0..MaxWallets |->
            <<FindAllCoinRpc, FindWalletRpc>> \o [i \in 1..w |-> FindAddressByCoinIdRpc]]]

(***************************************************************************)
(* The handlers: whether they parse the request, and whether they read a   *)
(* field of what the logic returned before they look at its error.         *)
(***************************************************************************)
Handler(logic, parses) == [logic |-> logic, parses |-> parses, reads |-> FALSE]
ReadsField(handler) == [handler EXCEPT !.reads = TRUE]

CoinInfoHandler == Handler(CoinInfoLogic, TRUE)
HistoryHandler == ReadsField(Handler(HistoryLogic, TRUE))       \* Deal(resp.List, err)
SymbolInfoHandler == Handler(SymbolInfoLogic, TRUE)
SymbolThumbHandler == Handler(SymbolThumbLogic, FALSE)
SymbolThumbTrendHandler == Handler(SymbolThumbTrendLogic, FALSE)
UsdRateHandler == ReadsField(Handler(UsdRateLogic, TRUE))       \* Deal(resp.Rate, err)

AddHandler == Handler(AddLogic, TRUE)
CurrentHandler == Handler(CurrentLogic, TRUE)
ExchangeHistoryHandler == Handler(ExchangeHistoryLogic, TRUE)

SendCodeHandler == Handler(SendCodeLogic, TRUE)
RegisterHandler == Handler(RegisterLogic, TRUE)
LoginHandler == Handler(LoginLogic, TRUE)
CheckLoginHandler == Handler(CheckLoginLogic, FALSE)
SecuritySettingHandler == Handler(SecuritySettingLogic, FALSE)
FindTransactionHandler == Handler(FindTransactionLogic, TRUE)
FindWalletHandler == Handler(FindWalletLogic, FALSE)
ResetAddressHandler == Handler(ResetAddressLogic, TRUE)
FindWalletBySymbolHandler == Handler(FindWalletBySymbolLogic, TRUE)
SendWithdrawCodeHandler == Handler(SendWithdrawCodeLogic, FALSE)
WithdrawCodeHandler == Handler(WithdrawCodeLogic, TRUE)
WithdrawRecordHandler == Handler(WithdrawRecordLogic, TRUE)
QueryWithdrawCoinHandler == Handler(QueryWithdrawCoinLogic, FALSE)

(***************************************************************************)
(* The routes of the three APIs, [handler, auth].                          *)
(***************************************************************************)
Routes(auth, handlers) == [handler : handlers, auth : {auth}]

MarketRoutes == Routes(FALSE, {CoinInfoHandler, UsdRateHandler, HistoryHandler,
    SymbolInfoHandler, SymbolThumbHandler, SymbolThumbTrendHandler})
ExchangeRoutes == Routes(TRUE, {AddHandler, CurrentHandler, ExchangeHistoryHandler})
UcenterRoutes ==
    Routes(FALSE, {SendCodeHandler, RegisterHandler, CheckLoginHandler, LoginHandler})
    \cup Routes(TRUE, {SecuritySettingHandler, FindTransactionHandler, FindWalletHandler,
         ResetAddressHandler, FindWalletBySymbolHandler, SendWithdrawCodeHandler,
         WithdrawCodeHandler, WithdrawRecordHandler, QueryWithdrawCoinHandler})
AllRoutes == MarketRoutes \cup ExchangeRoutes \cup UcenterRoutes

(***************************************************************************)
(* State.                                                                  *)
(***************************************************************************)
VARIABLES
    asked,     \* history of the requests: [route, token, parses, valid, wallets]
    rpc,       \* the request being served: pc, the user of its context, the call it is at
    flight,    \* calls a service has still to carry out: [request, call, user]
    effects,   \* the calls services carried out, in order
    answers    \* what each request was answered: an envelope's code, "400" or "panic"

gatewayVars == <<asked, rpc, flight, effects, answers>>

Codes == {"0", "500", "4000"}
PcStart == [pc |-> "done", user |-> Nobody, call |-> 1]

Request == [route : AllRoutes, token : Members \cup {Nobody}, parses : BOOLEAN,
            valid : BOOLEAN, wallets : 0..MaxWallets]
Asked == Len(asked)
Open == asked[Asked]  \* the request being served
CallsOf(q) == q.route.handler.logic.calls[q.wallets]

GatewayTypeOK ==
    /\ Asked \in 0..MaxRequests /\ \A n \in 1..Asked : asked[n] \in Request
    /\ rpc \in [pc : {"auth", "parse", "check", "call", "wait", "done"},
                user : Members \cup {Nobody}, call : 1..(MaxWallets + 3)]
    /\ \A c \in flight \cup {effects[i] : i \in DOMAIN effects} :
         /\ c.request \in 1..Asked
         /\ c.call \in DOMAIN CallsOf(asked[c.request])
         /\ c.user \in Members \cup {Nobody}
    /\ Len(answers) = IF rpc.pc = "done" THEN Asked ELSE Asked - 1
    /\ \A n \in DOMAIN answers : answers[n] \in Codes \cup {"400", "panic"}

GatewayInit == asked = <<>> /\ rpc = PcStart /\ flight = {} /\ effects = <<>> /\ answers = <<>>

MoveTo(pc) == rpc' = [rpc EXCEPT !.pc = pc]
Answer(code) == rpc' = PcStart /\ answers' = Append(answers, code)

(***************************************************************************)
(* The client.  One request at a time, any; after a failure the same       *)
(* again, with the token it had or without it.                             *)
(***************************************************************************)
Failed == answers # <<>> /\ answers[Len(answers)] # "0"

\* Only what a route looks at can differ.
Meaningful(q) ==
    /\ (~q.route.handler.parses => q.parses)
    /\ (~q.route.handler.logic.checks => q.valid)
    /\ (q.route.handler # QueryWithdrawCoinHandler => q.wallets = 0)

Send ==
    /\ rpc.pc = "done" /\ Asked < MaxRequests
    /\ \E q \in Request :
         /\ Meaningful(q)
         /\ Asked > 0 => Failed /\ q.route = Open.route
         /\ asked' = Append(asked, q)
    /\ rpc' = [PcStart EXCEPT !.pc = "auth"]
    /\ UNCHANGED <<flight, effects, answers>>

(***************************************************************************)
(* The way of the request.                                                 *)
(***************************************************************************)
AuthMiddlewareGoesOn ==  \* mutant: nothing stops a request whose token does not parse
    /\ rpc.pc = "auth"
    /\ rpc' = [rpc EXCEPT !.pc = "parse", !.user = Open.token]
    /\ UNCHANGED <<asked, flight, effects, answers>>

\* "no login" without a token that parses; the user of the token in the context else.
\* A route without the middleware has no user.
AuthMiddleware ==
    /\ rpc.pc = "auth"
    /\ IF ~Open.route.auth THEN MoveTo("parse") /\ UNCHANGED answers
       ELSE IF Open.token = Nobody THEN Answer("4000")
       ELSE /\ rpc' = [rpc EXCEPT !.pc = "parse", !.user = Open.token]
            /\ UNCHANGED answers
    /\ UNCHANGED <<asked, flight, effects>>

\* ErrorCtx: the status 400 with the error as text.
ParseRequest ==
    /\ rpc.pc = "parse"
    /\ IF Open.parses THEN MoveTo("check") /\ UNCHANGED answers ELSE Answer("400")
    /\ UNCHANGED <<asked, flight, effects>>

\* What the API tells of a failed logic: Deal turns its error into code 500, unless the
\* handler reads a field of the nil that came with it.
Deal(handler) == IF handler.reads THEN "panic" ELSE "500"

CheckRequest ==
    /\ rpc.pc = "check"
    /\ IF Open.valid THEN MoveTo("call") /\ UNCHANGED answers
       ELSE Answer(Deal(Open.route.handler))
    /\ UNCHANGED <<asked, flight, effects>>

\* The next call, with the user of the context, or the answer when there is none left.
CallNext ==
    /\ rpc.pc = "call"
    /\ IF rpc.call \in DOMAIN CallsOf(Open)
       THEN LET method == CallsOf(Open)[rpc.call]
            IN  /\ method \in Servers
                /\ flight' = flight \cup {[request |-> Asked, call |-> rpc.call,
                       user |-> IF method.actsFor = "member" THEN rpc.user ELSE Nobody]}
                /\ MoveTo("wait") /\ UNCHANGED answers
       ELSE Answer("0") /\ UNCHANGED flight
    /\ UNCHANGED <<asked, effects>>

\* A wallet whose coin is not among the coins read before: the whole page fails.
CoinMissing ==
    /\ rpc.pc = "call" /\ rpc.call > 2 /\ rpc.call \in DOMAIN CallsOf(Open)
    /\ Answer(Deal(Open.route.handler))
    /\ UNCHANGED <<asked, flight, effects>>

Awaited(c) == rpc.pc = "wait" /\ c.request = Asked /\ c.call = rpc.call

\* A service carries a call out; its answer reaches the logic, if that still waits for
\* it, or is lost.
ServeCall(c) ==
    /\ c \in flight
    /\ flight' = flight \ {c}
    /\ effects' = Append(effects, c)
    /\ \/ Awaited(c) /\ rpc' = [rpc EXCEPT !.pc = "call", !.call = @ + 1]
       \/ UNCHANGED rpc
    /\ UNCHANGED <<asked, answers>>

OnErrorGoOn(c) ==  \* mutant: the logic drops the error of a call
    rpc' = [rpc EXCEPT !.pc = "call", !.call = @ + 1] /\ UNCHANGED answers

\* The logic returns the first error it meets.
OnError(c) == Answer(Deal(Open.route.handler))

\* A service refuses a call, or the call never reaches it.
FailCall(c) ==
    /\ c \in flight
    /\ flight' = flight \ {c}
    /\ IF Awaited(c) THEN OnError(c) ELSE UNCHANGED <<rpc, answers>>
    /\ UNCHANGED <<asked, effects>>

HasOwnDeadline(logic) == logic.timed  \* mutant: only the deadline a logic sets itself

HasDeadline(logic) == logic.timed \/ ZrpcTimeout

\* The deadline of the call passes; the call itself may still be under way.
Deadline ==
    /\ rpc.pc = "wait" /\ HasDeadline(Open.route.handler.logic)
    /\ Answer(Deal(Open.route.handler))
    /\ UNCHANGED <<asked, flight, effects>>

GatewayStep == AuthMiddleware \/ ParseRequest \/ CheckRequest \/ CallNext

GatewayNext ==
    \/ Send \/ GatewayStep \/ CoinMissing \/ Deadline
    \/ \E c \in flight : ServeCall(c) \/ FailCall(c)

\* A handler that can go on does, and timers expire; no service has to answer.
GatewayFairness == WF_gatewayVars(GatewayStep) /\ WF_gatewayVars(Deadline)

GatewaySpec == GatewayInit /\ [][GatewayNext]_gatewayVars /\ GatewayFairness

(***************************************************************************)
(* Properties.                                                             *)
(***************************************************************************)
Entitled(q) == /\ q.route.auth => q.token \in Members
               /\ q.parses /\ q.valid

ActorOf(q, k) == IF CallsOf(q)[k].actsFor = "member" THEN q.token ELSE Nobody

\* Whatever a service carries out, in time or after its caller gave up, was asked by a
\* request nothing turned away, and is done for the member its token names: no call of
\* an earlier or a repeated request is carried out for another.
EffectsAreEntitled ==
    \A i \in DOMAIN effects :
        LET e == effects[i]
        IN  Entitled(asked[e.request]) /\ e.user = ActorOf(asked[e.request], e.call)

EffectOf(n, k) == {i \in DOMAIN effects : effects[i].request = n /\ effects[i].call = k}

\* Code 0 says that every call of the request was carried out, once; and a call that
\* builds on the answer of another is carried out after it.
AnswersAreEarned ==
    /\ \A n \in DOMAIN answers : answers[n] = "0" =>
         \A k \in DOMAIN CallsOf(asked[n]) : Cardinality(EffectOf(n, k)) = 1
    /\ \A i \in DOMAIN effects : effects[i].call > 1 =>
         \E j \in EffectOf(effects[i].request, effects[i].call - 1) : j < i

\* The types hold, and code 0 is an answer every call of the request stands behind.
GatewayInv == GatewayTypeOK /\ AnswersAreEarned

\* Every request is answered, though no service ever answers.
EveryRequestIsAnswered ==
    \A n \in 1..MaxRequests : (Asked >= n) ~> (Len(answers) >= n)

\* pkg/result/result.go:93 of Deal: every endpoint answers in the same JSON contract.
\* A request whose logic ran is answered with an envelope, whether it succeeded or not.
EveryAnswerIsEnvelope == \A n \in DOMAIN answers : answers[n] # "panic"
=============================================================================
