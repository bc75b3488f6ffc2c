----------------------------- MODULE MarketData -----------------------------
(***************************************************************************)
(* Market data, written by jobcenter and read by market-rpc.               *)
(*                                                                         *)
(* jobcenter runs one loop per job: a cycle when it starts, then one per   *)
(* tick.  A cycle of a kline job asks market-rpc for the visible pairs     *)
(* and, pair by pair, fetches the last candles from OKX, deletes the       *)
(* stored candles from the oldest of them on, inserts the new ones, and,   *)
(* for "1m", caches and publishes the newest.  MongoDB deletes and inserts *)
(* document by document: a reader, a failure and the end of the process    *)
(* may come between any two.  The job "rate-sync" caches the price of a    *)
(* dollar.  Stop cancels the context of every call; main closes the        *)
(* connections when the last loop has ended.                               *)
(*                                                                         *)
(* A price is named by the moment it was made: at moment now the newest    *)
(* candle of a period closes at now, a past one at its last moment.        *)
(***************************************************************************)
EXTENDS Integers, Sequences, FiniteSets, SequencesExt, FiniteSetsExt, Bags, Functions, TLC

CONSTANTS
    ExchangeCoins,  \* table exchange_coin, by its unique symbol: is the pair visible?
    Listed,         \* symbols OKX knows
    Periods,        \* of the kline jobs: among "1m", "5m", ..., "1H", ...
    PeriodLength,   \* moments of a period
    RunOnStart, Publishing,  \* jobs so configured
    EnabledSets,    \* the sets of jobs a deployment may enable
    Window,         \* candles OKX answers
    DayLength,
    Fallbacks,      \* currencies with a hard-coded rate
    MaxNow, MaxStarts, MaxFaults  \* bounds

RateJob == "rate-sync"
Symbols == DOMAIN ExchangeCoins

ASSUME MarketConstants ==
    /\ Window \in Nat \ {0} /\ DayLength \in Nat \ {0}
    /\ PeriodLength \in [Periods -> Nat \ {0}]
    /\ \A set \in EnabledSets : set \subseteq Periods \cup {RateJob}
    /\ {MaxNow, MaxStarts, MaxFaults} \subseteq Nat

VARIABLES
    now,
    enabled,    \* Tasks.*.Enabled, as configured
    proc,       \* jobcenter: "up", "stopping", "closed" (connections), or "down"
    starts,
    job,        \* the loops: pc, the pair at hand, those left in the cycle, moment of the
                \* fetch, documents inserted
    store,      \* MongoDB: <<period, symbol>> -> the bag of its candles
    cached,     \* Redis: symbol -> price
    published,  \* symbol -> price of the last candle in topic kline_1m
    rate,       \* Redis: USDT::CNY::RATE
    faults

marketVars == <<now, enabled, proc, starts, job, store, cached, published, rate, faults>>

None == -1
NoPair == "none"
JIdle == [pc |-> "ended", pair |-> NoPair, left |-> {}, at |-> 0, inserted |-> 0]
Calling == {"pairs", "fetch", "delete", "insert", "cache", "publish", "fetchRate", "setRate"}
Jobs == Periods \cup {RateJob}
Collections == Periods \X Symbols

\* The pairs of every market view and of every sync, in no order.
FindVisible == {symbol \in Symbols : ExchangeCoins[symbol]}

MarketTypeOK ==
    /\ now \in 0..MaxNow
    /\ enabled \in EnabledSets
    /\ proc \in {"up", "stopping", "closed", "down"} /\ starts \in 0..MaxStarts
    /\ \A j \in Jobs : /\ job[j].pc \in Calling \cup {"wait", "ended"}
                       /\ job[j].pc # "ended" => j \in enabled
                       /\ job[j].pair \in Symbols \cup {NoPair}
                       /\ job[j].left \subseteq FindVisible \ {job[j].pair}
                       /\ job[j].at \in 0..now /\ job[j].inserted \in 0..Window
    /\ \A c \in Collections : \A k \in BagToSet(store[c]) :
         k.time \in 0..now /\ k.close \in k.time..now
    /\ cached \in [Symbols -> None..now] /\ published \in [Symbols -> None..now]
    /\ rate \in None..now
    /\ faults \in 0..MaxFaults

(***************************************************************************)
(* What is fetched.                                                        *)
(***************************************************************************)
\* The candle of a period that begins at time, as it is at a moment.
NewKlineFromCandle(period, time, moment) ==
    [time |-> time, close |-> Min({moment, time + PeriodLength[period] - 1})]

\* Newest first.
FetchCandles(period, moment) ==
    LET length == PeriodLength[period]
        newest == moment \div length
    IN  [i \in 1..Min({Window, newest + 1}) |->
           NewKlineFromCandle(period, (newest - i + 1) * length, moment)]

(***************************************************************************)
(* The process and its loops.                                              *)
(***************************************************************************)
FirstCall(j) == IF j = RateJob THEN "fetchRate" ELSE "pairs"

MarketInit ==
    /\ now = 0
    /\ enabled \in EnabledSets
    /\ proc = "down" /\ starts = 0
    /\ job = [j \in Jobs |-> JIdle]
    /\ store = [c \in Collections |-> EmptyBag]
    /\ cached = [s \in Symbols |-> None] /\ published = [s \in Symbols |-> None]
    /\ rate = None
    /\ faults = 0

JobRest == UNCHANGED <<now, enabled, starts>>
Data == <<store, cached, published, rate>>

Start ==
    /\ proc = "down" /\ starts < MaxStarts
    /\ proc' = "up" /\ starts' = starts + 1
    /\ job' = [j \in Jobs |->
         IF j \in enabled
         THEN [JIdle EXCEPT !.pc = IF j \in RunOnStart THEN FirstCall(j) ELSE "wait"]
         ELSE JIdle]
    /\ UNCHANGED <<now, enabled, faults, Data>>

Stop ==
    /\ proc = "up"
    /\ proc' = "stopping"
    /\ UNCHANGED <<job, faults, Data>> /\ JobRest

\* The select of a loop: a tick, or the cancelled context.
Tick(j) ==
    /\ job[j].pc = "wait" /\ proc \in {"up", "stopping"}
    /\ job' = [job EXCEPT ![j] = [JIdle EXCEPT !.pc = FirstCall(j)]]
    /\ UNCHANGED <<proc, faults, Data>> /\ JobRest

DoneWhenClosed(j) ==  \* mutant: loops are told only by Close, which waits for them
    /\ job[j].pc = "wait" /\ proc = "closed"
    /\ job' = [job EXCEPT ![j] = JIdle]
    /\ UNCHANGED <<proc, faults, Data>> /\ JobRest

Done(j) ==
    /\ job[j].pc = "wait" /\ proc = "stopping"
    /\ job' = [job EXCEPT ![j] = JIdle]
    /\ UNCHANGED <<proc, faults, Data>> /\ JobRest

\* s.waiter.Wait()
WaiterDone == \A j \in Jobs : job[j].pc = "ended"

\* Start returns, and main closes Kafka, MongoDB and MySQL.
Close ==
    /\ proc = "stopping" /\ WaiterDone
    /\ proc' = "closed"
    /\ UNCHANGED <<job, faults, Data>> /\ JobRest

Exit ==
    /\ proc = "closed"
    /\ proc' = "down"
    /\ job' = [j \in Jobs |-> JIdle]
    /\ UNCHANGED <<faults, Data>> /\ JobRest

\* The process is killed: go-zero does so when a stop takes too long.
Crash ==
    /\ proc # "down" /\ faults < MaxFaults
    /\ faults' = faults + 1
    /\ proc' = "down"
    /\ job' = [j \in Jobs |-> JIdle]
    /\ UNCHANGED Data /\ JobRest

(***************************************************************************)
(* A cycle of a kline job.                                                 *)
(***************************************************************************)
Goto(j, pc) == job' = [job EXCEPT ![j].pc = pc]

EndCycle(j) == job' = [job EXCEPT ![j] = [JIdle EXCEPT !.pc = "wait"]]

\* One of the pairs, and the others after it.
TakePair(j, pairs) ==
    \E s \in pairs :
        job' = [job EXCEPT ![j] = [JIdle EXCEPT !.pc = "fetch", !.pair = s, !.left = pairs \ {s}]]

NextPairOnlyOnSuccess(j, ok) ==  \* mutant: the first error ends the cycle
    \/ (job[j].left = {} \/ ~ok) /\ EndCycle(j)
    \/ ok /\ TakePair(j, job[j].left)

\* A pair is done, well or not: its error is joined to those of the others, and logged.
NextPair(j, ok) ==
    \/ job[j].left = {} /\ EndCycle(j)
    \/ TakePair(j, job[j].left)

\* The call a loop is in fails: a timeout, an error, or the cancelled context.
Failing ==
    \/ proc = "stopping" /\ UNCHANGED faults
    \/ faults < MaxFaults /\ faults' = faults + 1

CallFails(j) ==
    /\ job[j].pc \in Calling
    /\ Failing
    /\ IF job[j].pc \in {"pairs", "fetchRate", "setRate"} THEN Goto(j, "wait")
       ELSE NextPair(j, FALSE)
    /\ UNCHANGED <<proc, Data>> /\ JobRest

Current(j) == job[j].pair

FindExchangeCoinVisible(j) ==
    /\ job[j].pc = "pairs"
    /\ \/ FindVisible = {} /\ EndCycle(j)
       \/ TakePair(j, FindVisible)
    /\ UNCHANGED <<proc, faults, Data>> /\ JobRest

\* A symbol OKX does not know is an error at each cycle.
Fetch(j) ==
    /\ job[j].pc = "fetch"
    /\ IF Current(j) \in Listed
       THEN job' = [job EXCEPT ![j].pc = "delete", ![j].at = now]
       ELSE NextPair(j, FALSE)
    /\ UNCHANGED <<proc, faults, Data>> /\ JobRest

List(j) == FetchCandles(j, job[j].at)
Collection(j) == <<j, Current(j)>>

MatchingAfter(candles, cutoff) ==  \* mutant: the candle of the cutoff itself is kept
    {k \in BagToSet(candles) : k.time > cutoff}

\* {time: {$gte: cutoff}}
Matching(candles, cutoff) == {k \in BagToSet(candles) : k.time >= cutoff}

\* DeleteMany deletes the documents it finds one after the other, in any order.
DeleteMany(j) ==
    LET candles == store[Collection(j)]
        tail == Matching(candles, Last(List(j)).time)
    IN  /\ job[j].pc = "delete"
        /\ \/ \E k \in tail :
                /\ store' = [store EXCEPT ![Collection(j)] = candles (-) SetToBag({k})]
                /\ UNCHANGED job
           \/ tail = {} /\ Goto(j, "insert") /\ UNCHANGED store
        /\ UNCHANGED <<proc, faults, cached, published, rate>> /\ JobRest

NextDocument(j) == List(j)[job[j].inserted + 1]

CacheAfterPublish(j, pc) ==  \* mutant: published first
    IF j # "1m" THEN "done"
    ELSE CASE pc = "insert" -> "publish" [] pc = "publish" -> "cache" [] OTHER -> "done"

\* What follows a call: only "1m" caches, and publishes if so configured.
After(j, pc) ==
    IF j # "1m" THEN "done"
    ELSE CASE pc = "insert" -> "cache"
           [] pc = "cache" /\ j \in Publishing -> "publish"
           [] OTHER -> "done"

Proceed(j) ==
    IF After(j, job[j].pc) = "done" THEN NextPair(j, TRUE) ELSE Goto(j, After(j, job[j].pc))

\* InsertMany is ordered: newest first, as OKX lists them.
InsertDocument(j) ==
    /\ job[j].pc = "insert"
    /\ store' = [store EXCEPT ![Collection(j)] = @ (+) SetToBag({NextDocument(j)})]
    /\ IF job[j].inserted + 1 < Len(List(j))
       THEN job' = [job EXCEPT ![j].inserted = @ + 1]
       ELSE Proceed(j)
    /\ UNCHANGED <<proc, faults, cached, published, rate>> /\ JobRest

Latest(j) == Head(List(j)).close

CacheLatest(j) ==
    /\ job[j].pc = "cache"
    /\ cached' = [cached EXCEPT ![Current(j)] = Latest(j)]
    /\ Proceed(j)
    /\ UNCHANGED <<proc, faults, store, published, rate>> /\ JobRest

PublishLatest(j) ==
    /\ job[j].pc = "publish"
    /\ published' = [published EXCEPT ![Current(j)] = Latest(j)]
    /\ Proceed(j)
    /\ UNCHANGED <<proc, faults, store, cached, rate>> /\ JobRest

(***************************************************************************)
(* The exchange rate.                                                      *)
(***************************************************************************)
FetchExchangeRate ==
    /\ job[RateJob].pc = "fetchRate"
    /\ job' = [job EXCEPT ![RateJob].pc = "setRate", ![RateJob].at = now]
    /\ UNCHANGED <<proc, faults, Data>> /\ JobRest

SetRate ==
    /\ job[RateJob].pc = "setRate"
    /\ rate' = job[RateJob].at
    /\ job' = [job EXCEPT ![RateJob] = [JIdle EXCEPT !.pc = "wait"]]
    /\ UNCHANGED <<proc, faults, store, cached, published>> /\ JobRest

\* The cached rate, or the hard-coded one of a currency that has one, or zero.
USDRate(unit, readable) ==
    IF unit = "CNY" /\ readable /\ rate # None THEN <<"okx", rate>>
    ELSE IF unit \in Fallbacks THEN <<"fallback", unit>> ELSE <<"zero">>

(***************************************************************************)
(* market-rpc reads.                                                       *)
(***************************************************************************)
ResolutionToPeriod(resolution) ==
    CASE resolution = "1" -> "1m" [] resolution = "5" -> "5m" [] resolution = "15" -> "15m"
      [] resolution = "30" -> "30m" [] resolution \in {"1D", "1W", "1M"} -> resolution
      [] OTHER -> "1H"

\* Sorted by their time, which tells two of them apart only if it differs.
FindBySymbolTime(symbol, period, from, to) ==
    LET candles == store[<<period, symbol>>]
    IN  Restrict(candles, {k \in BagToSet(candles) : k.time >= from /\ k.time <= to})

HistoryKline(symbol, resolution, from, to) ==
    FindBySymbolTime(symbol, ResolutionToPeriod(resolution), from, to)

ZeroTimeMillis == (now \div DayLength) * DayLength

\* The price of the newest of the day's candles up to the moment to; without any of
\* them the thumb is empty.
SymbolThumb(symbol, to) ==
    LET klines == BagToSet(FindBySymbolTime(symbol, "1H", ZeroTimeMillis, to))
    IN  {last.close : last \in {k \in klines : \A l \in klines : l.time <= k.time}}

Advance ==
    /\ now < MaxNow
    /\ now' = now + 1
    /\ UNCHANGED <<enabled, proc, starts, job, faults, Data>>

Step(j) ==
    \/ FindExchangeCoinVisible(j)
    \/ Fetch(j)
    \/ DeleteMany(j)
    \/ InsertDocument(j)
    \/ CacheLatest(j)
    \/ PublishLatest(j)

RateStep == FetchExchangeRate \/ SetRate

MarketNext ==
    \/ Start \/ Stop \/ Close \/ Exit \/ Crash
    \/ \E j \in Jobs : Tick(j) \/ Done(j) \/ CallFails(j)
    \/ \E j \in Periods : Step(j)
    \/ RateStep
    \/ Advance

(***************************************************************************)
(* Properties.                                                             *)
(***************************************************************************)
\* A chart has one bar per time at every resolution, however the rewriting of the tail
\* was interrupted before.
OneCandlePerTime ==
    \A s \in Symbols, resolution \in {"1", "60"} :
        ResolutionToPeriod(resolution) \in Periods =>
            LET bars == HistoryKline(s, resolution, 0, now)
            IN  \A k, l \in BagToSet(bars) :
                    bars[k] = 1 /\ (k.time = l.time => k = l)

\* Prices in Redis and in the topic only move forward, and the topic never runs ahead
\* of Redis: whoever is told of a candle finds its price there.
PricesMoveForward ==
    [][\A s \in Symbols : /\ cached'[s] >= cached[s] /\ published'[s] >= published[s]
                          /\ "1m" \in enabled => published'[s] <= cached'[s]]_marketVars

\* No loop is in a call, or may still begin one, when main closes the connections.
NoCallAfterClose == proc = "closed" => \A j \in Jobs : job[j].pc = "ended"

\* Whatever was interrupted when: candles are in order, and nobody calls over a closed
\* connection.
MarketInv == MarketTypeOK /\ OneCandlePerTime /\ NoCallAfterClose

\* After Stop the process ends, whatever the loops were doing.
StopEnds == proc = "stopping" ~> proc = "down"

Fresh(j) ==
    IF j = RateJob THEN USDRate("CNY", TRUE) = <<"okx", now>>
    ELSE \A s \in FindVisible \cap Listed :
           LET bars == FetchCandles(j, now)
           IN  /\ FindBySymbolTime(s, j, Last(bars).time, now) = SetToBag(Range(bars))
               /\ j = "1H" => SymbolThumb(s, now) = {now}
               /\ j = "1m" => cached[s] = now
               /\ j = "1m" /\ j \in Publishing => published[s] = now

\* As long as jobcenter stays up, every enabled job makes what it writes, and the price
\* that thumbs show of it, fresh again and again: a failed call, a killed process, a
\* tail half deleted or half written and a pair that OKX refuses are made up for by a
\* later cycle.
SyncsCatchUp == \A j \in Jobs : <>[](proc = "up" /\ j \in enabled) => []<>Fresh(j)
=============================================================================
