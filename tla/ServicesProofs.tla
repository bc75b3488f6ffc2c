---------------------------- MODULE ServicesProofs ----------------------------
(***************************************************************************)
(* Three parts.                                                            *)
(*                                                                         *)
(* Prices.  A loop fetches at a moment and caches the newest candle's      *)
(* price several calls later, after failures and restarts in between.      *)
(* That no price goes back needs that nothing else was cached meanwhile:   *)
(* one loop caches (OnlyMinutes), and what it has on hand is no older than *)
(* anything in Redis (OnHand).                                             *)
(*                                                                         *)
(* Candles.  A tail is deleted and rewritten document by document, and may *)
(* stay half deleted or half written.  What is stored is always candles of *)
(* distinct times (Stored): an insertion begins when nothing of the tail   *)
(* is left, and those inserted so far are the first of the list (TailOk).  *)
(*                                                                         *)
(* The gateway.  Calls of a request that was answered may still be carried *)
(* out while its repetition is under way.  The invariant says of every     *)
(* call in flight that its request was let through and that it is new      *)
(* (CallsOk, FlightIsNew), and of the request being served that its calls  *)
(* so far were carried out, each once (CallsInOrder).                      *)
(***************************************************************************)
EXTENDS Services, FiniteSetTheorems, SequenceTheorems, TLAPS

-----------------------------------------------------------------------------
(* Prices. *)

JobPcs == Calling \cup {"wait", "ended"}

JobRow == [pc : JobPcs, pair : Symbols \cup {NoPair}, left : SUBSET Symbols,
           at : Nat, inserted : Nat]

\* The calls after the fetch: the candles on hand are those of job[j].at.
AfterFetch == {"delete", "insert", "cache", "publish"}

PriceTypes ==
    /\ now \in Nat
    /\ job \in [Jobs -> JobRow]
    /\ cached \in [Symbols -> Int]
    /\ published \in [Symbols -> Int]

\* What the loop of "1m" knows of the prices, from its fetch on.
OnHand ==
    "1m" \in Periods /\ job["1m"].pc \in AfterFetch =>
        /\ job["1m"].at <= now
        /\ \A s \in Symbols : cached[s] <= job["1m"].at
        /\ job["1m"].pc = "publish" /\ Current("1m") \in Symbols =>
              cached[Current("1m")] = job["1m"].at

\* No other loop ever caches or publishes.
OnlyMinutes ==
    \A j \in Jobs : job[j].pc \in {"cache", "publish"} => j = "1m"

PriceInv ==
    /\ PriceTypes
    /\ OnlyMinutes
    /\ \A s \in Symbols : published[s] <= cached[s] /\ cached[s] <= now
    /\ OnHand

\* The smaller of two numbers.
LEMMA MinOfTwo ==
    ASSUME NEW a \in Int, NEW b \in Int
    PROVE  Min({a, b}) = IF a <= b THEN a ELSE b
  BY DEF Min

\* A moment lies in the period it is counted to.
LEMMA InItsPeriod ==
    ASSUME NEW t \in Nat, NEW n \in Nat \ {0}
    PROVE  /\ t \div n \in Nat
           /\ t <= ((t \div n) * n) + n - 1
  <1> DEFINE q == t \div n
             m == t % n
  <1>1. q \in Int
    OBVIOUS
  <1>2. m \in 0..(n - 1)
    OBVIOUS
  <1>3. t = (n * q) + m
    OBVIOUS
  <1> HIDE DEF q, m
  <1>4. n * q = q * n
    BY <1>1
  <1>5. ASSUME q < 0 PROVE FALSE
    <2>1. q * n <= - n
      BY <1>1, <1>5
    <2> QED
      BY <1>1, <1>2, <1>3, <1>4, <2>1
  <1>6. q \in Nat /\ t <= (q * n) + n - 1
    BY <1>1, <1>2, <1>3, <1>4, <1>5
  <1> QED
    BY <1>6 DEF q

\* The newest candle closes at the moment it was fetched.
LEMMA LatestIsFetched ==
    ASSUME PriceTypes, NEW j \in Periods PROVE Latest(j) = job[j].at
  <1> DEFINE t == job[j].at
             n == PeriodLength[j]
             q == t \div n
  <1>1. t \in Nat /\ n \in Nat \ {0} /\ Window \in Nat \ {0}
    BY MarketConstants DEF PriceTypes, Jobs, JobRow
  <1>2. q \in Nat /\ t <= (q * n) + n - 1
    BY <1>1, InItsPeriod
  <1> DEFINE newest == NewKlineFromCandle(j, (q - 1 + 1) * n, t)
             m == Min({Window, q + 1})
             list == [i \in 1..m |-> NewKlineFromCandle(j, (q - i + 1) * n, t)]
  <1>3. m \in Nat /\ m >= 1
    <2>1. Window \in Int /\ q + 1 \in Int /\ Window >= 1 /\ q + 1 >= 1
      BY <1>1, <1>2
    <2> DEFINE p == q + 1
    <2> HIDE DEF q, n, t, p
    <2>2. Min({Window, p}) = IF Window <= p THEN Window ELSE p
      BY <2>1, MinOfTwo DEF p
    <2> QED
      BY <2>1, <2>2 DEF p
  <1>4. List(j) = list
    BY DEF List, FetchCandles
  <1>5. Head(list) = newest
    <2> HIDE DEF m, q, n, t
    <2>1. list[1] = newest
      BY <1>3
    <2>2. Head(list) = list[1]
      OBVIOUS
    <2> QED
      BY <2>1, <2>2
  <1>6. newest.close = Min({t, (q * n) + n - 1})
    <2>1. q - 1 + 1 = q
      BY <1>2
    <2> QED
      BY <2>1 DEF NewKlineFromCandle
  <1>7. (q * n) + n - 1 \in Int
    BY <1>1, <1>2
  <1>8. newest.close = t
    <2> HIDE DEF newest, q, n, t
    <2> QED
      BY <1>1, <1>2, <1>6, <1>7, MinOfTwo
  <1> HIDE DEF list, newest
  <1> QED
    BY <1>4, <1>5, <1>8 DEF Latest

-----------------------------------------------------------------------------
\* The loop fetches now, or goes on with what it fetched, or has nothing on hand.
GoesOn(j) ==
    \/ job'[j].pc \notin AfterFetch
    \/ job'[j].pc = "delete" /\ job'[j].at = now
    \/ /\ job[j].pc \in AfterFetch /\ job'[j].at = job[j].at
       /\ job'[j].pair = job[j].pair
       /\ job'[j].pc = "publish" => job[j].pc = "publish"
       /\ job'[j].pc = "cache" => job[j].pc = "cache" \/ j = "1m"

\* A step that leaves the prices alone.
Quiet ==
    /\ UNCHANGED <<cached, published>>
    /\ now' \in Nat /\ now <= now'
    /\ job' \in [Jobs -> JobRow]
    /\ \A j \in Jobs : GoesOn(j)

\* The loop at rest, and the loop at the first call for a pair.
LEMMA RowFacts ==
    ASSUME NEW symbol \in Symbols, NEW pairs \in SUBSET Symbols
    PROVE  /\ JIdle = [pc |-> "ended", pair |-> NoPair, left |-> {}, at |-> 0, inserted |-> 0]
           /\ [JIdle EXCEPT !.pc = "wait"]
                = [pc |-> "wait", pair |-> NoPair, left |-> {}, at |-> 0, inserted |-> 0]
           /\ [JIdle EXCEPT !.pc = "fetch", !.pair = symbol, !.left = pairs]
                = [pc |-> "fetch", pair |-> symbol, left |-> pairs, at |-> 0, inserted |-> 0]
  <1> DEFINE fetching == [JIdle EXCEPT !.pc = "fetch"]
             taken == [fetching EXCEPT !.pair = symbol]
  <1>1. fetching = [pc |-> "fetch", pair |-> NoPair, left |-> {}, at |-> 0, inserted |-> 0]
    BY DEF JIdle
  <1>2. taken = [pc |-> "fetch", pair |-> symbol, left |-> {}, at |-> 0, inserted |-> 0]
    <2> HIDE DEF fetching
    <2> QED
      BY <1>1
  <1>3. [taken EXCEPT !.left = pairs]
          = [pc |-> "fetch", pair |-> symbol, left |-> pairs, at |-> 0, inserted |-> 0]
    <2> HIDE DEF taken
    <2> QED
      BY <1>2
  <1>4. [JIdle EXCEPT !.pc = "fetch", !.pair = symbol, !.left = pairs]
          = [taken EXCEPT !.left = pairs]
    OBVIOUS
  <1>5. [JIdle EXCEPT !.pc = "wait"]
          = [pc |-> "wait", pair |-> NoPair, left |-> {}, at |-> 0, inserted |-> 0]
    BY DEF JIdle
  <1> QED
    BY <1>3, <1>4, <1>5 DEF JIdle

\* The loop takes a pair, or ends its cycle.
Takes(j, pairs) ==
    /\ \A k \in Jobs \ {j} : job'[k] = job[k]
    /\ \/ job'[j] = [pc |-> "wait", pair |-> NoPair, left |-> {}, at |-> 0, inserted |-> 0]
       \/ \E s \in pairs :
            job'[j] = [pc |-> "fetch", pair |-> s, left |-> pairs \ {s}, at |-> 0, inserted |-> 0]

\* What either of them leaves.
LEMMA TakeFacts ==
    ASSUME PriceTypes, NEW j \in Jobs, NEW pairs \in SUBSET Symbols,
           EndCycle(j) \/ TakePair(j, pairs)
    PROVE  Takes(j, pairs) /\ job' \in [Jobs -> JobRow]
  <1>1. job \in [Jobs -> JobRow]
    BY DEF PriceTypes
  <1> DEFINE idle == [pc |-> "wait", pair |-> NoPair, left |-> {}, at |-> 0, inserted |-> 0]
             row(s) == [pc |-> "fetch", pair |-> s, left |-> pairs \ {s}, at |-> 0,
                        inserted |-> 0]
  <1>2. idle \in JobRow
    BY DEF JobRow, JobPcs, Calling
  <1>3. \A s \in pairs : row(s) \in JobRow
    BY DEF JobRow, JobPcs, Calling
  <1>4. CASE EndCycle(j)
    <2>1. [JIdle EXCEPT !.pc = "wait"] = idle
      BY DEF JIdle
    <2>2. job' = [job EXCEPT ![j] = idle]
      BY <1>4, <2>1 DEF EndCycle
    <2> HIDE DEF idle
    <2>3. /\ \A k \in Jobs \ {j} : job'[k] = job[k]
          /\ job'[j] = idle /\ job' \in [Jobs -> JobRow]
      BY <1>1, <1>2, <2>2
    <2> QED
      BY <2>3 DEF idle, Takes
  <1>5. CASE TakePair(j, pairs)
    <2>1. PICK s \in pairs :
            job' = [job EXCEPT ![j] = [JIdle EXCEPT !.pc = "fetch", !.pair = s,
                                                     !.left = pairs \ {s}]]
      BY <1>5 DEF TakePair
    <2>2. s \in Symbols /\ pairs \ {s} \in SUBSET Symbols
      OBVIOUS
    <2>3. [JIdle EXCEPT !.pc = "fetch", !.pair = s, !.left = pairs \ {s}] = row(s)
      BY <2>2, RowFacts
    <2>4. job' = [job EXCEPT ![j] = row(s)]
      BY <2>1, <2>3
    <2>5. row(s) \in JobRow
      BY <1>3
    <2> DEFINE new == row(s)
    <2>6. job' = [job EXCEPT ![j] = new] /\ new \in JobRow
      BY <2>4, <2>5
    <2> HIDE DEF new
    <2>7. /\ \A k \in Jobs \ {j} : job'[k] = job[k]
          /\ job'[j] = new /\ job' \in [Jobs -> JobRow]
      BY <1>1, <2>6
    <2> QED
      BY <2>7 DEF new, Takes
  <1> QED
    BY <1>4, <1>5

\* The next pair of a cycle, or its end.
LEMMA NextPairQuiet ==
    ASSUME PriceTypes, NEW j \in Jobs, NEW ok, NextPair(j, ok)
    PROVE  /\ job' \in [Jobs -> JobRow] /\ Takes(j, job[j].left)
           /\ job'[j].pc \notin AfterFetch
           /\ \A k \in Jobs \ {j} : job'[k] = job[k]
  <1> DEFINE left == job[j].left
  <1>1. left \in SUBSET Symbols
    BY DEF PriceTypes, JobRow
  <1>2. EndCycle(j) \/ TakePair(j, left)
    BY DEF NextPair
  <1> HIDE DEF left
  <1>3. Takes(j, left) /\ job' \in [Jobs -> JobRow]
    BY <1>1, <1>2, TakeFacts
  <1>4. job'[j].pc \notin AfterFetch
    BY <1>3 DEF Takes, AfterFetch
  <1> QED
    BY <1>3, <1>4 DEF left, Takes

\* A loop that only changes its step.
LEMMA GotoQuiet ==
    ASSUME PriceTypes, NEW j \in Jobs, NEW pc \in JobPcs, Goto(j, pc)
    PROVE  /\ job' \in [Jobs -> JobRow]
           /\ job'[j].pc = pc /\ job'[j].at = job[j].at /\ job'[j].pair = job[j].pair
           /\ \A k \in Jobs \ {j} : job'[k] = job[k]
  <1>1. job \in [Jobs -> JobRow] /\ job' = [job EXCEPT ![j].pc = pc]
    BY DEF Goto, PriceTypes
  <1>2. [job[j] EXCEPT !.pc = pc] \in JobRow
    BY <1>1 DEF JobRow
  <1> QED
    BY <1>1, <1>2 DEF JobRow

\* Steps of the process and of the other loops.
LEMMA QuietSteps ==
    ASSUME PriceTypes, NEW j \in Jobs,
           \/ Start \/ Stop \/ Close \/ Exit \/ Crash
           \/ Tick(j) \/ Done(j) \/ CallFails(j)
           \/ j \in Periods /\ (\/ FindExchangeCoinVisible(j) \/ Fetch(j)
                                \/ DeleteMany(j))
           \/ RateStep
           \/ Advance
    PROVE  Quiet
  <1> USE DEF JobRest, Data
  <1>t. /\ now \in Nat /\ now <= now
        /\ job \in [Jobs -> JobRow]
    BY DEF PriceTypes
  <1>1. CASE Start \/ Exit \/ Crash
    BY <1>1, <1>t
    DEF Start, Exit, Crash, Quiet, GoesOn, JIdle, FirstCall, JobPcs, Calling, AfterFetch, JobRow
  <1>2. CASE Stop \/ Close \/ Advance
    <2>1. UNCHANGED <<job, cached, published>> /\ (now' = now \/ now' = now + 1)
      BY <1>2 DEF Stop, Close, Advance
    <2>2. now' \in Nat /\ now <= now'
      BY <2>1, <1>t
    <2> QED
      BY <2>1, <2>2, <1>t DEF Quiet, GoesOn, JobPcs, AfterFetch
  <1>3. CASE Tick(j) \/ Done(j)
    BY <1>3, <1>t
    DEF Tick, Done, Quiet, GoesOn, JIdle, FirstCall, JobPcs, Calling, AfterFetch, JobRow
  <1>4. ASSUME NEW k \in Jobs, UNCHANGED <<now, cached, published>>,
               NEW ok, NextPair(k, ok)
        PROVE  Quiet
    BY <1>4, <1>t, NextPairQuiet DEF Quiet, GoesOn
  <1>5. ASSUME NEW k \in Jobs, UNCHANGED <<now, cached, published>>,
               NEW pc \in JobPcs, Goto(k, pc),
               pc \in AfterFetch =>
                   job[k].pc \in AfterFetch /\ pc \notin {"cache", "publish"}
        PROVE  Quiet
    BY <1>5, <1>t, GotoQuiet DEF Quiet, GoesOn
  <1>6. CASE CallFails(j)
    BY <1>4, <1>5, <1>6 DEF CallFails, JobPcs, AfterFetch
  <1>7. CASE FindExchangeCoinVisible(j)
    <2>1. FindVisible \in SUBSET Symbols
      BY DEF FindVisible
    <2>2. /\ EndCycle(j) \/ TakePair(j, FindVisible)
          /\ UNCHANGED <<now, cached, published>>
      BY <1>7 DEF FindExchangeCoinVisible
    <2>3. Takes(j, FindVisible) /\ job' \in [Jobs -> JobRow]
      BY <2>1, <2>2, TakeFacts
    <2> QED
      BY <1>t, <2>2, <2>3 DEF Takes, Quiet, GoesOn, AfterFetch
  <1>8. CASE Fetch(j)
    <2>1. CASE Current(j) \in Listed
      BY <1>8, <1>t, <2>1 DEF Fetch, Quiet, GoesOn, JobPcs, Calling, AfterFetch, JobRow
    <2>2. CASE Current(j) \notin Listed
      BY <1>4, <1>8, <2>2 DEF Fetch
    <2> QED
      BY <2>1, <2>2
  <1>9. CASE DeleteMany(j)
    <2>1. CASE UNCHANGED job
      BY <1>9, <1>t, <2>1 DEF DeleteMany, Quiet, GoesOn, AfterFetch
    <2>2. CASE Goto(j, "insert")
      BY <1>5, <1>9, <2>2 DEF DeleteMany, JobPcs, Calling, AfterFetch
    <2> QED
      BY <1>9, <2>1, <2>2 DEF DeleteMany
  <1>10. CASE RateStep
    <2>1. RateJob \in Jobs
      BY DEF Jobs
    <2>2. CASE FetchExchangeRate
      BY <1>t, <2>1, <2>2 DEF FetchExchangeRate, Quiet, GoesOn, JobPcs, Calling, AfterFetch, JobRow
    <2>3. CASE SetRate
      BY <1>t, <2>1, <2>3 DEF SetRate, Quiet, GoesOn, JIdle, JobPcs, Calling, AfterFetch, JobRow
    <2> QED
      BY <1>10, <2>2, <2>3 DEF RateStep
  <1> QED
    BY <1>1, <1>2, <1>3, <1>6, <1>7, <1>8, <1>9, <1>10

\* Such a step keeps the invariant.
LEMMA QuietKeeps ==
    ASSUME PriceInv, Quiet PROVE PriceInv'
  <1> DEFINE m == "1m"
  <1>1. /\ PriceTypes'
        /\ UNCHANGED <<cached, published>> /\ now \in Nat /\ now' \in Nat /\ now <= now'
        /\ \A s \in Symbols : cached[s] \in Int
        /\ \A s \in Symbols : published[s] <= cached[s] /\ cached[s] <= now
    BY DEF Quiet, GoesOn, PriceTypes, PriceInv
  <1>2. \A s \in Symbols : cached[s] <= now'
    BY <1>1
  <1>3. ASSUME "1m" \in Periods, job'[m].pc \in AfterFetch PROVE OnHand'
    <2>1. CASE job'[m].pc = "delete" /\ job'[m].at = now
      BY <1>1, <2>1 DEF OnHand
    <2>2. CASE /\ job[m].pc \in AfterFetch /\ job'[m].at = job[m].at
               /\ job'[m].pair = job[m].pair
               /\ job'[m].pc = "publish" => job[m].pc = "publish"
      <3>1. Current(m)' = Current(m)
        BY <2>2 DEF Current
      <3>4. m \in Jobs
        BY <1>3 DEF Jobs
      <3>2. job[m].at <= now /\ job[m].at \in Nat
        BY <1>3, <2>2, <3>4 DEF OnHand, PriceInv, PriceTypes, JobRow
      <3>3. job'[m].at <= now'
        BY <1>1, <2>2, <3>2
      <3> QED
        BY <1>1, <1>3, <2>2, <3>1, <3>3 DEF OnHand, PriceInv
    <2> QED
      BY <1>3, <2>1, <2>2 DEF Quiet, GoesOn, Jobs
  <1>5. OnlyMinutes'
    BY DEF Quiet, GoesOn, AfterFetch, PriceInv, OnlyMinutes
  <1>4. OnHand'
    BY <1>3 DEF OnHand
  <1> QED
    BY <1>1, <1>2, <1>4, <1>5 DEF PriceInv

\* What the properties ask of a step.
Forward ==
    \A s \in Symbols : /\ cached'[s] >= cached[s] /\ published'[s] >= published[s]
                       /\ published'[s] <= cached'[s]

\* A step that leaves the prices alone moves none back.
LEMMA QuietForward ==
    ASSUME PriceInv, Quiet PROVE Forward
  <1>1. /\ UNCHANGED <<cached, published>>
        /\ \A s \in Symbols : published[s] <= cached[s]
        /\ \A s \in Symbols : cached[s] \in Int /\ published[s] \in Int
    BY DEF Quiet, GoesOn, PriceInv, PriceTypes
  <1> QED
    BY <1>1 DEF Forward

\* What follows the call of a loop.
LEMMA ProceedFacts ==
    ASSUME PriceTypes, NEW j \in Jobs, Proceed(j)
    PROVE  /\ job' \in [Jobs -> JobRow]
           /\ \A k \in Jobs \ {j} : job'[k] = job[k]
           /\ \/ job'[j].pc \notin AfterFetch
              \/ /\ j = "1m" /\ job'[j].at = job[j].at /\ job'[j].pair = job[j].pair
                 /\ \/ job[j].pc = "insert" /\ job'[j].pc = "cache"
                    \/ job[j].pc = "cache" /\ job'[j].pc = "publish"
  <1>1. CASE NextPair(j, TRUE)
    BY <1>1, NextPairQuiet
  <1>2. CASE ~NextPair(j, TRUE)
    <2>1. /\ j = "1m" /\ Goto(j, After(j, job[j].pc))
          /\ \/ job[j].pc = "insert" /\ After(j, job[j].pc) = "cache"
             \/ job[j].pc = "cache" /\ After(j, job[j].pc) = "publish"
      BY <1>2 DEF Proceed, After
    <2>2. After(j, job[j].pc) \in JobPcs
      BY <2>1 DEF JobPcs, Calling
    <2> QED
      BY <2>1, <2>2, GotoQuiet
  <1> QED
    BY <1>1, <1>2

\* One document more.
LEMMA InsertIsQuiet ==
    ASSUME PriceTypes, NEW j \in Periods, InsertDocument(j)
    PROVE  Quiet
  <1> USE DEF JobRest
  <1>1. /\ now \in Nat /\ UNCHANGED <<now, cached, published>> /\ j \in Jobs
        /\ job[j].pc = "insert"
        /\ job \in [Jobs -> JobRow]
    BY DEF InsertDocument, PriceTypes, Jobs
  <1>2. CASE Proceed(j)
    BY <1>1, <1>2, ProceedFacts DEF Quiet, GoesOn, AfterFetch
  <1>3. CASE job' = [job EXCEPT ![j].inserted = @ + 1]
    <2>1. /\ job' \in [Jobs -> JobRow]
          /\ job'[j].pc = "insert" /\ job'[j].at = job[j].at
          /\ job'[j].pair = job[j].pair
          /\ \A k \in Jobs \ {j} : job'[k] = job[k]
      <3>1. [job[j] EXCEPT !.inserted = @ + 1] \in JobRow
        BY <1>1 DEF JobRow
      <3> QED
        BY <1>1, <1>3, <3>1 DEF JobRow
    <2> QED
      BY <1>1, <2>1 DEF Quiet, GoesOn, AfterFetch
  <1> QED
    BY <1>2, <1>3 DEF InsertDocument

\* The newest price goes to Redis.
LEMMA CacheKeeps ==
    ASSUME PriceInv, "1m" \in Periods, CacheLatest("1m")
    PROVE  PriceInv' /\ Forward
  <1> DEFINE m == "1m"
             c == Current(m)
             at == job[m].at
  <1>1. /\ PriceTypes /\ m \in Jobs /\ job[m].pc = "cache"
        /\ UNCHANGED <<now, published>> /\ Proceed(m)
        /\ cached' = [cached EXCEPT ![c] = Latest(m)]
    BY DEF PriceInv, CacheLatest, Jobs, JobRest
  <1>2. Latest(m) = at
    BY <1>1, LatestIsFetched
  <1>3. at \in Nat /\ at <= now /\ now \in Nat /\ \A s \in Symbols : cached[s] <= at
    BY <1>1 DEF PriceInv, OnHand, AfterFetch, PriceTypes, JobRow
  <1>4. ASSUME NEW s \in Symbols
        PROVE  /\ cached[s] \in Int /\ published[s] \in Int /\ cached'[s] \in Int
               /\ cached[s] <= cached'[s] /\ cached'[s] <= at
               /\ s = c => cached'[s] = at
               /\ published[s] <= cached[s]
    BY <1>1, <1>2, <1>3 DEF PriceTypes, PriceInv
  <1>5. Forward
    BY <1>1, <1>4 DEF Forward
  <1>6. job' \in [Jobs -> JobRow]
    BY <1>1, ProceedFacts
  <1>7. PriceTypes'
    <2>3. at \in Int
      BY <1>3
    <2>4. cached' = [cached EXCEPT ![c] = at]
      BY <1>1, <1>2
    <2>5. cached \in [Symbols -> Int]
      BY <1>1 DEF PriceTypes
    <2>2. at \in Int /\ cached' = [cached EXCEPT ![c] = at] /\ cached \in [Symbols -> Int]
      BY <2>3, <2>4, <2>5
    <2>1. cached' \in [Symbols -> Int]
      <3> HIDE DEF at, c
      <3> QED
        BY <2>2
    <2> QED
      BY <1>1, <1>3, <1>6, <2>1 DEF PriceTypes
  <1>11. OnlyMinutes'
    BY <1>1, ProceedFacts DEF PriceInv, OnlyMinutes, AfterFetch
  <1>8. ASSUME job'[m].pc \in AfterFetch PROVE OnHand'
    <2>1. job'[m].at = at /\ job'[m].pair = job[m].pair
      BY <1>1, <1>8, ProceedFacts
    <2>2. c' = c
      BY <2>1 DEF Current
    <2> HIDE DEF c, at
    <2> QED
      BY <1>1, <1>3, <1>4, <2>1, <2>2 DEF OnHand, c
  <1>9. OnHand'
    BY <1>8 DEF OnHand
  <1>10. ASSUME NEW s \in Symbols PROVE published'[s] <= cached'[s] /\ cached'[s] <= now'
    <2> HIDE DEF at, c, m
    <2> QED
      BY <1>1, <1>3, <1>4
  <1> QED
    BY <1>5, <1>7, <1>9, <1>10, <1>11 DEF PriceInv

\* And then to the topic.
LEMMA PublishKeeps ==
    ASSUME PriceInv, "1m" \in Periods, PublishLatest("1m")
    PROVE  PriceInv' /\ Forward
  <1> DEFINE m == "1m"
             c == Current(m)
             at == job[m].at
  <1>1. /\ PriceTypes /\ m \in Jobs /\ job[m].pc = "publish"
        /\ UNCHANGED <<now, cached>> /\ Proceed(m)
        /\ published' = [published EXCEPT ![c] = Latest(m)]
    BY DEF PriceInv, PublishLatest, Jobs, JobRest
  <1>2. Latest(m) = at
    BY <1>1, LatestIsFetched
  <1>3. at \in Nat /\ at <= now /\ now \in Nat /\ (c \in Symbols => cached[c] = at)
    BY <1>1 DEF PriceInv, OnHand, AfterFetch, PriceTypes, JobRow
  <1>4. ASSUME NEW s \in Symbols
        PROVE  /\ cached[s] \in Int /\ published[s] \in Int /\ published'[s] \in Int
               /\ published[s] <= published'[s] /\ published'[s] <= cached[s]
               /\ cached[s] <= now
    <2>1. cached[s] \in Int /\ published[s] \in Int
          /\ published[s] <= cached[s] /\ cached[s] <= now
      BY <1>1 DEF PriceTypes, PriceInv
    <2>2. CASE s = c
      BY <1>1, <1>2, <1>3, <2>1, <2>2 DEF PriceTypes
    <2>3. CASE s # c
      BY <1>1, <2>1, <2>3 DEF PriceTypes
    <2> QED
      BY <2>2, <2>3
  <1>5. Forward
    BY <1>1, <1>4 DEF Forward
  <1>6. job' \in [Jobs -> JobRow]
    BY <1>1, ProceedFacts
  <1>7. PriceTypes'
    BY <1>1, <1>2, <1>3, <1>6 DEF PriceTypes
  <1>11. OnlyMinutes'
    BY <1>1, ProceedFacts DEF PriceInv, OnlyMinutes, AfterFetch
  <1>8. job'[m].pc \notin AfterFetch
    BY <1>1, ProceedFacts
  <1>9. OnHand'
    BY <1>8 DEF OnHand
  <1>10. ASSUME NEW s \in Symbols PROVE published'[s] <= cached'[s] /\ cached'[s] <= now'
    <2> HIDE DEF at, c, m
    <2> QED
      BY <1>1, <1>3, <1>4
  <1> QED
    BY <1>5, <1>7, <1>9, <1>10, <1>11 DEF PriceInv

\* Every step keeps the invariant and moves no price back.
LEMMA PriceStep ==
    ASSUME PriceInv, MarketNext PROVE PriceInv' /\ Forward
  <1>1. ASSUME NEW j \in Periods, CacheLatest(j) \/ PublishLatest(j)
        PROVE  j = "1m"
    BY <1>1 DEF CacheLatest, PublishLatest, PriceInv, OnlyMinutes, Jobs
  <1>2. ASSUME NEW j \in Periods, CacheLatest(j) \/ PublishLatest(j)
        PROVE  PriceInv' /\ Forward
    BY <1>1, <1>2, CacheKeeps, PublishKeeps
  <1>3. ASSUME Quiet PROVE PriceInv' /\ Forward
    BY <1>3, QuietKeeps, QuietForward
  <1>4. ASSUME NEW j \in Periods, InsertDocument(j) PROVE PriceInv' /\ Forward
    BY <1>3, <1>4, InsertIsQuiet DEF PriceInv
  <1>5. RateJob \in Jobs /\ Periods \subseteq Jobs
    BY DEF Jobs
  <1> QED
    BY <1>2, <1>3, <1>4, <1>5, QuietSteps DEF MarketNext, Step, PriceInv

\* A step that changes nothing.
LEMMA PriceStutter ==
    ASSUME PriceInv, UNCHANGED marketVars PROVE PriceInv' /\ Forward
  <1>1. UNCHANGED <<now, job, cached, published>>
    BY DEF marketVars
  <1>2. Quiet
    BY <1>1 DEF Quiet, GoesOn, PriceInv, PriceTypes, AfterFetch
  <1> QED
    BY <1>2, QuietKeeps, QuietForward

\* At the start there are no prices.
LEMMA PriceInit == Init => PriceInv
  <1> SUFFICES ASSUME MarketInit PROVE PriceInv
    BY DEF Init
  <1> USE DEF MarketInit
  <1>1. JIdle \in JobRow /\ JIdle.pc = "ended"
    BY DEF JIdle, JobPcs, JobRow
  <1>2. PriceTypes
    BY <1>1 DEF PriceTypes, None
  <1> QED
    BY <1>1, <1>2 DEF PriceInv, OnlyMinutes, OnHand, AfterFetch, None, Jobs

\* Prices in Redis and in the topic only move forward, and the topic never runs
\* ahead of Redis, whatever fails, is killed or is stopped between two calls.
THEOREM PricesForward == Spec => PricesMoveForward
  <1>1. PriceInv /\ [Next]_vars => PriceInv' /\ Forward
    BY PriceStep, PriceStutter DEF Next, vars, marketVars
  <1>2. PriceInv /\ [Next]_vars =>
          [\A s \in Symbols : /\ cached'[s] >= cached[s] /\ published'[s] >= published[s]
                              /\ "1m" \in enabled => published'[s] <= cached'[s]]_marketVars
    BY <1>1 DEF Forward
  <1> QED
    BY <1>1, <1>2, PriceInit, PTL DEF Spec, PricesMoveForward

-----------------------------------------------------------------------------
(* The end of the process. *)

\* A process that closes its connections, or is gone, has no loop left.
LoopsEnded == proc \in {"closed", "down"} => \A j \in Jobs : job[j].pc = "ended"

JobsAreRows == DOMAIN job = Jobs

EndedInv == JobsAreRows /\ LoopsEnded

\* While it closes nothing else moves: every other step is one of a running loop.
LEMMA EndedStep ==
    ASSUME EndedInv, MarketNext PROVE EndedInv'
  <1> USE DEF EndedInv, JobsAreRows, LoopsEnded
  <1>0. RateJob \in Jobs /\ Periods \subseteq Jobs
    BY DEF Jobs
  <1>1. CASE Start \/ Exit \/ Crash
    BY <1>1 DEF Start, Exit, Crash, JIdle
  <1>2. CASE Stop \/ Advance
    BY <1>2 DEF Stop, Advance
  <1>3. CASE Close
    BY <1>3 DEF Close, WaiterDone
  <1>4. ASSUME NEW j \in Jobs, job[j].pc # "ended", proc' = proc,
               \/ \E row : job' = [job EXCEPT ![j] = row]
               \/ \E pc : Goto(j, pc)
               \/ \E ok : NextPair(j, ok)
               \/ Proceed(j)
               \/ EndCycle(j) \/ TakePair(j, FindVisible)
        PROVE  EndedInv'
    <2>1. \E row : job' = [job EXCEPT ![j] = row]
      <3>1. ASSUME NEW pairs, TakePair(j, pairs)
            PROVE  \E row : job' = [job EXCEPT ![j] = row]
        BY <3>1 DEF TakePair
      <3>2. ASSUME EndCycle(j)
            PROVE  \E row : job' = [job EXCEPT ![j] = row]
        BY <3>2 DEF EndCycle
      <3>3. ASSUME NEW pc, Goto(j, pc)
            PROVE  \E row : job' = [job EXCEPT ![j] = row]
        BY <3>3 DEF Goto
      <3> QED
        BY <1>4, <3>1, <3>2, <3>3 DEF NextPair, Proceed
    <2> QED
      BY <1>4, <2>1
  <1>5. ASSUME NEW j \in Jobs, Tick(j) \/ Done(j) \/ CallFails(j) PROVE EndedInv'
    <2>1. CASE Tick(j)
      BY <2>1, <1>4 DEF Tick
    <2>2. CASE Done(j)
      BY <2>2, <1>4 DEF Done
    <2>3. CASE CallFails(j)
      BY <2>3, <1>4 DEF CallFails, Calling
    <2> QED
      BY <1>5, <2>1, <2>2, <2>3
  <1>6. ASSUME NEW j \in Periods, Step(j) PROVE EndedInv'
    <2>0. j \in Jobs
      BY <1>0
    <2>1. CASE FindExchangeCoinVisible(j)
      BY <2>0, <2>1, <1>4 DEF FindExchangeCoinVisible
    <2>2. CASE Fetch(j)
      <3>1. \/ job' = [job EXCEPT ![j] = [[job[j] EXCEPT !.pc = "delete"] EXCEPT !.at = now]]
            \/ NextPair(j, FALSE)
        BY <2>2 DEF Fetch
      <3> QED
        BY <2>0, <2>2, <3>1, <1>4 DEF Fetch
    <2>3. CASE DeleteMany(j)
      <3>1. CASE UNCHANGED job
        BY <2>3, <3>1 DEF DeleteMany
      <3>2. CASE Goto(j, "insert")
        BY <2>0, <2>3, <3>2, <1>4 DEF DeleteMany
      <3> QED
        BY <2>3, <3>1, <3>2 DEF DeleteMany
    <2>4. CASE InsertDocument(j)
      <3>1. \/ job' = [job EXCEPT ![j] = [job[j] EXCEPT !.inserted = @ + 1]]
            \/ Proceed(j)
        BY <2>4 DEF InsertDocument
      <3> QED
        BY <2>0, <2>4, <3>1, <1>4 DEF InsertDocument
    <2>5. CASE CacheLatest(j)
      BY <2>0, <2>5, <1>4 DEF CacheLatest
    <2>6. CASE PublishLatest(j)
      BY <2>0, <2>6, <1>4 DEF PublishLatest
    <2> QED
      BY <1>6, <2>1, <2>2, <2>3, <2>4, <2>5, <2>6 DEF Step
  <1>7. CASE RateStep
    <2>1. CASE FetchExchangeRate
      <3>1. job' = [job EXCEPT ![RateJob] =
                      [[job[RateJob] EXCEPT !.pc = "setRate"] EXCEPT !.at = now]]
        BY <2>1 DEF FetchExchangeRate
      <3> QED
        BY <1>0, <2>1, <3>1, <1>4 DEF FetchExchangeRate
    <2>2. CASE SetRate
      BY <1>0, <2>2, <1>4 DEF SetRate
    <2> QED
      BY <1>7, <2>1, <2>2 DEF RateStep
  <1> QED
    BY <1>1, <1>2, <1>3, <1>5, <1>6, <1>7 DEF MarketNext

\* No loop is in a call, or may still begin one, when main closes the connections, after
\* any stop, crash and restart.
THEOREM NoCallsAfterClose == Spec => []NoCallAfterClose
  <1>1. Init => EndedInv
    BY DEF Init, MarketInit, EndedInv, JobsAreRows, LoopsEnded, JIdle
  <1>2. EndedInv /\ [Next]_vars => EndedInv'
    <2>1. EndedInv /\ UNCHANGED marketVars => EndedInv'
      BY DEF marketVars, EndedInv, JobsAreRows, LoopsEnded
    <2> QED
      BY <2>1, EndedStep DEF Next, vars, marketVars
  <1>3. EndedInv => NoCallAfterClose
    BY DEF EndedInv, LoopsEnded, NoCallAfterClose
  <1> QED
    BY <1>1, <1>2, <1>3, PTL DEF Spec

-----------------------------------------------------------------------------
(* Candles: what a job fetches. *)

\* One period less ends a period earlier.
LEMMA PeriodsApart ==
    ASSUME NEW length \in Nat \ {0}, NEW n \in Int, NEW p \in Int, n < p
    PROVE  n * length + length <= p * length
  <1>1. (p - n) * length >= length
    <2>1. p - n \in Nat \ {0}
      OBVIOUS
    <2> QED
      BY <2>1
  <1>2. p * length = (n * length) + ((p - n) * length)
    OBVIOUS
  <1>3. n * length \in Int /\ p * length \in Int /\ (p - n) * length \in Int
    OBVIOUS
  <1> QED
    BY <1>1, <1>2, <1>3

\* The moment is not before the period it is counted to.
LEMMA PeriodBegins ==
    ASSUME NEW t \in Nat, NEW n \in Nat \ {0}
    PROVE  /\ t \div n \in Nat
           /\ (t \div n) * n <= t /\ t <= ((t \div n) * n) + n - 1
           /\ (t \div n) * n \in Nat
  <1> DEFINE q == t \div n
             m == t % n
  <1>1. q \in Nat /\ t <= (q * n) + n - 1
    BY InItsPeriod
  <1>2. m \in 0..(n - 1) /\ t = (n * q) + m
    OBVIOUS
  <1> HIDE DEF q, m
  <1>3. n * q = q * n /\ q * n \in Nat
    BY <1>1
  <1>4. q \in Nat /\ q * n <= t /\ t <= (q * n) + n - 1 /\ q * n \in Nat
    BY <1>1, <1>2, <1>3
  <1> QED
    BY <1>4 DEF q

Candles == [time : Nat, close : Nat]

\* A candle of a period, not closed later than a moment.
IsCandle(k, length, moment) ==
    /\ k \in Candles /\ k.time <= k.close /\ k.close <= moment
    /\ \E q \in Nat : k.time = q * length

\* A fetched list: candles newest first.
Fetched(list, length, moment) ==
    /\ Len(list) \in Nat /\ 1 <= Len(list) /\ Len(list) <= Window
    /\ \A i \in 1..Len(list) : IsCandle(list[i], length, moment)
    /\ \A i, k \in 1..Len(list) : i < k => list[k].time < list[i].time
    /\ Last(list) = list[Len(list)]

\* What FetchCandles answers.
LEMMA FetchedFacts ==
    ASSUME NEW j \in Periods, NEW t \in Nat
    PROVE  Fetched(FetchCandles(j, t), PeriodLength[j], t)
  <1> DEFINE length == PeriodLength[j]
             q == t \div length
             n == Min({Window, q + 1})
             list == FetchCandles(j, t)
             begins(i) == (q - i + 1) * length
  <1>1. length \in Nat \ {0} /\ Window \in Nat \ {0}
    BY MarketConstants
  <1> HIDE DEF length
  <1>2. q \in Nat /\ q * length <= t /\ t <= (q * length) + length - 1 /\ q * length \in Nat
    BY <1>1, PeriodBegins
  <1>3. list = [i \in 1..n |-> NewKlineFromCandle(j, begins(i), t)]
    BY DEF FetchCandles, length
  <1> HIDE DEF q
  <1>4. n = IF Window <= q + 1 THEN Window ELSE q + 1
    <2>1. Window \in Int /\ q + 1 \in Int
      BY <1>1, <1>2
    <2> HIDE DEF n
    <2> QED
      BY <2>1, MinOfTwo DEF n
  <1> HIDE DEF n, list
  <1>5. n \in Nat /\ 1 <= n /\ n <= Window /\ n <= q + 1
    BY <1>1, <1>2, <1>4
  <1>6. Len(list) = n /\ Last(list) = list[n]
    <2>1. Len(list) = n
      BY <1>3, <1>5
    <2> QED
      BY <2>1 DEF Last
  <1>7. \A i \in 1..n :
            /\ begins(i) \in Nat /\ begins(i) <= q * length
            /\ q - i + 1 \in Nat
    <2>1. SUFFICES ASSUME NEW i \in 1..n
                   PROVE  /\ begins(i) \in Nat /\ begins(i) <= q * length
                          /\ q - i + 1 \in Nat
      OBVIOUS
    <2>2. q - i + 1 \in Nat /\ q - i + 1 <= q
      BY <1>2, <1>5
    <2> DEFINE p == q - i + 1
    <2>3. p * length \in Nat
      BY <1>1, <2>2
    <2>4. p * length <= q * length
      <3>1. p \in Int /\ q \in Int /\ p <= q
        BY <1>2, <2>2
      <3> HIDE DEF p
      <3>2. CASE p = q
        BY <1>1, <1>2, <3>2
      <3>3. CASE p < q
        <4>1. p * length + length <= q * length
          BY <1>1, <3>1, <3>3, PeriodsApart
        <4>2. p * length \in Int /\ q * length \in Int
          BY <1>1, <3>1
        <4> QED
          BY <1>1, <4>1, <4>2
      <3> QED
        BY <3>1, <3>2, <3>3
    <2> QED
      BY <2>2, <2>3, <2>4
  <1>8. \A i, k \in 1..n : i < k => begins(k) < begins(i)
    <2>1. SUFFICES ASSUME NEW i \in 1..n, NEW k \in 1..n, i < k
                   PROVE  begins(k) < begins(i)
      OBVIOUS
    <2>2. q - k + 1 \in Int /\ q - i + 1 \in Int /\ q - k + 1 < q - i + 1
      BY <1>2, <1>5, <2>1
    <2>3. begins(k) + length <= begins(i)
      BY <1>1, <2>2, PeriodsApart
    <2>4. begins(k) \in Nat /\ begins(i) \in Nat
      BY <1>7
    <2> HIDE DEF begins
    <2> QED
      BY <1>1, <2>3, <2>4
  <1>11. \A i \in 1..n : list[i] = NewKlineFromCandle(j, begins(i), t)
    BY <1>3
  <1>12. ASSUME NEW i \in 1..n
         PROVE  /\ list[i].time = begins(i) /\ list[i] \in Candles
                /\ begins(i) <= list[i].close /\ list[i].close <= t
    <2> DEFINE b == begins(i)
               c == b + length - 1
               close == Min({t, c})
    <2>1. list[i] = [time |-> b, close |-> close]
      BY <1>11 DEF NewKlineFromCandle, length
    <2>2. b \in Nat /\ b <= q * length
      BY <1>7
    <2> HIDE DEF b, begins
    <2>3. c \in Nat /\ b <= c /\ b <= t
      BY <1>1, <1>2, <2>2
    <2> HIDE DEF c, close
    <2>5. close = IF t <= c THEN t ELSE c
      BY <2>3, MinOfTwo DEF close
    <2> QED
      BY <2>1, <2>2, <2>3, <2>5 DEF b, Candles
  <1> HIDE DEF begins
  <1>13. \A i \in 1..n : IsCandle(list[i], length, t)
    <2> SUFFICES ASSUME NEW i \in 1..n PROVE IsCandle(list[i], length, t)
      OBVIOUS
    <2>1. q - i + 1 \in Nat /\ list[i].time = (q - i + 1) * length
      BY <1>7, <1>12 DEF begins
    <2> QED
      BY <1>12, <2>1 DEF IsCandle
  <1>16. \A i, k \in 1..n : i < k => list[k].time < list[i].time
    BY <1>8, <1>12
  <1>17. Fetched(list, length, t)
    BY <1>5, <1>6, <1>13, <1>16 DEF Fetched
  <1> QED
    BY <1>17 DEF list, length

-----------------------------------------------------------------------------
(* Candles: what is stored. *)

\* Candles of distinct times, each of them once.
InOrder(B, length, moment) ==
    /\ \A k \in BagToSet(B) : B[k] = 1 /\ IsCandle(k, length, moment)
    /\ \A k, l \in BagToSet(B) : k.time = l.time => k = l

\* While a tail is rewritten: the candles of the tail are those inserted so far.
Rewritten(B, list, n) ==
    /\ n < Len(list)
    /\ \A k \in BagToSet(B) : k.time < Last(list).time \/ \E i \in 1..n : k = list[i]

\* A document more.
LEMMA OneMore ==
    ASSUME NEW B, NEW k, \A x \in BagToSet(B) : B[x] = 1, k \notin BagToSet(B)
    PROVE  /\ BagToSet(B (+) SetToBag({k})) = BagToSet(B) \cup {k}
           /\ \A x \in BagToSet(B (+) SetToBag({k})) : (B (+) SetToBag({k}))[x] = 1
  BY DEF (+), SetToBag, BagToSet

\* One fewer.
LEMMA OneLess ==
    ASSUME NEW B, NEW k, \A x \in BagToSet(B) : B[x] = 1
    PROVE  /\ BagToSet(B (-) SetToBag({k})) = BagToSet(B) \ {k}
           /\ \A x \in BagToSet(B (-) SetToBag({k})) : (B (-) SetToBag({k}))[x] = 1
  BY DEF (-), SetToBag, BagToSet

\* Some of them.
LEMMA SomeLess ==
    ASSUME NEW B, NEW S, S \subseteq BagToSet(B)
    PROVE  /\ BagToSet(Restrict(B, S)) = S
           /\ \A x \in S : Restrict(B, S)[x] = B[x]
  BY DEF Restrict, BagToSet

\* A collection nobody wrote to.
LEMMA NoDocuments == BagToSet(EmptyBag) = {}
  BY DEF EmptyBag, BagToSet, SetToBag

\* A candle stays a candle.
LEMMA CandleStays ==
    ASSUME NEW k, NEW length \in Nat \ {0}, NEW t \in Nat, NEW u \in Nat, t <= u,
           IsCandle(k, length, t)
    PROVE  IsCandle(k, length, u)
  BY DEF IsCandle, Candles

\* A deletion leaves the others in order.
LEMMA DeletedFacts ==
    ASSUME NEW B, NEW length, NEW u, InOrder(B, length, u), NEW k
    PROVE  InOrder(B (-) SetToBag({k}), length, u)
  <1> DEFINE less == B (-) SetToBag({k})
  <1>1. \A x \in BagToSet(B) : B[x] = 1
    BY DEF InOrder
  <1>2. /\ BagToSet(less) = BagToSet(B) \ {k}
        /\ \A x \in BagToSet(less) : less[x] = 1
    BY <1>1, OneLess
  <1> HIDE DEF less
  <1>3. InOrder(less, length, u)
    BY <1>2 DEF InOrder
  <1> QED
    BY <1>3 DEF less

\* When nothing of the tail is left its rewriting begins.
LEMMA TailDeleted ==
    ASSUME NEW B, NEW length \in Nat \ {0}, NEW t \in Nat, NEW u \in Nat,
           NEW list, Fetched(list, length, t), InOrder(B, length, u),
           Matching(B, Last(list).time) = {}
    PROVE  Rewritten(B, list, 0)
  <1>1. Len(list) \in 1..Len(list) /\ 0 < Len(list)
    BY DEF Fetched
  <1>2. Last(list).time \in Nat
    BY <1>1 DEF Fetched, IsCandle, Candles
  <1>3. ASSUME NEW k \in BagToSet(B) PROVE k.time < Last(list).time
    <2>1. k.time \in Nat
      BY DEF InOrder, IsCandle, Candles
    <2>2. ~ (k.time >= Last(list).time)
      BY DEF Matching
    <2> QED
      BY <1>2, <2>1, <2>2
  <1> QED
    BY <1>1, <1>3 DEF Rewritten

\* What the insertion of the next document adds.
LEMMA InsertedFacts ==
    ASSUME NEW B, NEW length \in Nat \ {0}, NEW t \in Nat, NEW u \in Nat, t <= u,
           NEW list, Fetched(list, length, t), InOrder(B, length, u),
           NEW n \in Nat, Rewritten(B, list, n)
    PROVE  LET more == B (+) SetToBag({list[n + 1]})
           IN  /\ InOrder(more, length, u)
               /\ n + 1 < Len(list) => Rewritten(more, list, n + 1)
  <1> DEFINE k == list[n + 1]
             more == B (+) SetToBag({k})
  <1>1. /\ n + 1 \in 1..Len(list) /\ Len(list) \in Nat
        /\ \A i \in 1..n : i \in 1..Len(list)
        /\ Len(list) \in 1..Len(list)
    BY DEF Rewritten, Fetched
  <1>2. IsCandle(k, length, t) /\ IsCandle(k, length, u)
    <2>1. IsCandle(k, length, t)
      BY <1>1 DEF Fetched
    <2> QED
      BY <2>1, CandleStays
  <1>3. k.time \in Nat /\ k.close \in Nat
    BY <1>2 DEF IsCandle, Candles
  <1>4. \A i \in 1..n : k.time < list[i].time
    <2>1. SUFFICES ASSUME NEW i \in 1..n PROVE k.time < list[i].time
      OBVIOUS
    <2>2. i \in 1..Len(list) /\ n + 1 \in 1..Len(list) /\ i < n + 1
      BY <1>1
    <2> QED
      BY <2>2 DEF Fetched
  <1>5. Last(list).time <= k.time /\ Last(list).time \in Nat
    <2>1. Last(list) = list[Len(list)] /\ IsCandle(list[Len(list)], length, t)
      BY <1>1 DEF Fetched
    <2>2. Last(list).time \in Nat
      BY <2>1 DEF IsCandle, Candles
    <2>3. CASE n + 1 = Len(list)
      BY <1>3, <2>1, <2>3
    <2>4. CASE n + 1 < Len(list)
      BY <1>1, <1>3, <2>1, <2>2, <2>4 DEF Fetched
    <2> QED
      BY <1>1, <2>2, <2>3, <2>4
  <1>6. ASSUME NEW l \in BagToSet(B) PROVE l.time \in Nat /\ l.time # k.time
    <2>1. l.time \in Nat
      BY DEF InOrder, IsCandle, Candles
    <2>2. l.time < Last(list).time \/ \E i \in 1..n : l = list[i]
      BY DEF Rewritten
    <2> QED
      BY <1>3, <1>4, <1>5, <2>1, <2>2
  <1>7. k \notin BagToSet(B)
    BY <1>6
  <1>8. /\ BagToSet(more) = BagToSet(B) \cup {k}
        /\ \A x \in BagToSet(more) : more[x] = 1
    BY <1>7, OneMore DEF InOrder
  <1> HIDE DEF more
  <1>9. InOrder(more, length, u)
    <2>1. \A x \in BagToSet(more) : IsCandle(x, length, u)
      BY <1>2, <1>8 DEF InOrder
    <2>2. ASSUME NEW x \in BagToSet(more), NEW y \in BagToSet(more), x.time = y.time
          PROVE  x = y
      BY <1>6, <1>8, <2>2 DEF InOrder
    <2> QED
      BY <1>8, <2>1, <2>2 DEF InOrder
  <1>10. ASSUME n + 1 < Len(list) PROVE Rewritten(more, list, n + 1)
    <2>1. n + 1 \in 1..(n + 1) /\ \A i \in 1..n : i \in 1..(n + 1)
      OBVIOUS
    <2>2. ASSUME NEW x \in BagToSet(more)
          PROVE  x.time < Last(list).time \/ \E i \in 1..(n + 1) : x = list[i]
      BY <1>8, <2>1 DEF Rewritten
    <2> QED
      BY <1>10, <2>2 DEF Rewritten
  <1> QED
    BY <1>9, <1>10 DEF more

-----------------------------------------------------------------------------
(* Candles: the invariant. *)

StoreTypes == store = [c \in Collections |-> store[c]]

Stored == \A c \in Collections : InOrder(store[c], PeriodLength[c[1]], now)

\* A job that inserts has rewritten the tail up to the document it comes to.
TailOk(j) ==
    job[j].pc = "insert" =>
        Rewritten(store[<<j, job[j].pair>>], FetchCandles(j, job[j].at), job[j].inserted)

JobOk(j) ==
    /\ job[j].pc # "ended" => j \in enabled
    /\ job[j].at <= now
    /\ job[j].left \subseteq FindVisible \ {job[j].pair}
    /\ job[j].inserted <= Window
    /\ job[j].pc \in {"fetch"} \cup AfterFetch => job[j].pair \in FindVisible
    /\ job[j].pc \in {"fetch", "delete"} => job[j].inserted = 0

CandleInv ==
    /\ now \in Nat /\ job \in [Jobs -> JobRow]
    /\ \A j \in Jobs : JobOk(j)
    /\ StoreTypes
    /\ Stored
    /\ \A j \in Periods : TailOk(j)

\* A loop keeps what it has on hand, or does not insert.
Holds(j) ==
    \/ job'[j].pc # "insert"
    \/ job'[j] = job[j]

\* Steps that leave the candles alone, the passing of time among them.
LEMMA StoreStays ==
    ASSUME CandleInv, UNCHANGED store,
           now' \in Nat, now <= now',
           job' \in [Jobs -> JobRow], \A j \in Jobs : JobOk(j)',
           \A j \in Periods : Holds(j)
    PROVE  CandleInv'
  <1>1. /\ now \in Nat /\ job \in [Jobs -> JobRow] /\ Periods \subseteq Jobs
        /\ \A j \in Periods : PeriodLength[j] \in Nat \ {0}
    BY MarketConstants DEF CandleInv, Jobs
  <1>2. StoreTypes'
    BY DEF CandleInv, StoreTypes
  <1>3. Stored'
    <2>1. SUFFICES ASSUME NEW c \in Collections
                   PROVE  InOrder(store[c], PeriodLength[c[1]], now')
      BY DEF Stored
    <2>2. PeriodLength[c[1]] \in Nat \ {0}
      BY <1>1 DEF Collections
    <2>3. InOrder(store[c], PeriodLength[c[1]], now)
      BY DEF CandleInv, Stored
    <2>4. \A k \in BagToSet(store[c]) : IsCandle(k, PeriodLength[c[1]], now')
      BY <1>1, <2>2, <2>3, CandleStays DEF InOrder
    <2> QED
      BY <2>3, <2>4 DEF InOrder
  <1>4. ASSUME NEW j \in Periods PROVE TailOk(j)'
    <2>1. Holds(j) /\ TailOk(j)
      BY DEF CandleInv
    <2> QED
      BY <2>1 DEF Holds, TailOk
  <1> QED
    BY <1>2, <1>3, <1>4 DEF CandleInv

\* A collection rewritten, the others as they were.
LEMMA OneCollection ==
    ASSUME StoreTypes, NEW c \in Collections, NEW B, store' = [store EXCEPT ![c] = B]
    PROVE  /\ StoreTypes' /\ store'[c] = B
           /\ \A d \in Collections \ {c} : store'[d] = store[d]
  <1>1. store = [d \in Collections |-> store[d]]
    BY DEF StoreTypes
  <1>2. store' = [d \in Collections |-> IF d = c THEN B ELSE store[d]]
    BY <1>1
  <1> QED
    BY <1>2 DEF StoreTypes

\* The pair a loop has on hand names a collection.
LEMMA OnHandFacts ==
    ASSUME CandleInv, NEW j \in Periods, job[j].pc \in {"delete", "insert"}
    PROVE  /\ j \in Jobs /\ job[j].pair \in Symbols /\ <<j, job[j].pair>> \in Collections
           /\ job[j].at \in Nat /\ job[j].at <= now /\ now \in Nat
           /\ job[j].inserted \in Nat
           /\ PeriodLength[j] \in Nat \ {0}
           /\ InOrder(store[<<j, job[j].pair>>], PeriodLength[j], now)
           /\ Fetched(FetchCandles(j, job[j].at), PeriodLength[j], job[j].at)
  <1>1. j \in Jobs /\ JobOk(j) /\ job[j] \in JobRow
    BY DEF CandleInv, Jobs
  <1>2. job[j].pair \in Symbols
    BY <1>1 DEF JobOk, AfterFetch, FindVisible
  <1>3. <<j, job[j].pair>> \in Collections
    BY <1>2 DEF Collections
  <1>4. job[j].at \in Nat /\ job[j].inserted \in Nat /\ job[j].at <= now /\ now \in Nat
    BY <1>1 DEF JobRow, JobOk, CandleInv
  <1>5. PeriodLength[j] \in Nat \ {0}
    BY MarketConstants
  <1>6. InOrder(store[<<j, job[j].pair>>], PeriodLength[j], now)
    BY <1>3 DEF CandleInv, Stored
  <1>7. Fetched(FetchCandles(j, job[j].at), PeriodLength[j], job[j].at)
    BY <1>4, FetchedFacts
  <1> QED
    BY <1>1, <1>2, <1>3, <1>4, <1>5, <1>6, <1>7

\* A loop that rewrites a collection, and says how far it is.
LEMMA RewriteKeeps ==
    ASSUME CandleInv, NEW j \in Periods, job[j].pc \in {"delete", "insert"},
           UNCHANGED now,
           job' \in [Jobs -> JobRow], \A k \in Jobs : JobOk(k)',
           \A k \in Jobs \ {j} : job'[k] = job[k],
           NEW B, store' = [store EXCEPT ![<<j, job[j].pair>>] = B],
           InOrder(B, PeriodLength[j], now),
           job'[j].pc = "insert" =>
                /\ job'[j].pair = job[j].pair /\ job'[j].at = job[j].at
                /\ Rewritten(B, FetchCandles(j, job[j].at), job'[j].inserted)
    PROVE  CandleInv'
  <1> DEFINE s == job[j].pair
             c == <<j, s>>
  <1>1. /\ j \in Jobs /\ s \in Symbols /\ c \in Collections
        /\ \A k \in Periods : k \in Jobs
    BY OnHandFacts DEF Jobs
  <1>2. /\ StoreTypes' /\ store'[c] = B
        /\ \A d \in Collections \ {c} : store'[d] = store[d]
    BY <1>1, OneCollection DEF CandleInv
  <1>3. c[1] = j
    OBVIOUS
  <1>4. \A k \in Periods : \A x : (k # j \/ x # s) => <<k, x>> # c
    OBVIOUS
  <1> HIDE DEF c, s
  <1>5. Stored'
    <2>1. SUFFICES ASSUME NEW d \in Collections
                   PROVE  InOrder(store'[d], PeriodLength[d[1]], now)
      BY DEF Stored
    <2>2. CASE d = c
      BY <1>2, <1>3, <2>2
    <2>3. CASE d # c
      BY <1>2, <2>3 DEF CandleInv, Stored
    <2> QED
      BY <2>2, <2>3
  <1>6. ASSUME NEW k \in Periods PROVE TailOk(k)'
    <2>1. SUFFICES ASSUME job'[k].pc = "insert"
                   PROVE  Rewritten(store'[<<k, job'[k].pair>>],
                                    FetchCandles(k, job'[k].at), job'[k].inserted)
      BY DEF TailOk
    <2>2. CASE k = j
      <3>1. <<k, job'[k].pair>> = c
        BY <2>1, <2>2 DEF c, s
      <3> QED
        BY <1>2, <2>1, <2>2, <3>1
    <2>3. CASE k # j
      <3>1. k \in Jobs /\ job'[k] = job[k]
        BY <1>1, <2>3
      <3>2. job[k].pc = "insert"
        BY <2>1, <3>1
      <3>3. <<k, job[k].pair>> \in Collections
        BY <3>2, OnHandFacts
      <3>4. <<k, job[k].pair>> # c
        BY <1>4, <2>3
      <3>5. store'[<<k, job[k].pair>>] = store[<<k, job[k].pair>>]
        BY <1>2, <3>3, <3>4
      <3> QED
        BY <3>1, <3>2, <3>5 DEF CandleInv, TailOk
    <2> QED
      BY <2>2, <2>3
  <1> QED
    BY <1>2, <1>5, <1>6 DEF CandleInv

\* A document of the tail is deleted, or none is left.
LEMMA DeleteKeeps ==
    ASSUME CandleInv, NEW j \in Periods, DeleteMany(j),
           job' \in [Jobs -> JobRow], \A k \in Jobs : JobOk(k)'
    PROVE  CandleInv'
  <1> DEFINE s == job[j].pair
             A == store[<<j, s>>]
             list == FetchCandles(j, job[j].at)
             tail == Matching(A, Last(list).time)
             length == PeriodLength[j]
  <1>1. /\ job[j].pc = "delete" /\ UNCHANGED now
        /\ \/ \E k \in tail :
                /\ store' = [store EXCEPT ![<<j, s>>] = A (-) SetToBag({k})]
                /\ UNCHANGED job
           \/ tail = {} /\ Goto(j, "insert") /\ UNCHANGED store
    BY DEF DeleteMany, JobRest, Collection, Current, List
  <1>2. /\ j \in Jobs /\ length \in Nat \ {0} /\ <<j, s>> \in Collections
        /\ job[j].at \in Nat /\ now \in Nat
        /\ InOrder(A, length, now) /\ Fetched(list, length, job[j].at)
    BY <1>1, OnHandFacts
  <1>3. ASSUME NEW k, store' = [store EXCEPT ![<<j, s>>] = A (-) SetToBag({k})],
               UNCHANGED job
        PROVE  CandleInv'
    <2> DEFINE B == A (-) SetToBag({k})
    <2> HIDE DEF A
    <2>1. InOrder(B, length, now)
      BY <1>2, DeletedFacts
    <2> HIDE DEF B
    <2>2. store' = [store EXCEPT ![<<j, s>>] = B]
      BY <1>3 DEF B
    <2> QED
      BY <1>1, <1>3, <2>1, <2>2, RewriteKeeps DEF length
  <1>4. ASSUME tail = {}, Goto(j, "insert"), UNCHANGED store PROVE CandleInv'
    <2>1. Rewritten(A, list, 0)
      <3> HIDE DEF A, list, length
      <3> QED
        BY <1>2, <1>4, TailDeleted
    <2>2. /\ job'[j].pc = "insert" /\ job'[j].pair = s /\ job'[j].at = job[j].at
          /\ job'[j].inserted = job[j].inserted
          /\ \A k \in Jobs \ {j} : job'[k] = job[k]
      BY <1>2, <1>4 DEF Goto, CandleInv, JobRow
    <2>3. job[j].inserted = 0
      BY <1>1, <1>2 DEF CandleInv, JobOk
    <2>4. store' = [store EXCEPT ![<<j, s>>] = A]
      BY <1>2, <1>4 DEF CandleInv, StoreTypes
    <2> HIDE DEF A
    <2> QED
      BY <1>1, <1>2, <2>1, <2>2, <2>3, <2>4, RewriteKeeps DEF list, length
  <1> QED
    BY <1>1, <1>3, <1>4

-----------------------------------------------------------------------------
(* Candles: the loops. *)

\* One loop moves.
LEMMA OneLoop ==
    ASSUME CandleInv, now' \in Nat, now <= now', enabled' = enabled,
           NEW j \in Jobs, \A k \in Jobs \ {j} : job'[k] = job[k], JobOk(j)'
    PROVE  \A k \in Jobs : JobOk(k)'
  <1>1. ASSUME NEW k \in Jobs \ {j} PROVE JobOk(k)'
    <2>1. JobOk(k) /\ job'[k] = job[k] /\ job[k].at \in Nat /\ now \in Nat
      BY DEF CandleInv, JobRow
    <2>2. job[k].at <= now'
      BY <2>1 DEF JobOk
    <2> QED
      BY <2>1, <2>2 DEF JobOk
  <1> QED
    BY <1>1

\* It takes a pair of those left, or ends its cycle.
LEMMA TakesOk ==
    ASSUME CandleInv, NEW j \in Jobs, now' = now, enabled' = enabled, job[j].pc # "ended",
           NEW pairs \in SUBSET FindVisible, Takes(j, pairs)
    PROVE  /\ \A k \in Jobs : JobOk(k)'
           /\ \A k \in Periods : Holds(k)
  <1>1. /\ now \in Nat /\ Window \in Nat /\ j \in enabled
        /\ \A k \in Periods : k \in Jobs
    BY MarketConstants DEF CandleInv, JobOk, Jobs
  <1>2. JobOk(j)'
    <2>1. CASE job'[j] = [pc |-> "wait", pair |-> NoPair, left |-> {}, at |-> 0, inserted |-> 0]
      BY <1>1, <2>1 DEF JobOk, AfterFetch
    <2>2. ASSUME NEW s \in pairs,
                 job'[j] = [pc |-> "fetch", pair |-> s, left |-> pairs \ {s}, at |-> 0,
                            inserted |-> 0]
          PROVE  JobOk(j)'
      BY <1>1, <2>2 DEF JobOk, AfterFetch
    <2> QED
      BY <2>1, <2>2 DEF Takes
  <1>3. \A k \in Jobs \ {j} : job'[k] = job[k]
    BY DEF Takes
  <1>4. \A k \in Jobs : JobOk(k)'
    BY <1>1, <1>2, <1>3, OneLoop
  <1>5. job'[j].pc = "wait" \/ job'[j].pc = "fetch"
    <2>1. CASE job'[j] = [pc |-> "wait", pair |-> NoPair, left |-> {}, at |-> 0, inserted |-> 0]
      BY <2>1
    <2>2. ASSUME NEW s \in pairs,
                 job'[j] = [pc |-> "fetch", pair |-> s, left |-> pairs \ {s}, at |-> 0,
                            inserted |-> 0]
          PROVE  job'[j].pc = "fetch"
      BY <2>2
    <2> QED
      BY <2>1, <2>2 DEF Takes
  <1> QED
    BY <1>1, <1>3, <1>4, <1>5 DEF Holds

\* The next pair, or the end of the cycle.
LEMMA NextPairOk ==
    ASSUME PriceTypes, CandleInv, NEW j \in Jobs, now' = now, enabled' = enabled,
           job[j].pc # "ended", NEW ok, NextPair(j, ok)
    PROVE  /\ \A k \in Jobs : JobOk(k)'
           /\ \A k \in Periods : Holds(k)
  <1>1. Takes(j, job[j].left)
    BY NextPairQuiet
  <1>2. job[j].left \in SUBSET FindVisible
    BY DEF CandleInv, JobOk
  <1> QED
    BY <1>1, <1>2, TakesOk

\* It goes on to another call, or to the next tick, with what it has.
LEMMA GotoOk ==
    ASSUME PriceTypes, CandleInv, NEW j \in Jobs, now' = now, enabled' = enabled,
           job[j].pc # "ended", NEW pc \in JobPcs \ {"fetch", "delete"}, Goto(j, pc),
           pc \in AfterFetch => job[j].pc \in AfterFetch
    PROVE  /\ \A k \in Jobs : JobOk(k)'
           /\ pc # "insert" => \A k \in Periods : Holds(k)
  <1>1. job[j] \in JobRow /\ JobOk(j) /\ now \in Nat /\ \A k \in Periods : k \in Jobs
    BY DEF CandleInv, Jobs
  <1>2. /\ job'[j].pc = pc /\ job'[j].at = job[j].at /\ job'[j].pair = job[j].pair
        /\ job'[j].left = job[j].left /\ job'[j].inserted = job[j].inserted
        /\ \A k \in Jobs \ {j} : job'[k] = job[k]
    BY DEF Goto, CandleInv, JobRow
  <1>3. JobOk(j)'
    BY <1>1, <1>2 DEF JobOk
  <1>4. \A k \in Jobs : JobOk(k)'
    BY <1>1, <1>2, <1>3, OneLoop
  <1> QED
    BY <1>1, <1>2, <1>4 DEF Holds

\* What follows a call that succeeded.
LEMMA ProceedOk ==
    ASSUME PriceTypes, CandleInv, NEW j \in Jobs, now' = now, enabled' = enabled,
           job[j].pc \in AfterFetch, Proceed(j)
    PROVE  /\ \A k \in Jobs : JobOk(k)'
           /\ \A k \in Periods : Holds(k)
  <1>0. job[j].pc # "ended"
    BY DEF AfterFetch
  <1>1. CASE NextPair(j, TRUE)
    BY <1>0, <1>1, NextPairOk
  <1>2. CASE ~NextPair(j, TRUE)
    <2>1. /\ Goto(j, After(j, job[j].pc))
          /\ After(j, job[j].pc) \in {"cache", "publish"}
      BY <1>2 DEF Proceed, After
    <2>2. /\ After(j, job[j].pc) \in JobPcs \ {"fetch", "delete"}
          /\ After(j, job[j].pc) # "insert"
      BY <2>1 DEF JobPcs, Calling
    <2> QED
      BY <1>0, <2>1, <2>2, GotoOk
  <1> QED
    BY <1>1, <1>2

\* Steps of the process and of the passing time.
LEMMA ProcessOk ==
    ASSUME PriceTypes, CandleInv,
           \/ Start \/ Stop \/ Close \/ Exit \/ Crash \/ Advance
           \/ UNCHANGED marketVars
    PROVE  /\ UNCHANGED store /\ now' \in Nat /\ now <= now'
           /\ \A k \in Jobs : JobOk(k)'
           /\ \A k \in Periods : Holds(k)
  <1> USE DEF JobRest, Data
  <1>1. now \in Nat /\ Window \in Nat /\ Periods \subseteq Jobs
    BY MarketConstants DEF CandleInv, Jobs
  <1>2. CASE Stop \/ Close \/ Advance \/ UNCHANGED marketVars
    <2>1. /\ UNCHANGED <<job, enabled, store>>
          /\ now' = now \/ now' = now + 1
      BY <1>2 DEF Stop, Close, Advance, marketVars
    <2>2. now' \in Nat /\ now <= now'
      BY <1>1, <2>1
    <2>3. ASSUME NEW k \in Jobs PROVE JobOk(k)'
      <3>1. JobOk(k) /\ job[k].at \in Nat
        BY DEF CandleInv, JobRow
      <3>2. job[k].at <= now'
        BY <1>1, <2>2, <3>1 DEF JobOk
      <3> QED
        BY <2>1, <3>1, <3>2 DEF JobOk
    <2> QED
      BY <2>1, <2>2, <2>3 DEF Holds
  <1>3. CASE Exit \/ Crash
    <2>1. job' = [j \in Jobs |-> JIdle] /\ UNCHANGED <<now, store>>
      BY <1>3 DEF Exit, Crash
    <2>2. \A j \in Jobs : job'[j] = JIdle
      BY <2>1
    <2> QED
      BY <1>1, <2>1, <2>2 DEF JobOk, Holds, JIdle, AfterFetch
  <1>4. CASE Start
    <2>1. /\ UNCHANGED <<now, enabled, store>>
          /\ \A j \in Jobs :
               job'[j] = IF j \in enabled
                         THEN [JIdle EXCEPT !.pc = IF j \in RunOnStart THEN FirstCall(j)
                                                  ELSE "wait"]
                         ELSE JIdle
      BY <1>4 DEF Start
    <2>2. ASSUME NEW j \in Jobs
          PROVE  /\ job'[j].pc \in {"pairs", "fetchRate", "wait", "ended"}
                 /\ job'[j].pc # "ended" => j \in enabled
                 /\ job'[j].pair = NoPair /\ job'[j].left = {}
                 /\ job'[j].at = 0 /\ job'[j].inserted = 0
      <3> DEFINE first == IF j \in RunOnStart THEN FirstCall(j) ELSE "wait"
      <3>1. first \in {"pairs", "fetchRate", "wait"}
        BY DEF FirstCall
      <3>2. job'[j] = IF j \in enabled THEN [JIdle EXCEPT !.pc = first] ELSE JIdle
        BY <2>1
      <3> HIDE DEF first
      <3>3. [JIdle EXCEPT !.pc = first]
              = [pc |-> first, pair |-> NoPair, left |-> {}, at |-> 0, inserted |-> 0]
        BY DEF JIdle
      <3>4. CASE j \in enabled
        BY <3>1, <3>2, <3>3, <3>4
      <3>5. CASE j \notin enabled
        BY <3>2, <3>5 DEF JIdle
      <3> QED
        BY <3>4, <3>5
    <2>3. ASSUME NEW j \in Jobs PROVE JobOk(j)'
      <3>1. job'[j].at <= now' /\ job'[j].inserted <= Window
        BY <1>1, <2>1, <2>2
      <3> QED
        BY <2>1, <2>2, <3>1 DEF JobOk, AfterFetch
    <2>4. \A k \in Periods : Holds(k)
      BY <1>1, <2>2 DEF Holds
    <2> QED
      BY <1>1, <2>1, <2>3, <2>4
  <1> QED
    BY <1>2, <1>3, <1>4

\* A loop between two cycles, or one that has just asked for the rate.
Between(k, row) ==
    /\ row.pc \in {"pairs", "fetchRate", "setRate", "wait", "ended"}
    /\ row.pc # "ended" => k \in enabled
    /\ \/ row.pair = NoPair /\ row.left = {}
       \/ row.pair = job[k].pair /\ row.left = job[k].left
    /\ row.at \in {0, now}
    /\ row.inserted \in {0, job[k].inserted}

\* Steps of the loops that leave the candles alone.
LEMMA LoopOk ==
    ASSUME PriceTypes, CandleInv, NEW j \in Jobs,
           \/ Tick(j) \/ Done(j) \/ CallFails(j)
           \/ FindExchangeCoinVisible(j) \/ Fetch(j)
           \/ j \in Periods /\ (CacheLatest(j) \/ PublishLatest(j))
           \/ RateStep
    PROVE  /\ UNCHANGED <<store, now, enabled>>
           /\ \A k \in Jobs : JobOk(k)'
           /\ \A k \in Periods : Holds(k)
  <1> USE DEF JobRest, Data
  <1>1. /\ now \in Nat /\ Window \in Nat /\ \A k \in Periods : k \in Jobs
        /\ job \in [Jobs -> JobRow] /\ RateJob \in Jobs
    BY MarketConstants DEF CandleInv, Jobs
  <1>2. UNCHANGED <<store, now, enabled>>
    BY DEF Tick, Done, CallFails, FindExchangeCoinVisible, Fetch, CacheLatest, PublishLatest,
           RateStep, FetchExchangeRate, SetRate
  <1>3. ASSUME NEW k \in Jobs, NEW row, Between(k, row), job' = [job EXCEPT ![k] = row]
        PROVE  /\ \A i \in Jobs : JobOk(i)'
               /\ \A i \in Periods : Holds(i)
    <2>1. job'[k] = row /\ \A i \in Jobs \ {k} : job'[i] = job[i]
      BY <1>1, <1>3
    <2>2. JobOk(k) /\ job[k].at \in Nat /\ job[k].inserted \in Nat
      BY <1>1 DEF CandleInv, JobRow
    <2>3. row.at <= now /\ row.inserted <= Window
      BY <1>1, <1>3, <2>2 DEF JobOk, Between
    <2>4. row.left \subseteq FindVisible \ {row.pair}
      BY <1>3, <2>2 DEF JobOk, Between
    <2>5. JobOk(k)'
      BY <1>2, <1>3, <2>1, <2>3, <2>4 DEF JobOk, AfterFetch, Between
    <2>6. \A i \in Jobs : JobOk(i)'
      BY <1>1, <1>2, <2>1, <2>5, OneLoop
    <2> QED
      BY <1>1, <1>3, <2>1, <2>6 DEF Holds, Between
  <1>4. CASE Tick(j)
    <2> DEFINE row == [JIdle EXCEPT !.pc = FirstCall(j)]
    <2>1. job' = [job EXCEPT ![j] = row] /\ job[j].pc = "wait"
      BY <1>4 DEF Tick
    <2>2. /\ row.pc \in {"pairs", "fetchRate"} /\ row.pair = NoPair /\ row.left = {}
          /\ row.at = 0 /\ row.inserted = 0
      BY DEF JIdle, FirstCall
    <2>3. j \in enabled
      BY <2>1 DEF CandleInv, JobOk
    <2> HIDE DEF row
    <2>4. Between(j, row)
      BY <2>2, <2>3 DEF Between
    <2> QED
      BY <1>2, <1>3, <2>1, <2>4
  <1>5. CASE Done(j)
    <2>1. job' = [job EXCEPT ![j] = JIdle]
      BY <1>5 DEF Done
    <2>2. Between(j, JIdle)
      BY DEF Between, JIdle
    <2> QED
      BY <1>2, <1>3, <2>1, <2>2
  <1>6. ASSUME NEW k \in Jobs, NextPair(k, TRUE) \/ NextPair(k, FALSE), job[k].pc # "ended"
        PROVE  (\A i \in Jobs : JobOk(i)') /\ (\A i \in Periods : Holds(i))
    BY <1>2, <1>6, NextPairOk
  <1>7. CASE CallFails(j)
    <2>1. job[j].pc # "ended" /\ (Goto(j, "wait") \/ NextPair(j, FALSE))
      BY <1>7 DEF CallFails, Calling
    <2>2. CASE Goto(j, "wait")
      BY <1>2, <2>1, <2>2, GotoOk DEF JobPcs, AfterFetch
    <2> QED
      BY <1>2, <1>6, <2>1, <2>2
  <1>8. CASE FindExchangeCoinVisible(j)
    <2>1. /\ EndCycle(j) \/ TakePair(j, FindVisible)
          /\ job[j].pc # "ended"
      BY <1>8 DEF FindExchangeCoinVisible
    <2>2. FindVisible \in SUBSET Symbols /\ FindVisible \in SUBSET FindVisible
      BY DEF FindVisible
    <2>3. Takes(j, FindVisible)
      BY <2>1, <2>2, TakeFacts
    <2> QED
      BY <1>2, <2>1, <2>2, <2>3, TakesOk
  <1>9. CASE Fetch(j)
    <2>1. job[j].pc = "fetch"
      BY <1>9 DEF Fetch
    <2>2. CASE NextPair(j, FALSE)
      BY <1>2, <1>6, <2>1, <2>2
    <2>3. CASE job' = [job EXCEPT ![j].pc = "delete", ![j].at = now]
      <3>1. /\ job'[j].pc = "delete" /\ job'[j].at = now /\ job'[j].pair = job[j].pair
            /\ job'[j].left = job[j].left /\ job'[j].inserted = job[j].inserted
            /\ \A k \in Jobs \ {j} : job'[k] = job[k]
        BY <1>1, <2>3 DEF JobRow
      <3>2. JobOk(j)
        BY DEF CandleInv
      <3>3. JobOk(j)'
        BY <1>1, <1>2, <2>1, <3>1, <3>2 DEF JobOk
      <3>4. \A k \in Jobs : JobOk(k)'
        BY <1>1, <1>2, <3>1, <3>3, OneLoop
      <3> QED
        BY <1>1, <1>2, <3>1, <3>4 DEF Holds
    <2> QED
      BY <1>9, <2>2, <2>3 DEF Fetch
  <1>10. CASE j \in Periods /\ (CacheLatest(j) \/ PublishLatest(j))
    <2>1. Proceed(j) /\ job[j].pc \in AfterFetch
      BY <1>10 DEF CacheLatest, PublishLatest, AfterFetch
    <2> QED
      BY <1>2, <2>1, ProceedOk
  <1>11. CASE RateStep
    <2>1. CASE FetchExchangeRate
      <3> DEFINE row == [[job[RateJob] EXCEPT !.pc = "setRate"] EXCEPT !.at = now]
      <3>1. job' = [job EXCEPT ![RateJob] = row] /\ job[RateJob].pc = "fetchRate"
        BY <1>1, <2>1 DEF FetchExchangeRate
      <3>2. job[RateJob] \in JobRow
        BY <1>1
      <3>3. /\ row.pc = "setRate" /\ row.pair = job[RateJob].pair
            /\ row.left = job[RateJob].left /\ row.at = now
            /\ row.inserted = job[RateJob].inserted
        BY <3>2 DEF JobRow
      <3>4. RateJob \in enabled
        BY <1>1, <3>1 DEF CandleInv, JobOk
      <3> HIDE DEF row
      <3>5. Between(RateJob, row)
        BY <3>3, <3>4 DEF Between
      <3> QED
        BY <1>1, <1>2, <1>3, <3>1, <3>5
    <2>2. CASE SetRate
      <3> DEFINE row == [JIdle EXCEPT !.pc = "wait"]
      <3>1. job' = [job EXCEPT ![RateJob] = row] /\ job[RateJob].pc = "setRate"
        BY <2>2 DEF SetRate
      <3>2. /\ row.pc = "wait" /\ row.pair = NoPair /\ row.left = {}
            /\ row.at = 0 /\ row.inserted = 0
        BY DEF JIdle
      <3>3. RateJob \in enabled
        BY <1>1, <3>1 DEF CandleInv, JobOk
      <3> HIDE DEF row
      <3>4. Between(RateJob, row)
        BY <3>2, <3>3 DEF Between
      <3> QED
        BY <1>1, <1>2, <1>3, <3>1, <3>4
    <2> QED
      BY <1>11, <2>1, <2>2 DEF RateStep
  <1> QED
    BY <1>2, <1>4, <1>5, <1>7, <1>8, <1>9, <1>10, <1>11

\* The tail is deleted, document by document.
LEMMA DeleteOk ==
    ASSUME PriceTypes, CandleInv, NEW j \in Periods, DeleteMany(j), job' \in [Jobs -> JobRow]
    PROVE  CandleInv'
  <1>1. /\ job[j].pc = "delete" /\ UNCHANGED <<now, enabled>> /\ j \in Jobs
        /\ UNCHANGED job \/ Goto(j, "insert")
    BY DEF DeleteMany, JobRest, Jobs
  <1>2. /\ "insert" \in JobPcs \ {"fetch", "delete"}
        /\ job[j].pc # "ended" /\ job[j].pc \in AfterFetch
    BY <1>1 DEF JobPcs, Calling, AfterFetch
  <1>3. CASE Goto(j, "insert")
    <2>1. \A k \in Jobs : JobOk(k)'
      BY <1>1, <1>2, <1>3, GotoOk
    <2> QED
      BY <2>1, DeleteKeeps
  <1>4. CASE UNCHANGED job
    <2>1. \A k \in Jobs : JobOk(k)'
      BY <1>1, <1>4 DEF CandleInv, JobOk
    <2> QED
      BY <2>1, DeleteKeeps
  <1> QED
    BY <1>1, <1>3, <1>4

\* A document of the tail is inserted.
LEMMA InsertOk ==
    ASSUME PriceTypes, CandleInv, NEW j \in Periods, InsertDocument(j),
           job' \in [Jobs -> JobRow]
    PROVE  CandleInv'
  <1> DEFINE s == job[j].pair
             A == store[<<j, s>>]
             at == job[j].at
             list == FetchCandles(j, at)
             n == job[j].inserted
             B == A (+) SetToBag({list[n + 1]})
             length == PeriodLength[j]
  <1>1. /\ job[j].pc = "insert" /\ UNCHANGED <<now, enabled>>
        /\ IF n + 1 < Len(list)
           THEN job' = [job EXCEPT ![j].inserted = @ + 1]
           ELSE Proceed(j)
    BY DEF InsertDocument, JobRest, List
  <1>2. store' = [store EXCEPT ![<<j, s>>] = B]
    <2>1. StoreTypes /\ <<j, s>> \in Collections
      BY <1>1, OnHandFacts DEF CandleInv
    <2> QED
      BY <2>1 DEF InsertDocument, Collection, Current, List, NextDocument, StoreTypes
  <1>3. /\ j \in Jobs /\ s \in Symbols /\ length \in Nat \ {0}
        /\ at \in Nat /\ at <= now /\ now \in Nat /\ n \in Nat
        /\ InOrder(A, length, now) /\ Fetched(list, length, at)
    BY <1>1, OnHandFacts
  <1>4. Rewritten(A, list, n)
    BY <1>1 DEF CandleInv, TailOk
  <1> HIDE DEF A, list, B, length, n, at, s
  <1>5. /\ InOrder(B, length, now)
        /\ n + 1 < Len(list) => Rewritten(B, list, n + 1)
    BY <1>3, <1>4, InsertedFacts DEF B
  <1>9. ASSUME n + 1 < Len(list)
        PROVE  /\ \A k \in Jobs \ {j} : job'[k] = job[k]
               /\ job'[j].pc = "insert" /\ job'[j].pair = s /\ job'[j].at = at
               /\ job'[j].inserted = n + 1
               /\ \A k \in Jobs : JobOk(k)'
    <2>1. job \in [Jobs -> JobRow] /\ JobOk(j)
      BY <1>3 DEF CandleInv
    <2>2. job' = [job EXCEPT ![j].inserted = @ + 1]
      BY <1>1, <1>9
    <2>3. /\ \A k \in Jobs \ {j} : job'[k] = job[k]
          /\ job'[j].pc = "insert" /\ job'[j].pair = s /\ job'[j].at = at
          /\ job'[j].left = job[j].left /\ job'[j].inserted = n + 1
      BY <1>1, <1>3, <2>1, <2>2 DEF JobRow, s, at, n
    <2>4. n + 1 <= Window
      BY <1>3, <1>9, MarketConstants DEF Fetched
    <2>5. JobOk(j)'
      BY <1>1, <2>1, <2>3, <2>4 DEF JobOk, AfterFetch, s, at
    <2>6. \A k \in Jobs : JobOk(k)'
      BY <1>1, <1>3, <2>3, <2>5, OneLoop
    <2> QED
      BY <2>3, <2>6
  <1>10. ASSUME ~ (n + 1 < Len(list))
         PROVE  /\ \A k \in Jobs \ {j} : job'[k] = job[k]
                /\ job'[j].pc \notin {"delete", "insert"}
                /\ \A k \in Jobs : JobOk(k)'
    <2>1. Proceed(j) /\ job[j].pc \in AfterFetch
      BY <1>1, <1>10 DEF AfterFetch
    <2>2. \A k \in Jobs : JobOk(k)'
      BY <1>1, <1>3, <2>1, ProceedOk
    <2>3. /\ \A k \in Jobs \ {j} : job'[k] = job[k]
          /\ \/ job'[j].pc \notin AfterFetch
             \/ job'[j].pc = "cache" \/ job'[j].pc = "publish"
      BY <1>3, <2>1, ProceedFacts
    <2> QED
      BY <2>2, <2>3 DEF AfterFetch
  <1>11. CASE n + 1 < Len(list)
    BY <1>1, <1>2, <1>5, <1>9, <1>11, RewriteKeeps DEF A, list, length, s, at
  <1>12. CASE ~ (n + 1 < Len(list))
    BY <1>1, <1>2, <1>5, <1>10, <1>12, RewriteKeeps DEF A, list, length, s, at
  <1> QED
    BY <1>11, <1>12

\* Every step keeps the candles in order.
LEMMA CandleStep ==
    ASSUME PriceInv, CandleInv, MarketNext \/ UNCHANGED marketVars
    PROVE  CandleInv'
  <1>1. /\ PriceTypes /\ job' \in [Jobs -> JobRow]
        /\ RateJob \in Jobs /\ \A j \in Periods : j \in Jobs
    BY PriceStep, PriceStutter DEF PriceInv, PriceTypes, Jobs
  <1>2. CASE \/ Start \/ Stop \/ Close \/ Exit \/ Crash \/ Advance
             \/ UNCHANGED marketVars
    BY <1>1, <1>2, ProcessOk, StoreStays
  <1>3. ASSUME NEW j \in Jobs,
               \/ Tick(j) \/ Done(j) \/ CallFails(j)
               \/ FindExchangeCoinVisible(j) \/ Fetch(j)
               \/ j \in Periods /\ (CacheLatest(j) \/ PublishLatest(j))
               \/ RateStep
        PROVE  CandleInv'
    <2>1. /\ UNCHANGED <<store, now, enabled>>
          /\ \A k \in Jobs : JobOk(k)'
          /\ \A k \in Periods : Holds(k)
      BY <1>1, <1>3, LoopOk
    <2>2. now' \in Nat /\ now <= now'
      BY <2>1 DEF CandleInv
    <2> QED
      BY <1>1, <2>1, <2>2, StoreStays
  <1>4. ASSUME NEW j \in Periods, DeleteMany(j) \/ InsertDocument(j)
        PROVE  CandleInv'
    BY <1>1, <1>4, DeleteOk, InsertOk
  <1> QED
    BY <1>1, <1>2, <1>3, <1>4 DEF MarketNext, Step

-----------------------------------------------------------------------------
(* The types. *)

Prices(f, moment) == f \in [Symbols -> None..moment]

PlainTypes ==
    /\ now \in 0..MaxNow
    /\ enabled \in EnabledSets
    /\ proc \in {"up", "stopping", "closed", "down"} /\ starts \in 0..MaxStarts
    /\ Prices(cached, now) /\ Prices(published, now)
    /\ rate \in None..now
    /\ faults \in 0..MaxFaults

\* A price that was fetched is a price.
LEMMA PricesGrow ==
    ASSUME NEW f, NEW t \in Nat, NEW u \in Nat, t <= u, Prices(f, t)
    PROVE  Prices(f, u)
  BY DEF Prices, None

\* A call brings a price of the past, or fails.
LEMMA PlainStep ==
    ASSUME PriceInv, CandleInv, PlainTypes, MarketNext \/ UNCHANGED marketVars
    PROVE  PlainTypes'
  <1> USE DEF JobRest, Data
  <1>1. /\ MaxNow \in Nat /\ MaxStarts \in Nat /\ MaxFaults \in Nat
        /\ now \in Nat /\ starts \in Nat /\ faults \in Nat
        /\ RateJob \in Jobs /\ \A j \in Periods : j \in Jobs
        /\ PriceTypes
    BY MarketConstants DEF PlainTypes, Jobs, PriceInv
  <1>2. now' \in 0..MaxNow /\ now <= now'
    <2>1. now' = now \/ (now < MaxNow /\ now' = now + 1)
      BY DEF MarketNext, marketVars, Start, Stop, Close, Exit, Crash, Tick, Done, CallFails,
       Failing, Step, FindExchangeCoinVisible, Fetch, DeleteMany, InsertDocument, CacheLatest,
       PublishLatest, RateStep, FetchExchangeRate, SetRate, Advance
    <2> QED
      BY <1>1, <2>1 DEF PlainTypes
  <1>3. enabled' = enabled
    BY DEF MarketNext, marketVars, Start, Stop, Close, Exit, Crash, Tick, Done, CallFails,
       Failing, Step, FindExchangeCoinVisible, Fetch, DeleteMany, InsertDocument, CacheLatest,
       PublishLatest, RateStep, FetchExchangeRate, SetRate, Advance
  <1>4. proc' \in {"up", "stopping", "closed", "down"}
    BY DEF PlainTypes, MarketNext, marketVars, Start, Stop, Close, Exit, Crash, Tick, Done, CallFails,
       Failing, Step, FindExchangeCoinVisible, Fetch, DeleteMany, InsertDocument, CacheLatest,
       PublishLatest, RateStep, FetchExchangeRate, SetRate, Advance
  <1>5. starts' \in 0..MaxStarts
    <2>1. starts' = starts \/ (starts < MaxStarts /\ starts' = starts + 1)
      BY DEF MarketNext, marketVars, Start, Stop, Close, Exit, Crash, Tick, Done, CallFails,
       Failing, Step, FindExchangeCoinVisible, Fetch, DeleteMany, InsertDocument, CacheLatest,
       PublishLatest, RateStep, FetchExchangeRate, SetRate, Advance
    <2> QED
      BY <1>1, <2>1 DEF PlainTypes
  <1>6. faults' \in 0..MaxFaults
    <2>1. faults' = faults \/ (faults < MaxFaults /\ faults' = faults + 1)
      BY DEF MarketNext, marketVars, Start, Stop, Close, Exit, Crash, Tick, Done, CallFails,
       Failing, Step, FindExchangeCoinVisible, Fetch, DeleteMany, InsertDocument, CacheLatest,
       PublishLatest, RateStep, FetchExchangeRate, SetRate, Advance
    <2> QED
      BY <1>1, <2>1 DEF PlainTypes
  <1>7. ASSUME NEW j \in Jobs PROVE job[j].at \in 0..now
    BY DEF CandleInv, JobOk, JobRow
  <1>8. rate' \in None..now
    <2>1. rate' = rate \/ rate' = job[RateJob].at
      BY DEF MarketNext, marketVars, Start, Stop, Close, Exit, Crash, Tick, Done, CallFails,
       Failing, Step, FindExchangeCoinVisible, Fetch, DeleteMany, InsertDocument, CacheLatest,
       PublishLatest, RateStep, FetchExchangeRate, SetRate, Advance
    <2> QED
      BY <1>1, <1>7, <2>1 DEF PlainTypes, None
  <1>9. ASSUME NEW j \in Periods PROVE Latest(j) \in None..now
    <2>1. Latest(j) = job[j].at /\ j \in Jobs
      BY <1>1, LatestIsFetched
    <2> QED
      BY <1>1, <1>7, <2>1 DEF None
  <1>10. Prices(cached', now)
    <2>1. ASSUME NEW j \in Periods, CacheLatest(j) PROVE Prices(cached', now)
      <3> DEFINE latest == Latest(j)
                 c == Current(j)
      <3>1. latest \in None..now /\ cached' = [cached EXCEPT ![c] = latest]
        BY <1>9, <2>1 DEF CacheLatest
      <3> HIDE DEF latest, c
      <3> QED
        BY <3>1 DEF Prices, PlainTypes
    <2>2. CASE cached' = cached
      BY <2>2 DEF PlainTypes
    <2> QED
      BY <2>1, <2>2 DEF MarketNext, marketVars, Start, Stop, Close, Exit, Crash, Tick, Done,
         CallFails, Step, FindExchangeCoinVisible, Fetch, DeleteMany, InsertDocument,
         PublishLatest, RateStep, FetchExchangeRate, SetRate, Advance
  <1>11. Prices(published', now)
    <2>1. ASSUME NEW j \in Periods, PublishLatest(j) PROVE Prices(published', now)
      <3> DEFINE latest == Latest(j)
                 c == Current(j)
      <3>1. latest \in None..now /\ published' = [published EXCEPT ![c] = latest]
        BY <1>9, <2>1 DEF PublishLatest
      <3> HIDE DEF latest, c
      <3> QED
        BY <3>1 DEF Prices, PlainTypes
    <2>2. CASE published' = published
      BY <2>2 DEF PlainTypes
    <2> QED
      BY <2>1, <2>2 DEF MarketNext, marketVars, Start, Stop, Close, Exit, Crash, Tick, Done,
         CallFails, Step, FindExchangeCoinVisible, Fetch, DeleteMany, InsertDocument,
         CacheLatest, RateStep, FetchExchangeRate, SetRate, Advance
  <1>12. Prices(cached', now') /\ Prices(published', now') /\ rate' \in None..now'
    <2>1. now' \in Nat
      BY <1>1, <1>2
    <2> QED
      BY <1>1, <1>2, <1>8, <1>10, <1>11, <2>1, PricesGrow DEF None
  <1> QED
    BY <1>2, <1>3, <1>4, <1>5, <1>6, <1>12 DEF PlainTypes

\* What is known of the jobs, the candles and the prices.
JobsInv == PriceInv /\ CandleInv /\ PlainTypes /\ EndedInv

\* It holds when nothing was fetched yet.
LEMMA JobsStart == Init => JobsInv
  <1> SUFFICES ASSUME MarketInit, Init PROVE JobsInv
    BY DEF Init
  <1> USE DEF MarketInit
  <1>1. PriceInv
    BY PriceInit
  <1>2. EndedInv
    BY DEF EndedInv, JobsAreRows, LoopsEnded, JIdle
  <1>3. PlainTypes
    BY MarketConstants DEF PlainTypes, Prices, None
  <1>4. \A c \in Collections : BagToSet(store[c]) = {}
    BY NoDocuments
  <1>5. /\ now \in Nat /\ job \in [Jobs -> JobRow] /\ StoreTypes
    BY <1>1 DEF PriceInv, PriceTypes, StoreTypes
  <1>6. \A j \in Jobs : job[j] = JIdle
    OBVIOUS
  <1>7. \A j \in Jobs : JobOk(j)
    BY <1>6, MarketConstants DEF JobOk, JIdle, AfterFetch
  <1>8. Stored
    BY <1>4 DEF Stored, InOrder
  <1>9. \A j \in Periods : TailOk(j)
    BY <1>6 DEF TailOk, JIdle, Jobs
  <1> QED
    BY <1>1, <1>2, <1>3, <1>5, <1>7, <1>8, <1>9 DEF JobsInv, CandleInv

\* And every step of the specification keeps it.
LEMMA JobsKeep == JobsInv /\ [Next]_vars => JobsInv'
  <1> SUFFICES ASSUME JobsInv, MarketNext \/ UNCHANGED marketVars
               PROVE  JobsInv'
    BY DEF Next, vars, marketVars
  <1>1. PriceInv'
    BY PriceStep, PriceStutter DEF JobsInv
  <1>2. CandleInv'
    BY CandleStep DEF JobsInv
  <1>3. PlainTypes'
    BY PlainStep DEF JobsInv
  <1>4. EndedInv'
    <2>1. CASE UNCHANGED marketVars
      BY <2>1 DEF marketVars, JobsInv, EndedInv, JobsAreRows, LoopsEnded
    <2> QED
      BY <2>1, EndedStep DEF JobsInv
  <1> QED
    BY <1>1, <1>2, <1>3, <1>4 DEF JobsInv

\* The types hold; a chart has one bar per time at every resolution, however the rewriting
\* of a tail was interrupted; and nobody calls over a closed connection.
THEOREM CandlesInOrder == Spec => []MarketInv
  <1>1. ASSUME JobsInv PROVE MarketInv
    <2>a. PriceInv /\ CandleInv /\ PlainTypes /\ EndedInv
      BY <1>1 DEF JobsInv
    <2>1. MarketTypeOK
      <3>1. ASSUME NEW j \in Jobs
            PROVE  /\ job[j].pc \in Calling \cup {"wait", "ended"}
                   /\ job[j].pc # "ended" => j \in enabled
                   /\ job[j].pair \in Symbols \cup {NoPair}
                   /\ job[j].left \subseteq FindVisible \ {job[j].pair}
                   /\ job[j].at \in 0..now /\ job[j].inserted \in 0..Window
        <4>1. job[j] \in JobRow /\ JobOk(j) /\ now \in Nat /\ Window \in Nat
          BY <2>a, MarketConstants DEF CandleInv
        <4> QED
          BY <4>1 DEF JobRow, JobPcs, JobOk
      <3>2. ASSUME NEW c \in Collections, NEW k \in BagToSet(store[c])
            PROVE  k.time \in 0..now /\ k.close \in k.time..now
        <4>1. IsCandle(k, PeriodLength[c[1]], now) /\ now \in Nat
          BY <2>a DEF CandleInv, Stored, InOrder
        <4> QED
          BY <4>1 DEF IsCandle, Candles
      <3> QED
        BY <2>a, <3>1, <3>2 DEF PlainTypes, Prices, MarketTypeOK
    <2>2. OneCandlePerTime
      <3> SUFFICES ASSUME NEW s \in Symbols, NEW resolution \in {"1", "60"},
                          ResolutionToPeriod(resolution) \in Periods,
                          NEW k \in BagToSet(HistoryKline(s, resolution, 0, now)),
                          NEW l \in BagToSet(HistoryKline(s, resolution, 0, now))
                   PROVE  /\ HistoryKline(s, resolution, 0, now)[k] = 1
                          /\ k.time = l.time => k = l
        BY DEF OneCandlePerTime
      <3> DEFINE p == ResolutionToPeriod(resolution)
                 B == store[<<p, s>>]
                 S == {x \in BagToSet(B) : x.time >= 0 /\ x.time <= now}
      <3>1. <<p, s>> \in Collections
        BY DEF Collections
      <3>2. InOrder(B, PeriodLength[p], now)
        BY <2>a, <3>1 DEF CandleInv, Stored
      <3>3. HistoryKline(s, resolution, 0, now) = Restrict(B, S) /\ S \subseteq BagToSet(B)
        BY DEF HistoryKline, FindBySymbolTime
      <3> HIDE DEF S, B, p
      <3>4. /\ BagToSet(HistoryKline(s, resolution, 0, now)) = S
            /\ \A x \in S : HistoryKline(s, resolution, 0, now)[x] = B[x]
        BY <3>3, SomeLess
      <3> QED
        BY <3>2, <3>3, <3>4 DEF InOrder
    <2>3. NoCallAfterClose
      BY <2>a DEF EndedInv, LoopsEnded, NoCallAfterClose
    <2> QED
      BY <2>1, <2>2, <2>3 DEF MarketInv
  <1> QED
    BY <1>1, JobsStart, JobsKeep, PTL DEF Spec

-----------------------------------------------------------------------------
(* The gateway's table. *)

\* What the rest needs of the calls of a logic: they are methods, no more of them than
\* the bound of the types allows.
CallsFit(logic) ==
    \A w \in 0..MaxWallets : /\ logic.calls[w] \in Seq(Servers)
                             /\ Len(logic.calls[w]) <= MaxWallets + 2

\* No call of the logic is made in the name of a member.
ForAnyone(logic) ==
    \A w \in 0..MaxWallets : \A k \in DOMAIN logic.calls[w] :
        logic.calls[w][k].actsFor = "anyone"

\* The checks and the deadlines of a logic leave its calls alone.
LEMMA LogicCalls ==
    ASSUME NEW calls,
           NEW logic \in {Logic(calls), Checked(Logic(calls)), Untimed(Logic(calls)),
                          Untimed(Checked(Logic(calls)))}
    PROVE  logic.calls = [w \in 0..MaxWallets |-> calls]
  <1> DEFINE f == [w \in 0..MaxWallets |-> calls]
             l == Logic(calls)
  <1>1. l = [calls |-> f, checks |-> FALSE, timed |-> TRUE]
    BY DEF Logic
  <1>2. logic \in {l, [l EXCEPT !.checks = TRUE], [l EXCEPT !.timed = FALSE],
                  [[l EXCEPT !.checks = TRUE] EXCEPT !.timed = FALSE]}
    BY DEF Checked, Untimed
  <1> HIDE DEF f, l
  <1>4. l.calls = f /\ [l EXCEPT !.checks = TRUE].calls = f
        /\ [l EXCEPT !.timed = FALSE].calls = f
    BY <1>1
  <1>5. [[l EXCEPT !.checks = TRUE] EXCEPT !.timed = FALSE].calls = f
    BY <1>1
  <1>3. logic.calls = f
    BY <1>2, <1>4, <1>5
  <1> QED
    BY <1>3 DEF f

\* So do the parsing of a handler and what it reads of the answer.
LEMMA HandlerLogic ==
    ASSUME NEW logic, NEW parses,
           NEW handler \in {Handler(logic, parses), ReadsField(Handler(logic, parses))}
    PROVE  handler.logic = logic
  BY DEF Handler, ReadsField

\* A logic whose calls do not depend on the wallets fits when its calls do.
LEMMA FlatLogicFits ==
    ASSUME NEW calls \in Seq(Servers), Len(calls) <= 2,
           NEW logic \in {Logic(calls), Checked(Logic(calls)), Untimed(Logic(calls)),
                          Untimed(Checked(Logic(calls)))}
    PROVE  /\ CallsFit(logic)
           /\ (\A k \in DOMAIN calls : calls[k].actsFor = "anyone") => ForAnyone(logic)
  <1>1. logic.calls = [w \in 0..MaxWallets |-> calls]
    BY LogicCalls
  <1>2. MaxWallets \in Nat /\ Len(calls) \in Nat
    BY GatewayConstants
  <1>3. Len(calls) <= MaxWallets + 2
    BY <1>2
  <1>4. \A w \in 0..MaxWallets : logic.calls[w] = calls
    BY <1>1
  <1> QED
    BY <1>3, <1>4 DEF CallsFit, ForAnyone

\* The logic with one call for each wallet.
LEMMA QueryFits == CallsFit(QueryWithdrawCoinLogic)
  <1> DEFINE calls(w) == <<FindAllCoinRpc, FindWalletRpc>>
                             \o [i \in 1..w |-> FindAddressByCoinIdRpc]
  <1>1. FindAllCoinRpc \in Servers /\ FindWalletRpc \in Servers
        /\ FindAddressByCoinIdRpc \in Servers
    BY DEF Servers, MarketServer, AssetServer, WithdrawServer
  <1>2. QueryWithdrawCoinLogic.calls = [w \in 0..MaxWallets |-> calls(w)]
    <2> DEFINE f == [w \in 0..MaxWallets |-> calls(w)]
               l == Logic(<<>>)
    <2>1. QueryWithdrawCoinLogic = [l EXCEPT !.calls = f]
      BY DEF QueryWithdrawCoinLogic
    <2>2. l = [calls |-> [w \in 0..MaxWallets |-> <<>>], checks |-> FALSE, timed |-> TRUE]
      BY DEF Logic
    <2> HIDE DEF f, l
    <2>3. [l EXCEPT !.calls = f].calls = f
      BY <2>2
    <2> QED
      BY <2>1, <2>3 DEF f
  <1>3. ASSUME NEW w \in 0..MaxWallets
        PROVE  calls(w) \in Seq(Servers) /\ Len(calls(w)) <= MaxWallets + 2
    <2> DEFINE a == <<FindAllCoinRpc, FindWalletRpc>>
               b == [i \in 1..w |-> FindAddressByCoinIdRpc]
    <2>1. MaxWallets \in Nat /\ w \in Nat /\ w <= MaxWallets
      BY GatewayConstants
    <2>2. a \in Seq(Servers) /\ Len(a) = 2
      BY <1>1
    <2>3. b \in Seq(Servers) /\ Len(b) = w
      BY <1>1, <2>1
    <2> HIDE DEF a, b
    <2>6. a \o b \in Seq(Servers)
      BY <2>2, <2>3, ConcatProperties
    <2>7. Len(a \o b) = Len(a) + Len(b)
      BY <2>2, <2>3, ConcatProperties
    <2>4. a \o b \in Seq(Servers) /\ Len(a \o b) = 2 + w
      BY <2>2, <2>3, <2>6, <2>7
    <2>5. 2 + w <= MaxWallets + 2
      BY <2>1
    <2> QED
      BY <2>4, <2>5 DEF a, b
  <1> HIDE DEF calls
  <1>4. \A w \in 0..MaxWallets : QueryWithdrawCoinLogic.calls[w] = calls(w)
    BY <1>2
  <1> QED
    BY <1>3, <1>4 DEF CallsFit

Rpcs == {FindSymbolThumbTrendRpc, FindSymbolInfoRpc, FindCoinInfoRpc, HistoryKlineRpc,
         UsdRateRpc, AddRpc, FindOrderCurrentRpc, FindOrderHistoryRpc, RegisterByPhoneRpc,
         SendCodeRpc, LoginRpc, FindMemberByIdRpc, FindWalletRpc, FindWalletBySymbolRpc,
         ResetAddressRpc, FindTransactionRpc, SendWithdrawCodeRpc, WithdrawCodeRpc,
         WithdrawRecordRpc}

OpenRpcs == {FindSymbolThumbTrendRpc, FindSymbolInfoRpc, FindCoinInfoRpc, HistoryKlineRpc,
             UsdRateRpc, RegisterByPhoneRpc, SendCodeRpc, LoginRpc}

\* The methods of the logics with one call, by whom they act for.
LEMMA RpcsAreOpen ==
    /\ FindSymbolThumbTrendRpc \in OpenRpcs /\ FindSymbolInfoRpc \in OpenRpcs
    /\ FindCoinInfoRpc \in OpenRpcs /\ HistoryKlineRpc \in OpenRpcs
    /\ UsdRateRpc \in OpenRpcs /\ RegisterByPhoneRpc \in OpenRpcs
    /\ SendCodeRpc \in OpenRpcs /\ LoginRpc \in OpenRpcs
    /\ AddRpc \in Rpcs /\ FindOrderCurrentRpc \in Rpcs /\ FindOrderHistoryRpc \in Rpcs
    /\ FindMemberByIdRpc \in Rpcs /\ FindWalletRpc \in Rpcs
    /\ FindWalletBySymbolRpc \in Rpcs /\ ResetAddressRpc \in Rpcs
    /\ FindTransactionRpc \in Rpcs /\ SendWithdrawCodeRpc \in Rpcs
    /\ WithdrawCodeRpc \in Rpcs /\ WithdrawRecordRpc \in Rpcs
  BY DEF Rpcs, OpenRpcs

\* Each of them is answered to by a server, and the open ones act for anyone.
LEMMA RpcsAreServed ==
    /\ Rpcs \subseteq Servers /\ OpenRpcs \subseteq Servers
    /\ \A m \in OpenRpcs : m.actsFor = "anyone"
  <1>1. Rpcs \subseteq Servers /\ OpenRpcs \subseteq Servers
    BY DEF Rpcs, OpenRpcs, Servers, MarketServer, ExchangeRateServer, OrderServer,
       RegisterServer, LoginServer, MemberServer, AssetServer, WithdrawServer
  <1>2. ASSUME NEW m \in OpenRpcs PROVE m.actsFor = "anyone"
    BY DEF OpenRpcs, Rpc, FindSymbolThumbTrendRpc, FindSymbolInfoRpc, FindCoinInfoRpc,
       HistoryKlineRpc, UsdRateRpc, RegisterByPhoneRpc, SendCodeRpc, LoginRpc
  <1> QED
    BY <1>1, <1>2

Fits(handler) == CallsFit(handler.logic)
Free(handler) == Fits(handler) /\ ForAnyone(handler.logic)

\* Logics with one call, and their handlers.
LEMMA OneCallFits ==
    ASSUME NEW m \in Rpcs \cup OpenRpcs, NEW parses \in BOOLEAN
    PROVE  LET Both(h) == Fits(h) /\ (m \in OpenRpcs => Free(h))
           IN  /\ Both(Handler(Logic(<<m>>), parses))
               /\ Both(ReadsField(Handler(Logic(<<m>>), parses)))
               /\ Both(Handler(Checked(Logic(<<m>>)), parses))
               /\ Both(Handler(Untimed(Logic(<<m>>)), parses))
               /\ Both(Handler(Untimed(Checked(Logic(<<m>>))), parses))
  <1> DEFINE calls == <<m>>
  <1>1. m \in Servers /\ (m \in OpenRpcs => m.actsFor = "anyone")
    BY RpcsAreServed
  <1>2. calls \in Seq(Servers) /\ Len(calls) = 1 /\ DOMAIN calls = {1} /\ calls[1] = m
    BY <1>1
  <1>3. m \in OpenRpcs => \A k \in DOMAIN calls : calls[k].actsFor = "anyone"
    BY <1>1, <1>2
  <1>4. Len(calls) <= 2
    BY <1>2
  <1> HIDE DEF calls
  <1>5. ASSUME NEW logic \in {Logic(calls), Checked(Logic(calls)), Untimed(Logic(calls)),
                              Untimed(Checked(Logic(calls)))},
               NEW h \in {Handler(logic, parses), ReadsField(Handler(logic, parses))}
        PROVE  Fits(h) /\ (m \in OpenRpcs => Free(h))
    <2>1. h.logic = logic
      BY HandlerLogic
    <2>2. CallsFit(logic) /\ (m \in OpenRpcs => ForAnyone(logic))
      BY <1>2, <1>3, <1>4, FlatLogicFits
    <2> QED
      BY <2>1, <2>2 DEF Fits, Free
  <1> QED
    BY <1>5 DEF calls

\* Routes without the middleware call nothing in the name of a member.
LEMMA RoutesFit ==
    ASSUME NEW route \in AllRoutes
    PROVE  /\ route.auth \in BOOLEAN
           /\ CallsFit(route.handler.logic)
           /\ ~route.auth => ForAnyone(route.handler.logic)
  <1>1. /\ Free(CoinInfoHandler) /\ Free(HistoryHandler) /\ Free(SymbolInfoHandler)
        /\ Free(SymbolThumbHandler) /\ Free(SymbolThumbTrendHandler)
        /\ Free(UsdRateHandler)
    BY OneCallFits, RpcsAreOpen DEF CoinInfoHandler, HistoryHandler, SymbolInfoHandler,
       SymbolThumbHandler, SymbolThumbTrendHandler, UsdRateHandler, CoinInfoLogic,
       HistoryLogic, SymbolInfoLogic, SymbolThumbLogic, SymbolThumbTrendLogic, UsdRateLogic
  <1>2. /\ Fits(AddHandler) /\ Fits(CurrentHandler) /\ Fits(ExchangeHistoryHandler)
    BY OneCallFits, RpcsAreOpen DEF AddHandler, CurrentHandler, ExchangeHistoryHandler,
       AddLogic, CurrentLogic, ExchangeHistoryLogic
  <1>3. Free(SendCodeHandler) /\ Free(RegisterHandler) /\ Free(LoginHandler)
    BY OneCallFits, RpcsAreOpen DEF SendCodeHandler, RegisterHandler, LoginHandler,
       SendCodeLogic, RegisterLogic, LoginLogic
  <1>4. Free(CheckLoginHandler)
    <2> DEFINE calls == <<>>
    <2>1. calls \in Seq(Servers) /\ Len(calls) <= 2 /\ DOMAIN calls = {}
      OBVIOUS
    <2>2. Free(Handler(Logic(calls), FALSE))
      <3> HIDE DEF calls
      <3> QED
        BY <2>1, FlatLogicFits, HandlerLogic DEF Fits, Free
    <2> QED
      BY <2>2 DEF CheckLoginHandler, CheckLoginLogic
  <1>5. /\ Fits(SecuritySettingHandler) /\ Fits(FindTransactionHandler)
        /\ Fits(FindWalletHandler) /\ Fits(ResetAddressHandler)
        /\ Fits(FindWalletBySymbolHandler) /\ Fits(WithdrawCodeHandler)
        /\ Fits(WithdrawRecordHandler)
    BY OneCallFits, RpcsAreOpen DEF SecuritySettingHandler, FindTransactionHandler,
       FindWalletHandler, ResetAddressHandler, FindWalletBySymbolHandler,
       WithdrawCodeHandler, WithdrawRecordHandler, SecuritySettingLogic,
       FindTransactionLogic, FindWalletLogic, ResetAddressLogic, FindWalletBySymbolLogic,
       WithdrawCodeLogic, WithdrawRecordLogic
  <1>6. Fits(SendWithdrawCodeHandler)
    <2> DEFINE calls == <<FindMemberByIdRpc, SendWithdrawCodeRpc>>
    <2>1. calls \in Seq(Servers) /\ Len(calls) <= 2
      BY RpcsAreServed, RpcsAreOpen
    <2>2. Fits(Handler(Logic(calls), FALSE))
      <3> HIDE DEF calls
      <3> QED
        BY <2>1, FlatLogicFits, HandlerLogic DEF Fits, Free
    <2> QED
      BY <2>2 DEF SendWithdrawCodeHandler, SendWithdrawCodeLogic
  <1>7. Fits(QueryWithdrawCoinHandler)
    BY QueryFits, HandlerLogic DEF Fits, QueryWithdrawCoinHandler
  <1>8. CASE route \in MarketRoutes
    <2>1. Free(route.handler) /\ route.auth = FALSE
      BY <1>1, <1>8 DEF MarketRoutes, Routes
    <2> QED
      BY <2>1 DEF Fits, Free
  <1>9. CASE route \in ExchangeRoutes
    <2>1. Fits(route.handler) /\ route.auth = TRUE
      BY <1>2, <1>9 DEF ExchangeRoutes, Routes
    <2> QED
      BY <2>1 DEF Fits
  <1>10. CASE route \in UcenterRoutes
    <2>1. \/ Free(route.handler) /\ route.auth = FALSE
          \/ Fits(route.handler) /\ route.auth = TRUE
      BY <1>3, <1>4, <1>5, <1>6, <1>7, <1>10 DEF UcenterRoutes, Routes
    <2> QED
      BY <2>1 DEF Fits, Free
  <1> QED
    BY <1>8, <1>9, <1>10 DEF AllRoutes

(* The gateway's invariant. *)

Users == Members \cup {Nobody}
PastParse == {"check", "call", "wait"}
AtCalls == {"call", "wait"}

GatewayTypes ==
    /\ asked \in Seq(Request) /\ Len(asked) <= MaxRequests
    /\ rpc \in [pc : {"auth", "parse", "check", "call", "wait", "done"},
                user : Users, call : 1..(MaxWallets + 3)]
    /\ effects \in Seq([request : Nat, call : Nat, user : Users])
    /\ flight \subseteq [request : Nat, call : Nat, user : Users]
    /\ answers \in Seq(Codes \cup {"400", "panic"})
    /\ Len(answers) = IF rpc.pc = "done" THEN Asked ELSE Asked - 1

\* A call that was sent: its request was not turned away, it is a call of that request,
\* and it is made for whom that request may be made.
CallOk(c) ==
    /\ c.request \in 1..Asked
    /\ c.call \in DOMAIN CallsOf(asked[c.request])
    /\ Entitled(asked[c.request])
    /\ c.user = ActorOf(asked[c.request], c.call)

CallsOk == /\ \A c \in flight : CallOk(c)
           /\ \A i \in DOMAIN effects : CallOk(effects[i])

\* What is established of the request being served, stage by stage.
StageOk ==
    rpc.pc # "done" =>
        /\ Asked >= 1
        /\ rpc.pc \notin AtCalls => rpc.call = 1
        /\ rpc.pc # "auth" /\ Open.route.auth =>
              Open.token \in Members /\ rpc.user = Open.token
        /\ rpc.pc \in PastParse => Open.parses
        /\ rpc.pc \in AtCalls => Open.valid /\ rpc.call <= Len(CallsOf(Open)) + 1
        /\ rpc.pc = "wait" => rpc.call \in DOMAIN CallsOf(Open)

Carried(n, k) == \E i \in DOMAIN effects : EffectOf(n, k) = {i}

\* A call in flight was not carried out, and the one before it was.
FlightIsNew ==
    \A c \in flight :
        /\ EffectOf(c.request, c.call) = {}
        /\ c.call > 1 => EffectOf(c.request, c.call - 1) # {}

\* The request being served: its calls so far are carried out, and none beyond the one
\* it waits for was made.
CallsInOrder ==
    rpc.pc # "done" =>
        /\ \A k \in 1..(rpc.call - 1) : Carried(Asked, k)
        /\ \A c \in flight : c.request = Asked => rpc.pc = "wait" /\ c.call = rpc.call
        /\ \A i \in DOMAIN effects : effects[i].request = Asked =>
              \/ effects[i].call < rpc.call
              \/ rpc.pc = "wait" /\ effects[i].call = rpc.call

ZeroIsEarned ==
    \A n \in DOMAIN answers : answers[n] = "0" =>
        \A k \in DOMAIN CallsOf(asked[n]) : Carried(n, k)

EffectsInOrder ==
    \A i \in DOMAIN effects : effects[i].call > 1 =>
        \E j \in EffectOf(effects[i].request, effects[i].call - 1) : j < i

GatewayIInv == /\ GatewayTypes /\ CallsOk /\ StageOk /\ FlightIsNew /\ CallsInOrder
               /\ ZeroIsEarned /\ EffectsInOrder

-----------------------------------------------------------------------------
(* What the steps do. *)

Requested ==
    /\ rpc.pc = "done" /\ Asked < MaxRequests
    /\ \E q \in Request : asked' = Append(asked, q)
    /\ rpc' = [pc |-> "auth", user |-> Nobody, call |-> 1]
    /\ UNCHANGED <<flight, effects, answers>>

\* A stage further: from the middleware to the calls.
Passed ==
    /\ rpc.pc # "done" /\ rpc.pc \notin AtCalls
    /\ rpc'.pc \in {"parse", "check", "call"} /\ rpc'.call = rpc.call
    /\ rpc' \in [pc : {"auth", "parse", "check", "call", "wait", "done"},
                 user : Users, call : 1..(MaxWallets + 3)]
    /\ Open.route.auth => Open.token \in Members /\ rpc'.user = Open.token
    /\ rpc'.pc \in PastParse => Open.parses
    /\ rpc'.pc \in AtCalls => Open.valid
    /\ UNCHANGED <<asked, flight, effects, answers>>

Answered(code) ==
    /\ rpc.pc # "done"
    /\ rpc' = PcStart /\ answers' = Append(answers, code)
    /\ code \in Codes \cup {"400", "panic"}
    /\ code = "0" => rpc.pc = "call" /\ rpc.call \notin DOMAIN CallsOf(Open)
    /\ flight' \subseteq flight
    /\ UNCHANGED <<asked, effects>>

Called ==
    /\ rpc.pc = "call" /\ rpc.call \in DOMAIN CallsOf(Open)
    /\ flight' = flight \cup {[request |-> Asked, call |-> rpc.call,
          user |-> IF CallsOf(Open)[rpc.call].actsFor = "member" THEN rpc.user ELSE Nobody]}
    /\ rpc' = [rpc EXCEPT !.pc = "wait"]
    /\ UNCHANGED <<asked, effects, answers>>

Dropped ==
    /\ flight' \subseteq flight
    /\ UNCHANGED <<asked, rpc, effects, answers>>

\* Requests keep to their routes.
LEMMA CallsOfFacts ==
    ASSUME NEW q \in Request
    PROVE  /\ q.route \in AllRoutes /\ q.token \in Users /\ q.wallets \in 0..MaxWallets
           /\ q.route.auth \in BOOLEAN
           /\ CallsOf(q) \in Seq(Servers) /\ Len(CallsOf(q)) <= MaxWallets + 2
           /\ ~q.route.auth => \A k \in DOMAIN CallsOf(q) : CallsOf(q)[k].actsFor = "anyone"
  <1>1. q.route \in AllRoutes /\ q.token \in Users /\ q.wallets \in 0..MaxWallets
    BY DEF Request, Users
  <1> QED
    BY <1>1, RoutesFit DEF CallsOf, CallsFit, ForAnyone

\* While a request is served there is one, and every earlier one was answered.
LEMMA OpenFacts ==
    ASSUME GatewayTypes, StageOk, rpc.pc # "done"
    PROVE  /\ Asked \in DOMAIN asked /\ Asked \in 1..Asked /\ Open \in Request
           /\ Len(answers) = Asked - 1
  <1>1. asked \in Seq(Request) /\ Asked >= 1 /\ Len(answers) = Asked - 1
    BY DEF GatewayTypes, StageOk
  <1>2. Asked \in DOMAIN asked /\ Asked \in 1..Asked
    BY <1>1 DEF Asked
  <1> QED
    BY <1>1, <1>2 DEF Open

\* Every step is one of these, or a service that carries a call out.
LEMMA GatewaySteps ==
    ASSUME GatewayTypes, StageOk, GatewayNext
    PROVE  \/ Requested \/ Passed \/ Called \/ Dropped
           \/ \E code : Answered(code)
           \/ \E c \in flight : ServeCall(c)
  <1>1. CASE Send
    BY <1>1 DEF Send, Requested, PcStart
  <1>2. ASSUME NEW code \in Codes \cup {"400", "panic"}, code # "0", rpc.pc # "done",
               Answer(code), flight' \subseteq flight, UNCHANGED <<asked, effects>>
        PROVE  Answered(code)
    BY <1>2 DEF Answer, Answered
  <1>3. \A h : Deal(h) \in Codes \cup {"400", "panic"} /\ Deal(h) # "0"
    BY DEF Deal, Codes
  <1>r. rpc \in [pc : {"auth", "parse", "check", "call", "wait", "done"},
                 user : Users, call : 1..(MaxWallets + 3)]
    BY DEF GatewayTypes
  <1>4. CASE AuthMiddleware
    <2>1. Open \in Request /\ Open.route.auth \in BOOLEAN /\ Open.token \in Users
      BY <1>4, OpenFacts, CallsOfFacts DEF AuthMiddleware
    <2>2. CASE ~Open.route.auth
      BY <1>4, <1>r, <2>2 DEF AuthMiddleware, MoveTo, Passed, AtCalls, PastParse
    <2>3. CASE Open.route.auth /\ Open.token = Nobody
      <3>1. "4000" \in Codes /\ "4000" # "0"
        BY DEF Codes
      <3> QED
        BY <1>2, <1>4, <2>3, <3>1 DEF AuthMiddleware
    <2>4. CASE Open.route.auth /\ Open.token # Nobody
      <3>1. /\ rpc' = [rpc EXCEPT !.pc = "parse", !.user = Open.token]
            /\ rpc.pc = "auth" /\ UNCHANGED <<asked, flight, effects, answers>>
        BY <1>4, <2>4 DEF AuthMiddleware
      <3>2. Open.token \in Members
        BY <2>1, <2>4 DEF Users
      <3> DEFINE mid == [rpc EXCEPT !.pc = "parse"]
                 token == Open.token
      <3>3. /\ mid \in [pc : {"auth", "parse", "check", "call", "wait", "done"},
                        user : Users, call : 1..(MaxWallets + 3)]
            /\ mid.pc = "parse" /\ mid.call = rpc.call
        BY <1>r
      <3>4. rpc' = [mid EXCEPT !.user = token] /\ token \in Users
        BY <1>r, <2>1, <3>1
      <3>5. /\ rpc' \in [pc : {"auth", "parse", "check", "call", "wait", "done"},
                         user : Users, call : 1..(MaxWallets + 3)]
            /\ rpc'.pc = "parse" /\ rpc'.call = rpc.call /\ rpc'.user = token
        <4> HIDE DEF mid, token
        <4> QED
          BY <3>3, <3>4
      <3> QED
        BY <3>1, <3>2, <3>5 DEF Passed, AtCalls, PastParse
    <2> QED
      BY <2>1, <2>2, <2>3, <2>4
  <1>5. CASE ParseRequest
    <2>1. CASE Open.parses
      BY <1>5, <1>r, <2>1 DEF ParseRequest, MoveTo, Passed, AtCalls, PastParse, StageOk
    <2>2. CASE ~Open.parses
      BY <1>2, <1>5, <2>2 DEF ParseRequest
    <2> QED
      BY <2>1, <2>2
  <1>6. CASE CheckRequest
    <2>1. CASE Open.valid
      BY <1>6, <1>r, <2>1 DEF CheckRequest, MoveTo, Passed, AtCalls, PastParse, StageOk
    <2>2. CASE ~Open.valid
      BY <1>2, <1>3, <1>6, <2>2 DEF CheckRequest
    <2> QED
      BY <2>1, <2>2
  <1>7. CASE CallNext
    <2>1. CASE rpc.call \in DOMAIN CallsOf(Open)
      BY <1>7, <2>1 DEF CallNext, MoveTo, Called
    <2>2. CASE rpc.call \notin DOMAIN CallsOf(Open)
      BY <1>7, <2>2 DEF CallNext, Answer, Answered, Codes
    <2> QED
      BY <2>1, <2>2
  <1>8. CASE CoinMissing
    BY <1>2, <1>3, <1>8 DEF CoinMissing
  <1>9. CASE Deadline
    BY <1>2, <1>3, <1>9 DEF Deadline
  <1>10. ASSUME NEW c \in flight, FailCall(c) PROVE Dropped \/ \E code : Answered(code)
    <2>1. CASE Awaited(c)
      BY <1>2, <1>3, <1>10, <2>1 DEF FailCall, OnError, Awaited
    <2>2. CASE ~Awaited(c)
      BY <1>10, <2>2 DEF FailCall, Dropped
    <2> QED
      BY <2>1, <2>2
  <1> QED
    BY <1>1, <1>4, <1>5, <1>6, <1>7, <1>8, <1>9, <1>10 DEF GatewayNext, GatewayStep

\* What is carried out stays so, and grows by one at most.
LEMMA EffectOfAppend ==
    ASSUME effects \in Seq([request : Nat, call : Nat, user : Users]),
           NEW c \in [request : Nat, call : Nat, user : Users],
           effects' = Append(effects, c), NEW n, NEW k
    PROVE  /\ EffectOf(n, k) \subseteq 1..Len(effects)
           /\ n = c.request /\ k = c.call =>
                EffectOf(n, k)' = EffectOf(n, k) \cup {Len(effects) + 1}
           /\ ~(n = c.request /\ k = c.call) => EffectOf(n, k)' = EffectOf(n, k)
  <1>1. /\ Len(effects) \in Nat /\ DOMAIN effects = 1..Len(effects)
        /\ DOMAIN effects' = 1..(Len(effects) + 1)
        /\ \A i \in 1..Len(effects) : effects'[i] = effects[i]
        /\ effects'[Len(effects) + 1] = c
    OBVIOUS
  <1> QED
    BY <1>1 DEF EffectOf

\* The requests before the last one keep what they are.
LEMMA AskedAppend ==
    ASSUME GatewayTypes, NEW q \in Request, asked' = Append(asked, q)
    PROVE  /\ asked' \in Seq(Request) /\ Asked' = Asked + 1 /\ Asked \in Nat
           /\ \A n \in 1..Asked : asked'[n] = asked[n]
           /\ Open' = q
  BY DEF GatewayTypes, Asked, Open

\* A request more changes nothing about the calls of the others.
LEMMA KeptCall ==
    ASSUME NEW c, CallOk(c), Asked' \in Nat, Asked \in Nat, Asked <= Asked',
           \A n \in 1..Asked : asked'[n] = asked[n]
    PROVE  CallOk(c)'
  <1>1. asked'[c.request] = asked[c.request] /\ c.request \in 1..Asked'
    BY DEF CallOk
  <1> QED
    BY <1>1 DEF CallOk, CallsOf, Entitled, ActorOf

\* A new request has no calls yet.
LEMMA RequestedKeeps ==
    ASSUME GatewayIInv, Requested PROVE GatewayIInv'
  <1> USE DEF GatewayIInv
  <1>1. PICK q \in Request : asked' = Append(asked, q)
    BY DEF Requested
  <1>2. /\ asked' \in Seq(Request) /\ Asked' = Asked + 1 /\ Asked \in Nat
        /\ \A n \in 1..Asked : asked'[n] = asked[n]
        /\ Open' = q
    BY <1>1, AskedAppend
  <1>3. /\ rpc.pc = "done" /\ Asked < MaxRequests
        /\ rpc' = [pc |-> "auth", user |-> Nobody, call |-> 1]
        /\ UNCHANGED <<flight, effects, answers>>
    BY DEF Requested
  <1>4. MaxWallets \in Nat /\ MaxRequests \in Nat
    BY GatewayConstants
  <1>5. GatewayTypes'
    <2>1. rpc' \in [pc : {"auth", "parse", "check", "call", "wait", "done"},
                    user : Users, call : 1..(MaxWallets + 3)]
      BY <1>3, <1>4 DEF Users
    <2>2. Len(answers)' = Asked' - 1 /\ Len(asked') <= MaxRequests
      BY <1>2, <1>3, <1>4 DEF GatewayTypes, Asked
    <2> QED
      BY <1>2, <1>3, <2>1, <2>2 DEF GatewayTypes
  <1>6. CallsOk'
    BY <1>2, <1>3, KeptCall DEF CallsOk
  <1>7. StageOk'
    BY <1>2, <1>3 DEF StageOk, AtCalls, PastParse
  <1>8. FlightIsNew' /\ EffectsInOrder'
    BY <1>3 DEF FlightIsNew, EffectsInOrder, EffectOf
  <1>9. CallsInOrder'
    <2>1. \A c \in flight : c.request # Asked'
      BY <1>2 DEF CallsOk, CallOk
    <2>2. \A i \in DOMAIN effects : effects[i].request # Asked'
      BY <1>2 DEF CallsOk, CallOk
    <2>3. 1..(rpc'.call - 1) = {}
      BY <1>3
    <2> QED
      BY <1>3, <2>1, <2>2, <2>3 DEF CallsInOrder
  <1>10. ZeroIsEarned'
    <2>1. DOMAIN answers = 1..Asked
      BY <1>2, <1>3 DEF GatewayTypes
    <2>2. \A n \in DOMAIN answers : CallsOf(asked'[n]) = CallsOf(asked[n])
      BY <1>2, <2>1
    <2> QED
      BY <1>3, <2>2 DEF ZeroIsEarned, Carried, EffectOf
  <1> QED
    BY <1>5, <1>6, <1>7, <1>8, <1>9, <1>10

\* A stage further: nothing is called before the checks are over.
LEMMA PassedKeeps ==
    ASSUME GatewayIInv, Passed PROVE GatewayIInv'
  <1> USE DEF GatewayIInv
  <1>1. /\ UNCHANGED <<asked, flight, effects, answers>>
        /\ rpc.pc # "done" /\ rpc.pc \notin AtCalls
        /\ rpc'.pc \in {"parse", "check", "call"} /\ rpc'.call = 1 /\ rpc.call = 1
    BY DEF Passed, StageOk
  <1>2. GatewayTypes'
    BY <1>1 DEF Passed, GatewayTypes, Asked
  <1>3. CallsOk' /\ FlightIsNew' /\ EffectsInOrder' /\ ZeroIsEarned'
    <2>1. CallsOk'
      BY <1>1 DEF CallsOk, CallOk, Asked
    <2>2. FlightIsNew' /\ EffectsInOrder'
      BY <1>1 DEF FlightIsNew, EffectsInOrder, EffectOf
    <2>3. ZeroIsEarned'
      BY <1>1 DEF ZeroIsEarned, Carried, EffectOf
    <2> QED
      BY <2>1, <2>2, <2>3
  <1>4. StageOk'
    <2>1. Open' = Open /\ Asked' = Asked
      BY <1>1 DEF Open, Asked
    <2>2. Len(CallsOf(Open)) \in Nat
      BY <1>1, OpenFacts, CallsOfFacts
    <2> QED
      BY <1>1, <2>1, <2>2 DEF Passed, StageOk, AtCalls
  <1>5. CallsInOrder'
    <2>1. 1..(rpc'.call - 1) = {} /\ Asked' = Asked
      BY <1>1 DEF Asked
    <2>2. \A c \in flight : c.request # Asked
      BY <1>1 DEF CallsInOrder, AtCalls
    <2>3. \A i \in DOMAIN effects : effects[i].request = Asked => effects[i].call < rpc.call
      BY <1>1 DEF CallsInOrder, AtCalls
    <2> QED
      BY <1>1, <2>1, <2>2, <2>3 DEF CallsInOrder
  <1> QED
    BY <1>2, <1>3, <1>4, <1>5

\* An answer ends the request; its calls may still be in flight.
LEMMA AnsweredKeeps ==
    ASSUME GatewayIInv, NEW code, Answered(code) PROVE GatewayIInv'
  <1> USE DEF GatewayIInv
  <1>1. /\ UNCHANGED <<asked, effects>> /\ flight' \subseteq flight
        /\ answers' = Append(answers, code) /\ rpc.pc # "done"
        /\ code \in Codes \cup {"400", "panic"}
        /\ rpc' = [pc |-> "done", user |-> Nobody, call |-> 1] /\ Asked' = Asked
    BY DEF Answered, PcStart, Asked
  <1>2. GatewayTypes'
    <2>1. rpc' \in [pc : {"auth", "parse", "check", "call", "wait", "done"},
                    user : Users, call : 1..(MaxWallets + 3)]
      BY <1>1, GatewayConstants DEF Users
    <2>2. answers' \in Seq(Codes \cup {"400", "panic"}) /\ Len(answers') = Len(answers) + 1
          /\ Len(answers) = Asked - 1 /\ Asked \in Nat
      BY <1>1 DEF GatewayTypes, Asked
    <2> QED
      BY <1>1, <2>1, <2>2 DEF GatewayTypes
  <1>3. CallsOk' /\ FlightIsNew' /\ EffectsInOrder'
    BY <1>1 DEF CallsOk, CallOk, Asked, FlightIsNew, EffectsInOrder, EffectOf
  <1>4. StageOk' /\ CallsInOrder'
    BY <1>1 DEF StageOk, CallsInOrder
  <1>5. ZeroIsEarned'
    <2>1. /\ Asked \in DOMAIN asked /\ Open \in Request /\ Asked = Len(answers) + 1
          /\ answers \in Seq(Codes \cup {"400", "panic"})
      BY <1>1, OpenFacts DEF GatewayTypes
    <2>2. DOMAIN answers' = DOMAIN answers \cup {Asked}
          /\ answers'[Asked] = code
          /\ \A n \in DOMAIN answers : n # Asked /\ answers'[n] = answers[n]
      BY <1>1, <2>1
    <2>3. ASSUME code = "0" PROVE \A k \in DOMAIN CallsOf(Open) : Carried(Asked, k)
      <3>1. rpc.pc = "call" /\ rpc.call \notin DOMAIN CallsOf(Open)
        BY <2>3 DEF Answered
      <3>2. CallsOf(Open) \in Seq(Servers) /\ rpc.call \in Nat \ {0}
        BY <2>1, CallsOfFacts, GatewayConstants DEF GatewayTypes
      <3>3. DOMAIN CallsOf(Open) \subseteq 1..(rpc.call - 1)
        BY <3>1, <3>2
      <3> QED
        BY <1>1, <3>3 DEF CallsInOrder
    <2>4. \A n, k : Carried(n, k)' = Carried(n, k)
      BY <1>1 DEF Carried, EffectOf
    <2> QED
      BY <1>1, <2>2, <2>3, <2>4 DEF ZeroIsEarned, Open
  <1> QED
    BY <1>2, <1>3, <1>4, <1>5

\* Every element of the history is a call.
LEMMA EffectsAreCalls ==
    ASSUME effects \in Seq([request : Nat, call : Nat, user : Users]),
           NEW i \in DOMAIN effects
    PROVE  effects[i] \in [request : Nat, call : Nat, user : Users]
  <1> DEFINE S == [request : Nat, call : Nat, user : Users]
  <1>1. effects \in Seq(S)
    OBVIOUS
  <1> HIDE DEF S
  <1>2. effects[i] \in S
    BY <1>1
  <1> QED
    BY <1>2 DEF S

\* A call that fails, with nobody waiting for it, leaves the rest as it is.
LEMMA DroppedKeeps ==
    ASSUME GatewayIInv, Dropped PROVE GatewayIInv'
  <1> USE DEF GatewayIInv
  <1>1. UNCHANGED <<asked, rpc, effects, answers>> /\ flight' \subseteq flight
    BY DEF Dropped
  <1>2. GatewayTypes'
    BY <1>1 DEF GatewayTypes, Asked
  <1>3. CallsOk'
    BY <1>1 DEF CallsOk, CallOk, Asked
  <1>4. StageOk'
    BY <1>1 DEF StageOk, Asked, Open
  <1>5. FlightIsNew' /\ EffectsInOrder'
    BY <1>1 DEF FlightIsNew, EffectsInOrder, EffectOf
  <1>6. CallsInOrder'
    BY <1>1 DEF CallsInOrder, Carried, EffectOf, Asked
  <1>7. ZeroIsEarned'
    BY <1>1 DEF ZeroIsEarned, Carried, EffectOf
  <1> QED
    BY <1>2, <1>3, <1>4, <1>5, <1>6, <1>7

\* A call that is sent was not sent before: a logic makes its calls in order.
LEMMA CalledKeeps ==
    ASSUME GatewayIInv, Called PROVE GatewayIInv'
  <1> USE DEF GatewayIInv
  <1> DEFINE user == IF CallsOf(Open)[rpc.call].actsFor = "member" THEN rpc.user ELSE Nobody
             new == [request |-> Asked, call |-> rpc.call, user |-> user]
  <1>1. /\ rpc.pc = "call" /\ rpc.call \in DOMAIN CallsOf(Open)
        /\ flight' = flight \cup {new}
        /\ rpc' = [rpc EXCEPT !.pc = "wait"]
        /\ UNCHANGED <<asked, effects, answers>>
    BY DEF Called
  <1>2. /\ Asked \in DOMAIN asked /\ Asked \in 1..Asked /\ Open \in Request
        /\ Asked \in Nat
    BY <1>1, OpenFacts DEF GatewayTypes, Asked
  <1>3. /\ rpc \in [pc : {"auth", "parse", "check", "call", "wait", "done"},
                    user : Users, call : 1..(MaxWallets + 3)]
        /\ rpc.call \in Nat /\ rpc.call >= 1
    BY GatewayConstants DEF GatewayTypes
  <1>4. /\ rpc' \in [pc : {"auth", "parse", "check", "call", "wait", "done"},
                     user : Users, call : 1..(MaxWallets + 3)]
        /\ rpc'.pc = "wait" /\ rpc'.user = rpc.user /\ rpc'.call = rpc.call
    BY <1>1, <1>3
  <1>5. user \in Users /\ new.request = Asked /\ new.call = rpc.call /\ new.user = user
        /\ new \in [request : Nat, call : Nat, user : Users]
    <2>1. user \in Users
      BY <1>3 DEF Users
    <2> HIDE DEF user
    <2> QED
      BY <1>2, <1>3, <2>1
  <1>6. CallOk(new)
    <2>1. Open.route.auth => Open.token \in Members /\ rpc.user = Open.token
      BY <1>1 DEF StageOk
    <2>2. Open.parses /\ Open.valid
      BY <1>1 DEF StageOk, PastParse, AtCalls
    <2>3. user = ActorOf(Open, rpc.call)
      BY <1>1, <1>2, <2>1, CallsOfFacts DEF ActorOf
    <2> HIDE DEF new, user
    <2> QED
      BY <1>1, <1>2, <1>5, <2>1, <2>2, <2>3 DEF CallOk, Entitled, Open
  <1> HIDE DEF new, user
  <1>7. GatewayTypes'
    BY <1>1, <1>4, <1>5 DEF GatewayTypes, Asked
  <1>8. CallsOk'
    <2>1. ASSUME NEW c, CallOk(c) PROVE CallOk(c)'
      BY <1>1, <2>1 DEF CallOk, CallsOf, Entitled, ActorOf, Asked
    <2>2. \A e : CallOk(e) => CallOk(e)'
      BY <2>1
    <2> QED
      BY <1>1, <1>6, <2>2 DEF CallsOk
  <1>9. StageOk'
    <2>1. Open' = Open /\ Asked' = Asked
      BY <1>1 DEF Open, Asked
    <2> QED
      BY <1>1, <1>4, <2>1 DEF StageOk, AtCalls, PastParse
  <1>10. FlightIsNew'
    <2>1. EffectOf(Asked, rpc.call) = {}
      BY <1>1, <1>3 DEF CallsInOrder, EffectOf
    <2>2. rpc.call > 1 => EffectOf(Asked, rpc.call - 1) # {}
      BY <1>1, <1>3 DEF CallsInOrder, Carried
    <2>3. \A n, k : EffectOf(n, k)' = EffectOf(n, k)
      BY <1>1 DEF EffectOf
    <2> QED
      BY <1>1, <1>5, <2>1, <2>2, <2>3 DEF FlightIsNew
  <1>11. CallsInOrder'
    <2>1. Asked' = Asked /\ \A n, k : Carried(n, k)' = Carried(n, k)
      BY <1>1 DEF Asked, Carried, EffectOf
    <2>2. \A c \in flight : c.request # Asked
      BY <1>1 DEF CallsInOrder
    <2>3. \A i \in DOMAIN effects : effects[i].request = Asked => effects[i].call < rpc.call
      BY <1>1 DEF CallsInOrder
    <2>4. \A k \in 1..(rpc.call - 1) : Carried(Asked, k)
      BY <1>1 DEF CallsInOrder
    <2>5. \A c \in flight' : c.request = Asked => c.call = rpc.call
      BY <1>1, <1>5, <2>2
    <2> QED
      BY <1>1, <1>4, <2>1, <2>3, <2>4, <2>5 DEF CallsInOrder
  <1>12. ZeroIsEarned' /\ EffectsInOrder'
    <2>1. ZeroIsEarned'
      BY <1>1 DEF ZeroIsEarned, Carried, EffectOf
    <2>2. EffectsInOrder'
      BY <1>1 DEF EffectsInOrder, EffectOf
    <2> QED
      BY <2>1, <2>2
  <1> QED
    BY <1>7, <1>8, <1>9, <1>10, <1>11, <1>12

\* A call that is carried out, for the first time, after the one before it.
LEMMA ServedKeeps ==
    ASSUME GatewayIInv, NEW c \in flight, ServeCall(c) PROVE GatewayIInv'
  <1> USE DEF GatewayIInv
  <1>1. /\ flight' = flight \ {c} /\ effects' = Append(effects, c)
        /\ UNCHANGED <<asked, answers>> /\ Asked' = Asked
        /\ \/ Awaited(c) /\ rpc' = [rpc EXCEPT !.pc = "call", !.call = @ + 1]
           \/ UNCHANGED rpc
    BY DEF ServeCall, Asked
  <1>2. /\ c \in [request : Nat, call : Nat, user : Users] /\ CallOk(c)
        /\ effects \in Seq([request : Nat, call : Nat, user : Users])
        /\ EffectOf(c.request, c.call) = {}
        /\ c.call > 1 => EffectOf(c.request, c.call - 1) # {}
    BY DEF GatewayTypes, CallsOk, FlightIsNew
  <1>3. /\ DOMAIN effects' = DOMAIN effects \cup {Len(effects) + 1}
        /\ \A i \in DOMAIN effects : effects'[i] = effects[i]
        /\ effects'[Len(effects) + 1] = c
        /\ DOMAIN effects = 1..Len(effects) /\ Len(effects) \in Nat
    BY <1>1, <1>2
  <1>4. ASSUME NEW n, NEW k
        PROVE  /\ EffectOf(n, k) \subseteq 1..Len(effects)
               /\ n = c.request /\ k = c.call =>
                    EffectOf(n, k)' = {Len(effects) + 1} /\ Carried(n, k)'
               /\ ~(n = c.request /\ k = c.call) => EffectOf(n, k)' = EffectOf(n, k)
               /\ Carried(n, k) => Carried(n, k)'
    <2>1. /\ EffectOf(n, k) \subseteq 1..Len(effects)
          /\ n = c.request /\ k = c.call => EffectOf(n, k)' = {Len(effects) + 1}
          /\ ~(n = c.request /\ k = c.call) => EffectOf(n, k)' = EffectOf(n, k)
      BY <1>1, <1>2, EffectOfAppend
    <2> QED
      BY <1>2, <1>3, <2>1 DEF Carried
  \* The effects afterwards.
  <1> DEFINE Later(n, k) ==
               {j \in DOMAIN effects' : effects'[j].request = n /\ effects'[j].call = k}
             CarriedLater(n, k) == \E i \in DOMAIN effects' : Later(n, k) = {i}
  <1>15. ASSUME NEW n, NEW k
         PROVE  /\ EffectOf(n, k) \subseteq Later(n, k)
                /\ n = c.request /\ k = c.call => CarriedLater(n, k)
                /\ Carried(n, k) => CarriedLater(n, k)
    <2>1. EffectOf(n, k)' = Later(n, k) /\ Carried(n, k)' = CarriedLater(n, k)
      BY DEF EffectOf, Carried
    <2>2. n = c.request /\ k = c.call => EffectOf(n, k) = {}
      BY <1>2
    <2> HIDE DEF Later, CarriedLater
    <2> QED
      BY <1>4, <2>1, <2>2
  <1>16. CallsInOrder' <=>
           (rpc'.pc # "done" =>
             /\ \A k \in 1..(rpc'.call - 1) : CarriedLater(Asked', k)
             /\ \A d \in flight' : d.request = Asked' => rpc'.pc = "wait" /\ d.call = rpc'.call
             /\ \A i \in DOMAIN effects' : effects'[i].request = Asked' =>
                   \/ effects'[i].call < rpc'.call
                   \/ rpc'.pc = "wait" /\ effects'[i].call = rpc'.call)
    BY DEF CallsInOrder, Carried, EffectOf
  <1>17. EffectsInOrder' <=>
           \A i \in DOMAIN effects' : effects'[i].call > 1 =>
             \E j \in Later(effects'[i].request, effects'[i].call - 1) : j < i
    BY DEF EffectsInOrder, EffectOf
  <1> HIDE DEF Later, CarriedLater
  <1>18. \A i \in DOMAIN effects : effects[i].call \in Nat
    <2> SUFFICES ASSUME NEW i \in DOMAIN effects PROVE effects[i].call \in Nat
      OBVIOUS
    <2>1. effects[i] \in [request : Nat, call : Nat, user : Users]
      BY <1>2, EffectsAreCalls
    <2> QED
      BY <2>1
  <1>5. /\ rpc \in [pc : {"auth", "parse", "check", "call", "wait", "done"},
                    user : Users, call : 1..(MaxWallets + 3)]
        /\ rpc.call \in Nat /\ rpc.call >= 1
    BY GatewayConstants DEF GatewayTypes
  \* The answer reaches the logic, which goes on.
  <1>6. ASSUME Awaited(c), rpc' # rpc
        PROVE  /\ rpc.pc = "wait" /\ rpc'.pc = "call" /\ rpc'.user = rpc.user
               /\ rpc'.call = rpc.call + 1
               /\ c.request = Asked /\ c.call = rpc.call
               /\ Open \in Request /\ rpc.call \in DOMAIN CallsOf(Open)
               /\ rpc.call <= Len(CallsOf(Open)) /\ Len(CallsOf(Open)) \in Nat
               /\ rpc' \in [pc : {"auth", "parse", "check", "call", "wait", "done"},
                            user : Users, call : 1..(MaxWallets + 3)]
    <2>1. rpc.pc = "wait" /\ c.request = Asked /\ c.call = rpc.call
      BY <1>6 DEF Awaited
    <2>2. Open \in Request /\ rpc.call \in DOMAIN CallsOf(Open)
      BY <2>1, OpenFacts DEF StageOk
    <2>3. rpc.call <= Len(CallsOf(Open)) /\ Len(CallsOf(Open)) \in Nat
          /\ Len(CallsOf(Open)) <= MaxWallets + 2
      BY <2>2, CallsOfFacts
    <2> DEFINE next == rpc.call + 1
               mid == [rpc EXCEPT !.pc = "call"]
    <2>4. next \in 1..(MaxWallets + 3) /\ next = rpc.call + 1
      BY <1>5, <2>3, GatewayConstants
    <2>5. /\ mid \in [pc : {"auth", "parse", "check", "call", "wait", "done"},
                      user : Users, call : 1..(MaxWallets + 3)]
          /\ mid.pc = "call" /\ mid.user = rpc.user
      BY <1>5
    <2>6. rpc' = [mid EXCEPT !.call = next]
      BY <1>1, <1>5, <1>6
    <2> HIDE DEF next, mid
    <2> QED
      BY <2>1, <2>2, <2>3, <2>4, <2>5, <2>6
  <1>7. rpc' = rpc \/ (Awaited(c) /\ rpc' # rpc)
    BY <1>1
  <1>8. GatewayTypes'
    <2>1. effects' \in Seq([request : Nat, call : Nat, user : Users])
      BY <1>1, <1>2
    <2>2. /\ rpc' \in [pc : {"auth", "parse", "check", "call", "wait", "done"},
                       user : Users, call : 1..(MaxWallets + 3)]
          /\ rpc'.pc = "done" <=> rpc.pc = "done"
      BY <1>5, <1>6, <1>7
    <2> QED
      BY <1>1, <2>1, <2>2 DEF GatewayTypes
  <1>9. CallsOk'
    <2>1. \A e : CallOk(e) => CallOk(e)'
      BY <1>1 DEF CallOk
    <2> QED
      BY <1>1, <1>2, <1>3, <2>1 DEF CallsOk
  <1>10. StageOk'
    <2>1. Open' = Open
      BY <1>1 DEF Open
    <2>2. CASE rpc' = rpc
      BY <1>1, <2>1, <2>2 DEF StageOk
    <2>3. CASE Awaited(c) /\ rpc' # rpc
      BY <1>1, <1>5, <1>6, <2>1, <2>3 DEF StageOk, AtCalls, PastParse
    <2> QED
      BY <1>7, <2>2, <2>3
  <1>11. FlightIsNew'
    <2> SUFFICES ASSUME NEW d \in flight, d # c
                 PROVE  /\ EffectOf(d.request, d.call)' = {}
                        /\ d.call > 1 => EffectOf(d.request, d.call - 1)' # {}
      BY <1>1 DEF FlightIsNew
    <2>1. ~(d.request = c.request /\ d.call = c.call)
      <3> SUFFICES ASSUME d.request = c.request, d.call = c.call PROVE FALSE
        OBVIOUS
      <3>1. CallOk(d) /\ d \in [request : Nat, call : Nat, user : Users]
        BY DEF CallsOk, GatewayTypes
      <3>2. d.user = c.user
        BY <1>2, <3>1 DEF CallOk
      <3> QED
        BY <1>2, <3>1, <3>2
    <2>2. /\ EffectOf(d.request, d.call) = {}
          /\ d.call > 1 => EffectOf(d.request, d.call - 1) # {}
      BY DEF FlightIsNew
    <2> QED
      BY <1>4, <2>1, <2>2
  <1>12. CallsInOrder'
    <2>1. CASE rpc' = rpc
      <3> SUFFICES ASSUME rpc.pc # "done" PROVE CallsInOrder'
        BY <1>16, <2>1
      <3>1. \A k \in 1..(rpc.call - 1) : CarriedLater(Asked, k)
        BY <1>15 DEF CallsInOrder
      <3>3. \A i \in DOMAIN effects : effects[i].request = Asked =>
                \/ effects[i].call < rpc.call
                \/ rpc.pc = "wait" /\ effects[i].call = rpc.call
        BY DEF CallsInOrder
      <3>4. \A d \in flight : d.request = Asked => rpc.pc = "wait" /\ d.call = rpc.call
        BY DEF CallsInOrder
      <3>2. c.request = Asked => rpc.pc = "wait" /\ c.call = rpc.call
        BY DEF CallsInOrder
      <3> QED
        BY <1>1, <1>3, <1>16, <2>1, <3>1, <3>2, <3>3, <3>4
    <2>2. CASE Awaited(c) /\ rpc' # rpc
      <3>1. \A k \in 1..rpc.call : CarriedLater(Asked, k)
        <4> SUFFICES ASSUME NEW CONSTANT k \in 1..rpc.call PROVE CarriedLater(Asked, k)
          OBVIOUS
        <4>1. CASE k = rpc.call
          BY <1>6, <1>15, <2>2, <4>1
        <4>2. CASE k # rpc.call
          <5>1. k \in 1..(rpc.call - 1) /\ rpc.pc # "done"
            BY <1>5, <1>6, <2>2, <4>2
          <5>2. Carried(Asked, k)
            BY <5>1 DEF CallsInOrder
          <5> QED
            BY <1>15, <5>2
        <4> QED
          BY <4>1, <4>2
      <3>2. \A d \in flight' : d.request # Asked
        <4> SUFFICES ASSUME NEW d \in flight, d # c, d.request = Asked PROVE FALSE
          BY <1>1
        <4>1. d.call = c.call /\ d.request = c.request
          BY <1>6, <2>2 DEF CallsInOrder
        <4>2. CallOk(d) /\ d \in [request : Nat, call : Nat, user : Users]
          BY DEF CallsOk, GatewayTypes
        <4>3. d.user = c.user
          BY <1>2, <4>1, <4>2 DEF CallOk
        <4> QED
          BY <1>2, <4>1, <4>2, <4>3
      <3>3. \A i \in DOMAIN effects : effects[i].request = Asked =>
                effects[i].call < rpc.call + 1
        <4> SUFFICES ASSUME NEW i \in DOMAIN effects, effects[i].request = Asked
                     PROVE  effects[i].call < rpc.call + 1
          OBVIOUS
        <4>1. effects[i].call <= rpc.call
          BY <1>5, <1>6, <1>18, <2>2 DEF CallsInOrder
        <4> QED
          BY <1>5, <1>18, <4>1
      <3>4. c.call < rpc.call + 1
        BY <1>5, <1>6, <2>2
      <3>5. rpc'.pc = "call" /\ rpc'.call = rpc.call + 1 /\ rpc'.call - 1 = rpc.call
        BY <1>5, <1>6, <2>2
      <3> QED
        BY <1>1, <1>3, <1>16, <3>1, <3>2, <3>3, <3>4, <3>5
    <2> QED
      BY <1>7, <2>1, <2>2
  <1>13. ZeroIsEarned'
    BY <1>1, <1>4 DEF ZeroIsEarned
  <1>14. EffectsInOrder'
    <2>1. ASSUME NEW i \in DOMAIN effects, effects[i].call > 1
          PROVE  \E j \in Later(effects[i].request, effects[i].call - 1) : j < i
      BY <1>15, <2>1 DEF EffectsInOrder
    <2>2. ASSUME c.call > 1
          PROVE  \E j \in Later(c.request, c.call - 1) : j < Len(effects) + 1
      <3>1. PICK j \in EffectOf(c.request, c.call - 1) : TRUE
        BY <1>2, <2>2
      <3>2. j \in 1..Len(effects) /\ j < Len(effects) + 1
        BY <1>3, <1>4
      <3> QED
        BY <1>15, <3>1, <3>2
    <2> QED
      BY <1>3, <1>17, <2>1, <2>2
  <1> QED
    BY <1>8, <1>9, <1>10, <1>11, <1>12, <1>13, <1>14

\* The invariant at the start.
LEMMA GatewayStart == GatewayInit => GatewayIInv
  <1> SUFFICES ASSUME GatewayInit PROVE GatewayIInv
    OBVIOUS
  <1>1. /\ asked = <<>> /\ flight = {} /\ effects = <<>> /\ answers = <<>>
        /\ rpc = [pc |-> "done", user |-> Nobody, call |-> 1]
    BY DEF GatewayInit, PcStart
  <1>2. GatewayTypes
    BY <1>1, GatewayConstants DEF GatewayTypes, Users, Asked
  <1> QED
    BY <1>1, <1>2 DEF GatewayIInv, CallsOk, StageOk, FlightIsNew, CallsInOrder, ZeroIsEarned,
       EffectsInOrder

\* Every step of the specification keeps the invariant.
LEMMA GatewayKeeps == GatewayIInv /\ [Next]_vars => GatewayIInv'
  <1> SUFFICES ASSUME GatewayIInv, GatewayNext \/ UNCHANGED gatewayVars PROVE GatewayIInv'
    BY DEF Next, vars, gatewayVars
  <1>1. CASE UNCHANGED gatewayVars
    BY <1>1, DroppedKeeps DEF gatewayVars, Dropped
  <1>2. CASE GatewayNext
    BY <1>2, GatewaySteps, RequestedKeeps, PassedKeeps, AnsweredKeeps, CalledKeeps,
       DroppedKeeps, ServedKeeps DEF GatewayIInv
  <1> QED
    BY <1>1, <1>2

\* A service carries out, in time or late, only what a request that nothing turned away
\* asked for, in the name of the member of its token.
THEOREM EffectsEntitled == Spec => []EffectsAreEntitled
  <1>1. Init => GatewayIInv
    BY GatewayStart DEF Init
  <1>2. GatewayIInv => EffectsAreEntitled
    BY DEF GatewayIInv, CallsOk, CallOk, EffectsAreEntitled
  <1> QED
    BY <1>1, <1>2, GatewayKeeps, PTL DEF Spec

\* The types hold, and code 0 is given only when every call was carried out once.
THEOREM ZeroEarned == Spec => []GatewayInv
  <1>1. Init => GatewayIInv
    BY GatewayStart DEF Init
  <1>2. ASSUME GatewayIInv PROVE GatewayInv
    <2>a. GatewayTypes /\ CallsOk /\ ZeroIsEarned /\ EffectsInOrder
      BY <1>2 DEF GatewayIInv
    <2>1. GatewayTypeOK
      <3>1. Asked \in 0..MaxRequests /\ \A n \in 1..Asked : asked[n] \in Request
        BY <2>a, GatewayConstants DEF GatewayTypes, Asked
      <3>2. \A e \in {effects[i] : i \in DOMAIN effects} : CallOk(e) /\ e.user \in Users
        <4> SUFFICES ASSUME NEW i \in DOMAIN effects
                     PROVE  CallOk(effects[i]) /\ effects[i].user \in Users
          OBVIOUS
        <4>1. CallOk(effects[i])
          BY <2>a DEF CallsOk
        <4>2. effects[i] \in [request : Nat, call : Nat, user : Users]
          BY <2>a, EffectsAreCalls DEF GatewayTypes
        <4> QED
          BY <4>1, <4>2
      <3>3. \A c \in flight : CallOk(c) /\ c.user \in Users
        BY <2>a DEF CallsOk, GatewayTypes
      <3>4. \A n \in DOMAIN answers : answers[n] \in Codes \cup {"400", "panic"}
        BY <2>a DEF GatewayTypes
      <3> QED
        BY <2>a, <3>1, <3>2, <3>3, <3>4 DEF GatewayTypeOK, GatewayTypes, CallOk, Users
    <2>2. AnswersAreEarned
      <3>1. \A n, k : Carried(n, k) => Cardinality(EffectOf(n, k)) = 1
        BY FS_Singleton DEF Carried
      <3> QED
        BY <2>a, <3>1 DEF ZeroIsEarned, EffectsInOrder, AnswersAreEarned
    <2> QED
      BY <2>1, <2>2 DEF GatewayInv
  <1> QED
    BY <1>1, <1>2, GatewayKeeps, PTL DEF Spec
=============================================================================
