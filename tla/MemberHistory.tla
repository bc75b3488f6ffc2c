---------------------------- MODULE MemberHistory ----------------------------
(***************************************************************************)
(* The two lists a member of ucenter pages through, newest first: asset    *)
(* transactions, by type, symbol and time, and withdrawals.  An answer is  *)
(* a count and a list, two SELECTs; rows may be added before, between and  *)
(* after them, and between two pages.  Rows of one create_time come in any *)
(* order, another one at each SELECT.                                      *)
(* Transactions are written by programs outside the repository, rows of    *)
(* withdraw_record by Apply (see WithdrawApply): both are Record here.     *)
(***************************************************************************)
EXTENDS Integers, Sequences, FiniteSets, TLC, Paging

CONSTANTS
    Kinds,       \* of rows: [memberId, symbol, type], type a code
    DayLength,   \* milliseconds of a day
    Filters,     \* what members ask for
    Sizes,       \* page sizes they ask for; 0: none given
    DefaultSize, \* 10
    MaxTime, MaxRows  \* bounds

ASSUME HistoryConstants ==
    /\ DayLength \in Nat \ {0} /\ DefaultSize \in Nat \ {0}
    /\ MaxTime \in Nat /\ MaxRows \in Nat /\ Sizes \subseteq Int
    /\ \A kind \in Kinds :
         kind = [memberId |-> kind.memberId, symbol |-> kind.symbol, type |-> kind.type]
    /\ \A filter \in Filters : \A raw \in {filter.start, filter.end} :
         raw = <<>> \/ raw \in {"date", "time"} \X Int

VARIABLES
    rows,    \* the table: [memberId, symbol, type, createTime], by id
    time,    \* createTime of the next row
    walk     \* a member paging through a list, from the first page on

historyVars == <<rows, time, walk>>

NotGiven == "not given"  \* an empty parameter of the request

NoFilter == [memberId |-> "none", symbol |-> NotGiven, type |-> NotGiven, start |-> <<>>, end |-> <<>>]
NotWalking == [pc |-> "idle", filter |-> NoFilter, size |-> 0, page |-> 0, total |-> 0,
               seen |-> {}, before |-> 0, late |-> 0]

(***************************************************************************)
(* The WHERE clause.  A type that is no number is an error; a time range   *)
(* needs both ends; a bare date at the end means the last millisecond of   *)
(* the day.  A boundary is <<"date", day>>, <<"time", millis>> or <<>>.    *)
(***************************************************************************)
ParsesType(type) == type = NotGiven \/ type \in {ToString(kind.type) : kind \in Kinds}

ParseBoundaryStart(raw, isEnd) ==  \* mutant: a date at the end means its first millisecond
    IF raw[1] = "date" THEN raw[2] * DayLength ELSE raw[2]

ParseBoundaryMillis(raw, isEnd) ==
    IF raw[1] = "date"
    THEN raw[2] * DayLength + (IF isEnd THEN DayLength - 1 ELSE 0)
    ELSE raw[2]

Where(filter) ==
    {i \in DOMAIN rows :
        /\ rows[i].memberId = filter.memberId
        /\ filter.type # NotGiven => ToString(rows[i].type) = filter.type
        /\ filter.start # <<>> /\ filter.end # <<>> =>
             /\ rows[i].createTime >= ParseBoundaryMillis(filter.start, FALSE)
             /\ rows[i].createTime <= ParseBoundaryMillis(filter.end, TRUE)
        /\ filter.symbol # NotGiven => rows[i].symbol = filter.symbol}

\* ORDER BY create_time DESC
NewestFirst(ids) ==
    {order \in [1..Cardinality(ids) -> ids] :
        /\ \A i, j \in DOMAIN order : i # j => order[i] # order[j]
        /\ \A i, j \in DOMAIN order :
             i < j => rows[order[i]].createTime >= rows[order[j]].createTime}

DefaultPage(pageNo) == IF pageNo <= 0 THEN 1 ELSE pageNo
DefaultPageSize(size) == IF size <= 0 THEN DefaultSize ELSE size

HistoryTypeOK ==
    /\ \A i \in DOMAIN rows :
         /\ \E kind \in Kinds : \A f \in DOMAIN kind : rows[i][f] = kind[f]
         /\ rows[i].createTime \in 0..time
    /\ time \in 0..MaxTime
    /\ walk.pc \in {"idle", "count", "list", "done", "failed"}
    /\ walk.filter \in Filters \cup {NoFilter}
    /\ walk.late \in 0..MaxRows
    /\ walk.seen \subseteq DOMAIN rows /\ walk.before \in 0..Len(rows)

HistoryInit == rows = <<>> /\ time = 0 /\ walk = NotWalking

\* External: a row is written, at the time of the clock or a later one.
Record(kind) ==
    /\ Len(rows) < MaxRows
    /\ \E t \in {time, time + 1} :
         /\ t <= MaxTime
         /\ time' = t
         /\ rows' = Append(rows, [memberId |-> kind.memberId, symbol |-> kind.symbol,
                                  type |-> kind.type, createTime |-> t])
    /\ UNCHANGED walk

\* ucenter-api: the page a member asks first is the first one, by default.
Open(filter, size) ==
    /\ walk.pc = "idle"
    /\ walk' = [NotWalking EXCEPT !.pc = IF ParsesType(filter.type) THEN "count" ELSE "failed",
                   !.filter = filter, !.size = DefaultPageSize(size), !.page = DefaultPage(0),
                   !.before = Len(rows)]
    /\ UNCHANGED <<rows, time>>

Count ==
    /\ walk.pc = "count"
    /\ walk' = [walk EXCEPT !.pc = "list", !.total = Cardinality(Where(walk.filter))]
    /\ UNCHANGED <<rows, time>>

\* The list of the page, and the next page while the answer announces one more.
FindList ==
    /\ walk.pc = "list"
    /\ \E order \in NewestFirst(Where(walk.filter)) :
         LET page == PageOf(order, walk.page, walk.size)
             answer == NewPage(page, walk.page, walk.size, walk.total)
         IN  walk' = [walk EXCEPT
                !.seen = @ \cup {page[i] : i \in DOMAIN page},
                !.page = @ + 1,
                !.late = Cardinality(Where(walk.filter)) - walk.total,
                !.pc = IF walk.page < answer.totalPages THEN "count" ELSE "done"]
    /\ UNCHANGED <<rows, time>>

HistoryNext ==
    \/ \E kind \in Kinds : Record(kind)
    \/ \E filter \in Filters, size \in Sizes : Open(filter, size)
    \/ Count
    \/ FindList

(***************************************************************************)
(* Properties.                                                             *)
(***************************************************************************)
Alone(i, ids) == \A j \in ids : rows[j].createTime = rows[i].createTime => j = i

\* What the member means by a filter: a bare date is the whole day.
DayOf(i) == rows[i].createTime \div DayLength
NotBefore(i, raw) ==
    IF raw[1] = "date" THEN DayOf(i) >= raw[2] ELSE rows[i].createTime >= raw[2]
NotAfter(i, raw) ==
    IF raw[1] = "date" THEN DayOf(i) <= raw[2] ELSE rows[i].createTime <= raw[2]
Meant(i, filter) ==
    /\ rows[i].memberId = filter.memberId
    /\ filter.start # <<>> /\ filter.end # <<>> =>
         NotBefore(i, filter.start) /\ NotAfter(i, filter.end)
    /\ filter.type # NotGiven => filter.type = ToString(rows[i].type)
    /\ filter.symbol # NotGiven => filter.symbol = rows[i].symbol

Missed ==
    {i \in 1..walk.before :
        /\ Meant(i, walk.filter)
        /\ Alone(i, {j \in DOMAIN rows : Meant(j, walk.filter)})
        /\ i \notin walk.seen}

\* A member who pages to the end sees what he asked for, and of what was there when he
\* began he misses no more rows than were written between the COUNT and the SELECT of
\* his last page (walk.late), although every row written meanwhile pushes the older
\* ones to later pages.  Rows that share their create_time may be missed at any time,
\* their order being anybody's guess.
WalkSeesWhatWasAsked ==
    walk.pc = "done" =>
        /\ \A i \in walk.seen : Meant(i, walk.filter)
        /\ Cardinality(Missed) <= walk.late

\* The types hold, and a walk to the end sees what was asked for.
HistoryInv == HistoryTypeOK /\ WalkSeesWhatWasAsked
=============================================================================
