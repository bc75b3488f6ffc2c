----------------------------- MODULE OrderLists -----------------------------
(***************************************************************************)
(* The lists of his orders a member reads at exchange-api, the history and *)
(* the current orders of a pair.  An answer is made of two SELECTs, first  *)
(* the page, then the COUNT, outside any transaction: orders are stored,   *)
(* matched and cancelled between them.                                     *)
(***************************************************************************)
EXTENDS ExchangeOrder, Paging

CONSTANTS
    Readers,    \* calls in progress of History and Current
    PageNos,    \* page numbers asked for; a missing one is zero
    PageSizes   \* page sizes asked for; a missing one is zero

ASSUME ListsConstants == PageNos \subseteq Int /\ PageSizes \subseteq Int

VARIABLE reading  \* what each call has asked for and read so far

listsVars == <<vars, reading>>

Kinds == {"history", "current"}

StatusLabels == [s \in Trading..OrderInit |->
    CASE s = Trading -> "TRADING" [] s = Completed -> "COMPLETED" [] s = Canceled -> "CANCELED"
      [] s = OverTimed -> "OVERTIMED" [] OTHER -> ""]

\* What a member sees of an order.
ToView(o) == [orderId |-> o.orderId, status |-> StatusLabels[o.status],
              direction |-> IF o.direction = Sell THEN "SELL" ELSE "BUY",
              price |-> o.price]

\* The WHERE clause: a history is every order of the pair, whatever its status.
Selected(kind, m, symbol) ==
    IF kind = "history" THEN OrdersOf(m, symbol) ELSE TradingOf(m, symbol)

\* No query orders its rows: they come in whatever order the scan meets them.
Scans(ids) ==
    {scan \in [1..Cardinality(ids) -> ids] :
        \A i, j \in DOMAIN scan : i # j => scan[i] # scan[j]}

QueriesReversed == <<"count", "page">>  \* mutant: the total is counted before the page is read

\* The two queries of an answer, in the order they are made.
Queries == <<"page", "count">>

After(query) == IF query = Queries[1] THEN Queries[2] ELSE "answered"

NotReading == [pc |-> "idle", kind |-> "history", memberId |-> "none", symbol |-> "none",
               pageNo |-> 0, pageSize |-> 0, list |-> <<>>, total |-> 0]

ListsTypeOK ==
    /\ TypeOK
    /\ \A q \in Readers :
         /\ reading[q].pc \in {"idle", "page", "count", "answered", "failed"}
         /\ reading[q].kind \in Kinds
         /\ reading[q].memberId \in Members \cup {"none"}
         /\ reading[q].symbol \in DOMAIN Pairs \cup {"none"}
         /\ reading[q].pageNo \in PageNos \cup {0} /\ reading[q].pageSize \in PageSizes \cup {0}
         /\ \A k \in DOMAIN reading[q].list : reading[q].list[k].orderId \in 1..MaxClock
         /\ reading[q].total \in Nat

ListsInit == Init /\ reading = [q \in Readers |-> NotReading]

\* exchange-api: the parameters are passed on as they come.
Ask(q, kind, m, symbol, pageNo, pageSize) ==
    /\ reading[q].pc \in {"idle", "answered", "failed"}
    /\ reading' = [reading EXCEPT ![q] =
           [pc |-> Queries[1], kind |-> kind, memberId |-> m, symbol |-> symbol,
            pageNo |-> pageNo, pageSize |-> pageSize, list |-> <<>>, total |-> 0]]

\* SELECT * ... LIMIT ? OFFSET ?, which MySQL refuses when one of them is negative.
SelectPage(q) ==
    LET r == reading[q]
    IN  /\ r.pc = "page"
        /\ IF PageOf(<<>>, r.pageNo, r.pageSize) = NoPage
           THEN reading' = [reading EXCEPT ![q].pc = "failed"]
           ELSE \E scan \in Scans(Selected(r.kind, r.memberId, r.symbol)) :
                  LET page == PageOf(scan, r.pageNo, r.pageSize)
                  IN  reading' = [reading EXCEPT ![q].pc = After("page"),
                          ![q].list = [k \in DOMAIN page |-> ToView(orders[page[k]])]]

\* SELECT COUNT(*), a statement of its own.
CountRows(q) ==
    /\ reading[q].pc = "count"
    /\ LET r == reading[q]
       IN  reading' = [reading EXCEPT ![q].pc = After("count"),
               ![q].total = Cardinality(Selected(r.kind, r.memberId, r.symbol))]

QueryFails(q) ==
    /\ reading[q].pc \in {"page", "count"}
    /\ reading' = [reading EXCEPT ![q].pc = "failed"]

ReadStep(q) ==
    \/ \E kind \in Kinds, m \in Members, symbol \in DOMAIN Pairs :
         \E pageNo \in PageNos, pageSize \in PageSizes : Ask(q, kind, m, symbol, pageNo, pageSize)
    \/ SelectPage(q)
    \/ CountRows(q)
    \/ QueryFails(q)

ListsNext ==
    \/ Next /\ UNCHANGED reading
    \/ \E q \in Readers : ReadStep(q) /\ UNCHANGED vars

ListsSpec == ListsInit /\ [][ListsNext]_listsVars

(***************************************************************************)
(* Properties.                                                             *)
(***************************************************************************)
Ended == {Completed, Canceled, OverTimed}
EndedOf(m, symbol) == {i \in OrdersOf(m, symbol) : orders[i].status \in Ended}

\* The place of the last order of the page in the whole list.
LastPlace(r) == (r.pageNo - 1) * r.pageSize + Len(r.list)

\* An order that is listed is also counted: the total an answer announces reaches the
\* last place of its page, although orders are stored, matched and cancelled between
\* the two queries.  From the current orders only those that ended can be missing.
AnswerCountsItsOrders ==
    \A q \in Readers :
        LET r == reading[q]
        IN  r.pc = "answered" /\ r.list # <<>> =>
                LastPlace(r) <= r.total + (IF r.kind = "history" THEN 0
                                           ELSE Cardinality(EndedOf(r.memberId, r.symbol)))

\* The types hold, and an answer counts what it lists.
ListsInv == ListsTypeOK /\ AnswerCountsItsOrders
=============================================================================
