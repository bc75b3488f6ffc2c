------------------------------- MODULE Paging -------------------------------
(***************************************************************************)
(* Pages of a list as the repositories cut them (LIMIT ? OFFSET ?) and as  *)
(* pkg/page announces them.                                                *)
(***************************************************************************)
EXTENDS Integers, Sequences, SequencesExt, FiniteSetsExt

NoPage == <<"error">>  \* MySQL refuses a negative OFFSET or LIMIT

\* Rows of page number pageNo, counted from one.
PageOf(rows, pageNo, pageSize) ==
    LET offset == (pageNo - 1) * pageSize
    IN  IF offset < 0 \/ pageSize < 0 THEN NoPage
        ELSE SubSeq(rows, offset + 1, Min({offset + pageSize, Len(rows)}))

\* ceil(total / pageSize); anything that is not a size means one page.
TotalPages(pageSize, total) ==
    IF pageSize <= 0 THEN 1 ELSE (total + pageSize - 1) \div pageSize

\* The envelope of a list, the page number passed on as it came.
NewPage(content, pageNo, pageSize, total) ==
    LET pages == TotalPages(pageSize, total)
    IN  [content |-> content, totalElements |-> total, number |-> pageNo,
         totalPages |-> pages, hasNext |-> pageNo + 1 < pages,
         isLast |-> pageNo + 1 >= pages]
=============================================================================
