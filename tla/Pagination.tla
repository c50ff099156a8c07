----------------------------- MODULE Pagination -----------------------------
(***************************************************************************)
(* GormPaginate and CeilPageNum of pkg/xsql/builder: the rows of a page,   *)
(* by the offset and the limit of the query, and the number of pages.      *)
(***************************************************************************)
EXTENDS Integers, FiniteSetsExt

PageCap == 100
PageSize(size) == IF size > PageCap THEN PageCap ELSE IF size <= 0 THEN 10 ELSE size
Offset(page, size) == ((IF page = 0 THEN 1 ELSE page) - 1) * PageSize(size)
PageRows(page, size, total) == (Offset(page, size) + 1)..Min({Offset(page, size) + PageSize(size), total})
CeilPageNum(total, size) == (total + size - 1) \div size

\* Every row is on one of the pages, and on no other.
ShowAll(pages, total) ==
    /\ UNION {pages[p] : p \in DOMAIN pages} = 1..total
    /\ \A p, q \in DOMAIN pages : p # q => pages[p] \intersect pages[q] = {}
=============================================================================
