------------------------------ MODULE LogPages ------------------------------
(***************************************************************************)
(* Which lines a page of a log shows.  The event store (ReadWAFLogs) and the *)
(* line index of a file (readByLine) number the lines from 0 and cut pages   *)
(* in the same way; the admin page asks for the page before or after the one *)
(* it shows, by that page's bounds.                                          *)
(***************************************************************************)
EXTENDS Integers

(* dir and cursor of the request for the newest lines, without a cursor.     *)
Newest == [dir |-> "", cursor |-> -1]
PrevOf(page) == [dir |-> "prev", cursor |-> page.start]
NextOf(page) == [dir |-> "next", cursor |-> page.end]

Least(a, b) == IF a <= b THEN a ELSE b
Greatest(a, b) == IF a >= b THEN a ELSE b

Cursor(ask, total, tail) ==
    IF ask = Newest THEN Greatest(total - tail, 0) ELSE Least(ask.cursor, total)

(* A bug PagesAdjoin of Ingest would catch: a page starts at the last line of *)
(* the one before.                                                            *)
PageBoundsOverlapping(ask, total, tail) ==
    LET cur == Greatest(Cursor(ask, total, tail) - (IF ask.dir = "next" THEN 1 ELSE 0), 0)
    IN  IF ask.dir = "prev" THEN [start |-> Greatest(cur - tail, 0), end |-> cur]
                            ELSE [start |-> cur, end |-> Least(cur + tail, total)]

(* A bug TypeOK of Ingest would catch: the page before the first lies below 0. *)
PageBoundsUnclamped(ask, total, tail) ==
    LET cur == Cursor(ask, total, tail)
    IN  IF ask.dir = "prev" THEN [start |-> cur - tail, end |-> cur]
                            ELSE [start |-> cur, end |-> Least(cur + tail, total)]

(* The page is [start, end): an empty one when start >= end.                 *)
PageBounds(ask, total, tail) ==
    LET cur == Cursor(ask, total, tail)
    IN  IF ask.dir = "prev" THEN [start |-> Greatest(cur - tail, 0), end |-> cur]
                            ELSE [start |-> cur, end |-> Least(cur + tail, total)]
===============================================================================
