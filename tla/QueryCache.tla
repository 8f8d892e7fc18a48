----------------------------- MODULE QueryCache -----------------------------
(***************************************************************************)
(* One query of the pages' data cache: TanStack Query, as the web front    *)
(* end uses it.  A query is asked when a page that shows it opens and what *)
(* is held is missing or old; marking it (invalidateQueries) asks again if *)
(* it is on screen; an answer that lands makes it new, whatever was marked *)
(* meanwhile.                                                              *)
(***************************************************************************)
EXTENDS Naturals

NoData == 0  \* nothing was ever received; what is received is a record or a number above it

\* held: the data; old: marked, or kept longer than it counts as fresh;
\* fetch: where a request for it is; answer: what the server said;
\* again: it will be retried; behind: it was marked after this request went
\* out, and not asked again; failed: the last request failed; raced: what is
\* held came from a request that was behind.
Empty ==
  [held |-> NoData, old |-> FALSE, fetch |-> "none", answer |-> NoData,
   again |-> FALSE, behind |-> FALSE, failed |-> FALSE, raced |-> FALSE]

Idle(q) == q.fetch = "none"
Has(q) == q.held # NoData

\* A request goes out; one in flight is dropped for it. retries: 1 by default,
\* 0 where a page says so.
Asked(q, retries) ==
  [q EXCEPT !.fetch = "sent", !.answer = NoData, !.again = retries, !.behind = FALSE]

\* A page that shows it opens: one request for all who show it.
Opened(q, retries) ==
  IF Idle(q) /\ (~Has(q) \/ q.old) THEN Asked(q, retries) ELSE q

\* invalidateQueries: asked again when on screen, unless its first data is
\* still on the way; off screen it is only marked.
Marked(q, onScreen, retries) ==
  LET m == [q EXCEPT !.old = Has(q)] IN
  IF onScreen /\ (Idle(q) \/ Has(q)) THEN Asked(m, retries)
  ELSE [m EXCEPT !.behind = ~Idle(q)]

\* setQueryData: a request in flight stays, and will have the last word; so has
\* the answer of an older call that comes after a newer one's.
Put(q, data, late) ==
  [q EXCEPT !.held = data, !.old = FALSE, !.failed = FALSE,
            !.raced = late, !.behind = ~Idle(q)]

\* The server reads what it knows.
Answered(q, data) == [q EXCEPT !.fetch = "answered", !.answer = data]

\* The answer lands.
Landed(q) ==
  [Empty EXCEPT !.held = q.answer, !.raced = q.behind]

\* The request fails: once more, or what is held stays, and is old.
Failed(q) ==
  IF q.again THEN [Asked(q, FALSE) EXCEPT !.behind = q.behind]
  ELSE [q EXCEPT !.fetch = "none", !.answer = NoData, !.behind = FALSE, !.failed = TRUE, !.old = Has(q)]

Aged(q) == [q EXCEPT !.old = Has(q)]

QueryOf(data) ==
  [held : data, old : BOOLEAN, fetch : {"none", "sent", "answered"}, answer : data,
   again : BOOLEAN, behind : BOOLEAN, failed : BOOLEAN, raced : BOOLEAN]
=============================================================================
