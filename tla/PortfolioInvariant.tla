------------------------- MODULE PortfolioInvariant -------------------------
(***************************************************************************)
(* An inductive invariant of Portfolio: where a request may be, what its   *)
(* locals then are whatever others do, and what they have to do with the   *)
(* tables as long as nobody else has written.                              *)
(***************************************************************************)
EXTENDS Portfolio

-----------------------------------------------------------------------------
(* Where a request may be: the statements t it has yet to execute, with    *)
(* the locals c, operation by operation.                                   *)

Has(c, op, locals) == DOMAIN c = {"op"} \cup locals /\ c.op = op

\* Rows as a query found them.
AreRows(rows) == rows \in [DOMAIN rows -> HoldingRow] /\ DOMAIN rows \subseteq 1..issued

AreQuotes(quotes) ==
  /\ DOMAIN quotes \subseteq Tickers
  /\ \A t \in DOMAIN quotes : quotes[t] \in Prices \ {0}

Updating(t, c) ==
  /\ Has(c, "update", {"user", "holding", "row"})
  /\ c.row \in Row(Users, STRING)
  /\ \/ t = <<"findType", "write", "answer">>
     \/ c.row.type \in Types /\ t \in {<<"write", "answer">>, <<"answer">>}

\* Nothing is left to price but in the loop.
Syncing(t, c) ==
  /\ Has(c, "sync", {"user", "date", "rows", "left", "wanted", "quotes"})
  /\ AreRows(c.rows)
  /\ \A h \in DOMAIN c.rows : c.rows[h].units \in Nat
  /\ c.wanted \subseteq Tickers
  /\ AreQuotes(c.quotes)
  /\ \/ /\ t \in {<<"findForSync", "cachedQuotes", "fetchQuotes", "quoted", "answer">>,
                  <<"cachedQuotes", "fetchQuotes", "quoted", "answer">>}
        /\ c.left = {} /\ DOMAIN c.quotes = {}
     \/ t \in {<<"fetchQuotes", "quoted", "answer">>, <<"quoted", "answer">>, <<"answer">>} /\ c.left = {}
     \/ t = <<"price", "answer">> /\ c.left \subseteq Quoted(c)

Duplicating(t, c) ==
  /\ Has(c, "duplicate", {"user", "from", "to", "overwrite", "rows", "left"})
  /\ c.from # c.to /\ c.to \in Dates
  /\ c.overwrite \in BOOLEAN
  /\ AreRows(c.rows)
  /\ c.left \subseteq DOMAIN c.rows
  /\ \/ t = IF c.overwrite THEN <<"findForDuplicate", "clear", "copy", "answer">>
            ELSE <<"findForDuplicate", "copy", "answer">>
     \/ t = <<"clear", "copy", "answer">> /\ c.overwrite /\ c.left = DOMAIN c.rows
     \/ t = <<"copy", "answer">>
     \/ t = <<"answer">> /\ c.left = {}

\* A summary or a comparison; the next query is the first without an answer.
Asking(t, c) ==
  LET n == Len(c.queries) IN
  /\ \/ Has(c, "summary", {"user", "queries", "got"}) /\ c.queries = Summary(c.queries[1][2])
     \/ /\ Has(c, "compare", {"user", "queries", "got"})
        /\ c.queries = Comparison(c.queries[1][2], c.queries[4][2])
  /\ c.got \in Seq({c.got[i] : i \in DOMAIN c.got})
  /\ \/ t = <<"query", "answer">> /\ Len(c.got) < n
     \/ t = <<"answer">> /\ Len(c.got) = n

IsDate(d) == d = Date(d.month, d.year) /\ d.month \in 1..12 /\ d.year \in Int

\* The series is computed; its range was accepted.
Listing(t, c) ==
  /\ Has(c, "monthly", {"user", "range", "series"})
  /\ c.range = <<c.range[1], c.range[2]>> /\ IsDate(c.range[1]) /\ IsDate(c.range[2])
  /\ ~Earlier(c.range[1], c.range[2]) /\ ~TooLong(c.range)
  /\ t = <<"answer">>

Rating(t, c) ==
  /\ Has(c, "rate", {"pair", "wanted", "quotes"})
  /\ c.pair \in Pairs /\ c.pair[1] # c.pair[2]
  /\ c.wanted \subseteq Tickers
  /\ AreQuotes(c.quotes)
  /\ t \in {<<"cachedQuotes", "fetchQuotes", "quoteRate">>, <<"fetchQuotes", "quoteRate">>, <<"quoteRate">>}

Watching(t, c) ==
  /\ Has(c, "calendar", {"month", "fetched", "kept"})
  /\ c.fetched \subseteq InMonth(announced, c.month)
  /\ \/ t \in {<<"fetch", "store", "answer">>, <<"store", "answer">>} /\ ~c.kept
     \/ t = <<"answer">>

Working(t, c) ==
  \/ Updating(t, c) \/ Syncing(t, c) \/ Duplicating(t, c) \/ Asking(t, c)
  \/ Listing(t, c) \/ Rating(t, c) \/ Watching(t, c)

-----------------------------------------------------------------------------
(* What a request knows as long as nobody else has written.                *)

\* The rows a sync has written so far.
Priced(t, c) == IF t \in {<<"price", "answer">>, <<"answer">>} THEN Quoted(c) \ c.left ELSE {}

SyncIntact(t, c) == \A h \in DOMAIN c.rows :
  /\ h \in DOMAIN holdings
  /\ h \notin Priced(t, c) => holdings[h] = c.rows[h]
  /\ h \in Priced(t, c) => holdings[h] = Repriced(c.rows[h], c.rows[h], c.quotes[TickerOf(c.rows[h])])

\* Which row of the other month is the copy of which.
IsCopying(copy, c) ==
  LET target == RowsOf(c.user, c.to) IN
  /\ \A h, k \in DOMAIN copy : copy[h] = copy[k] => h = k
  /\ c.overwrite => \A x \in target : \E h \in DOMAIN copy : copy[h] = x
  /\ \A h \in DOMAIN copy : holdings[copy[h]] = [c.rows[h] EXCEPT !.date = c.to]

DuplicateIntact(t, c) == Head(t) # "findForDuplicate" =>
  /\ DOMAIN c.rows # {} /\ Copies(RowsOf(c.user, c.from)) = c.rows
  /\ Head(t) # "clear" => \E copy \in [DOMAIN c.rows \ c.left -> RowsOf(c.user, c.to)] : IsCopying(copy, c)

Intact(t, c) ==
  /\ c.op = "sync" => SyncIntact(t, c)
  /\ c.op = "duplicate" => DuplicateIntact(t, c)
  /\ c.op \in {"summary", "compare"} =>
       \A i \in DOMAIN c.got : c.got[i] = Answer(c.user, c.queries[i])
  /\ c.op = "monthly" => c.series = Walk(c.range[2], c.range[1], MonthlyRows(c.user, c.range))
  /\ c.op = "calendar" => CalendarWhole(c)

-----------------------------------------------------------------------------
RequestsTyped ==
  /\ asks \in Workloads
  /\ DOMAIN todo = Requests /\ DOMAIN call = Requests
  /\ \A r \in Requests : todo[r] # <<>> => Working(todo[r], call[r])

RequestsIntact ==
  \A r \in Requests \ disturbed : todo[r] # <<>> => Intact(todo[r], call[r])

\* The inductive invariant.
IInv == TypeOK /\ RequestsTyped /\ RequestsIntact
=============================================================================
