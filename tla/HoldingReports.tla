--------------------------- MODULE HoldingReports ---------------------------
(***************************************************************************)
(* Summaries, comparisons and the monthly series of a portfolio            *)
(* (internal/service/holding_service.go, internal/handler/                 *)
(* holding_handler.go).  Amounts are in hundredths; percentages and the    *)
(* way numbers are written are left out.                                   *)
(***************************************************************************)
EXTENDS Holdings

CONSTANTS
  Asked,                 \* what a query may say: [month, year], each of them or None
  minHoldingYear,        \* 1990 in the code
  maxMonthlyRangeMonths  \* 240 in the code

ASSUME ReportsAssumption ==
  /\ \A q \in Asked : q.month \in 1..12 \cup {None} /\ q.year \in Int \cup {None}
  /\ minHoldingYear \in Nat /\ maxMonthlyRangeMonths \in Nat

Date(m, y) == [month |-> m, year |-> y]

-----------------------------------------------------------------------------
(* Sums over rows.                                                         *)

\* The rows of a user in the month and year asked for.
Chosen(u, q) == {h \in DOMAIN holdings :
  /\ holdings[h].owner = u
  /\ q.month \in {None, holdings[h].date.month}
  /\ q.year \in {None, holdings[h].date.year}}

Invested(hs) == SumFunction([h \in hs |-> holdings[h].invested])
Current(hs) == SumFunction([h \in hs |-> holdings[h].value])
Amounts(hs) == [invested |-> Invested(hs), current |-> Current(hs)]
GetTotals(hs) == [count |-> Cardinality(hs), invested |-> Invested(hs), current |-> Current(hs)]

\* GetTypeBreakdown and GetPlatformBreakdown: GROUP BY a column.
Breakdown(hs, column) ==
  [n \in {holdings[h][column] : h \in hs} |-> Amounts({h \in hs : holdings[h][column] = n})]

Nothing == [invested |-> 0, current |-> 0]

AmountsIn(groups, n) == IF n \in DOMAIN groups THEN groups[n] ELSE Nothing

SumOf(groups) ==
  [invested |-> SumFunction([n \in DOMAIN groups |-> groups[n].invested]),
   current |-> SumFunction([n \in DOMAIN groups |-> groups[n].current])]

Difference(from, to) ==
  [invested |-> to.invested - from.invested, current |-> to.current - from.current]

\* Mistake: only what the earlier month had is compared.
ComparedByEarlier(from, to) ==
  [n \in DOMAIN from |-> Difference(AmountsIn(from, n), AmountsIn(to, n))]

\* buildCompareBreakdownResult over mergeNameKeys.
Compared(from, to) ==
  [n \in DOMAIN from \cup DOMAIN to |-> Difference(AmountsIn(from, n), AmountsIn(to, n))]

-----------------------------------------------------------------------------
(* A report asks one query after the other; call[r].got are the answers.   *)

\* The queries of GetSummary.
Summary(q) == << <<"totals", q>>, <<"type", q>>, <<"platform", q>> >>

\* The queries of CompareMonths.
Comparison(from, to) ==
  Summary(from) \o Summary(to) \o
    << <<"type", from>>, <<"type", to>>, <<"platform", from>>, <<"platform", to>> >>

Answer(u, query) ==
  LET hs == Chosen(u, query[2]) IN
  IF query[1] = "totals" THEN GetTotals(hs) ELSE Breakdown(hs, query[1])

Report(r, op, u, queries) ==
  /\ Enter(r, op, [op |-> op, user |-> u, queries |-> queries, got |-> <<>>], <<"query", "answer">>)
  /\ UNCHANGED <<holdingVars, quoteVars>>

Query(r) ==
  LET c == [call[r] EXCEPT !.got = Append(@, Answer(call[r].user, call[r].queries[Len(@) + 1]))] IN
  /\ At(r, "query")
  /\ IF Len(c.got) = Len(c.queries) THEN AdvanceWith(r, c) ELSE Go(r, todo[r], c)
  /\ UNCHANGED <<holdingVars, quoteVars>>

GetSummary(r, u, q) == Report(r, "summary", u, Summary(q))

PrevMonth(d) == IF d.month = 1 THEN Date(12, d.year - 1) ELSE Date(d.month - 1, d.year)

NextMonth(d) == IF d.month = 12 THEN Date(1, d.year + 1) ELSE Date(d.month + 1, d.year)

Or(x, default) == IF x = None THEN default ELSE x

\* The later month is this one unless said otherwise, the earlier the one before it;
\* half a date is completed from the later.
CompareMonths(r, u, from, to) ==
  LET later == Date(Or(to.month, today.month), Or(to.year, today.year))
      earlier == IF from.month = None /\ from.year = None THEN PrevMonth(later)
                 ELSE Date(Or(from.month, later.month), Or(from.year, later.year))
  IN Report(r, "compare", u, Comparison(earlier, later))

-----------------------------------------------------------------------------
(* The monthly series.                                                     *)

PrevNMonths(d, n) ==
  LET ago[k \in 0..n] == IF k = 0 THEN d ELSE PrevMonth(ago[k - 1]) IN ago[n]

YearRefused(y) == y # None /\ y \notin minHoldingYear..(today.year + 1)

\* The ends of the range, the later first.  Without an end it is twelve months.
ParseMonthlyQuery(start, end) ==
  LET s == Date(Or(start.month, today.month), Or(start.year, today.year))
      e == IF end.month = None /\ end.year = None THEN PrevNMonths(s, 11)
           ELSE Date(Or(end.month, s.month), Or(end.year, s.year))
  IN IF Earlier(s, e) THEN <<e, s>> ELSE <<s, e>>

\* spanMonths.
Span(range) == (range[1].year - range[2].year) * 12 + range[1].month - range[2].month

TooLong(range) == Span(range) > maxMonthlyRangeMonths

\* A month of the series; zeros when the query has no row for it.
MonthOf(data, d) ==
  IF d \in DOMAIN data THEN data[d] ELSE [count |-> 0, invested |-> 0, current |-> 0]

\* The rows of the query, by month.
MonthlyRows(u, range) ==
  LET hs == {h \in DOMAIN holdings :
               /\ holdings[h].owner = u
               /\ ~Earlier(holdings[h].date, range[2])
               /\ ~Earlier(range[1], holdings[h].date)}
  IN [d \in {holdings[h].date : h \in hs} |-> GetTotals({h \in hs : holdings[h].date = d})]

\* The loop from the first month up to the last; a longer range was refused.
Walk(first, last, data) ==
  LET month[k \in 0..maxMonthlyRangeMonths] == IF k = 0 THEN first ELSE NextMonth(month[k - 1])
      end == Min({k \in 0..maxMonthlyRangeMonths : month[k] = last})
  IN [i \in 1..(end + 1) |-> [date |-> month[i - 1], totals |-> MonthOf(data, month[i - 1])]]

GetMonthlyData(r, u, start, end) ==
  LET range == ParseMonthlyQuery(start, end)
      series == Walk(range[2], range[1], MonthlyRows(u, range))
  IN
  /\ ~YearRefused(start.year) /\ ~YearRefused(end.year) /\ ~TooLong(range)
  /\ Enter(r, "monthly", [op |-> "monthly", user |-> u, range |-> range, series |-> series], <<"answer">>)
  /\ UNCHANGED <<holdingVars, quoteVars>>

ReportsStart(r) ==
  \E u \in Users, p \in Asked :
    \/ GetSummary(r, u, p)
    \/ \E q \in Asked : CompareMonths(r, u, p, q) \/ GetMonthlyData(r, u, p, q)

-----------------------------------------------------------------------------
(* What a report owes, if nobody wrote while it was put together.          *)

\* The groups of a summary make up its totals.
AddsUp(totals, groups) ==
  SumOf(groups) = [invested |-> totals.invested, current |-> totals.current]

SummaryWhole(c) == AddsUp(c.got[1], c.got[2]) /\ AddsUp(c.got[1], c.got[3])

\* The differences of the groups make up the difference of the totals.
ComparisonWhole(c) ==
  LET difference == Difference(c.got[1], c.got[4]) IN
  /\ SumOf(Compared(c.got[7], c.got[8])) = difference
  /\ SumOf(Compared(c.got[9], c.got[10])) = difference

\* Every month from the earlier end to the later, once and in order; no holding left out.
SeriesWhole(c) ==
  LET hs == {h \in DOMAIN holdings : /\ holdings[h].owner = c.user
                                     /\ \E i \in DOMAIN c.series : c.series[i].date = holdings[h].date}
      sum(f) == SumFunction([i \in DOMAIN c.series |-> c.series[i].totals[f]])
  IN
  /\ Len(c.series) = Span(c.range) + 1 /\ Len(c.series) <= maxMonthlyRangeMonths + 1
  /\ c.series[1].date = c.range[2] /\ c.series[Len(c.series)].date = c.range[1]
  /\ \A i \in 2..Len(c.series) : Span(<<c.series[i].date, c.series[i - 1].date>>) = 1
  /\ sum("count") = Cardinality(hs)
  /\ sum("invested") = Invested(hs) /\ sum("current") = Current(hs)
=============================================================================
