----------------------------- MODULE Portfolio -----------------------------
(***************************************************************************)
(* A portfolio: holdings, the reports about them, the market's quotes and  *)
(* the calendar of the companies, under concurrent requests.               *)
(***************************************************************************)
EXTENDS HoldingReports, CorporateActions

\* History: requests during which another one wrote what they work with.
VARIABLE disturbed

vars == <<requestVars, holdingVars, quoteVars, calendarVars, disturbed>>

Init ==
  /\ RequestsInit
  /\ HoldingsInit
  /\ QuotesInit
  /\ CalendarInit
  /\ disturbed = {}

\* The last reads of a handler and its response; a failure at any point.
Respond(r) ==
  /\ At(r, "answer") \/ Fail(r)
  /\ Quit(r)
  /\ UNCHANGED <<holdingVars, quoteVars, calendarVars>>

\* A request arrives, and is carried out at once or begins.
Arrive(r) ==
  \/ (HoldingsStart(r) \/ ReportsStart(r)) /\ UNCHANGED calendarVars
  \/ (\E pair \in Pairs : GetRate(r, pair)) /\ UNCHANGED <<holdingVars, calendarVars>>
  \/ (\E m \in Dates : GetCalendar(r, m)) /\ UNCHANGED <<holdingVars, quoteVars>>

\* It executes its next statement.
Proceed(r) ==
  \/ Respond(r)
  \/ (HoldingsStep(r) \/ Query(r)) /\ UNCHANGED calendarVars
  \/ QuotesStep(r) /\ UNCHANGED <<holdingVars, calendarVars>>
  \/ CalendarStep(r) /\ UNCHANGED <<holdingVars, quoteVars>>

Request(r) ==
  /\ IF todo[r] = <<>> THEN Arrive(r) ELSE Proceed(r)
  /\ disturbed' = {q \in Requests : todo'[q] # <<>> /\
       (q \in disturbed \/ (q # r /\ <<holdings, actions>>' # <<holdings, actions>>))}

\* What happens by itself.
World ==
  /\ \/ NewMonth /\ UNCHANGED <<quoteVars, calendarVars>>
     \/ (Trade \/ ExpireQuote \/ ExpireRate) /\ UNCHANGED <<holdingVars, calendarVars>>
     \/ Announce /\ UNCHANGED <<holdingVars, quoteVars>>
  /\ UNCHANGED disturbed

Next == (\E r \in Requests : Request(r)) \/ World

Spec == Init /\ [][Next]_vars

-----------------------------------------------------------------------------
TypeOK ==
  /\ HoldingsTypeOK
  /\ QuotesTypeOK
  /\ CalendarTypeOK
  /\ disturbed \subseteq Requests

\* A request about to answer, undisturbed, that asked for op.
Undisturbed(r, op) == At(r, "answer") /\ r \notin disturbed /\ call[r].op = op

\* A step of a sync leaves every holding as its owner left it, but for price and value.
KeepsEntries(r) == \A h \in DOMAIN holdings :
  /\ h \in DOMAIN holdings'
  /\ holdings'[h] = [holdings[h] EXCEPT !.price = holdings'[h].price, !.value = holdings'[h].value]

\* A request that writes row by row without a transaction, and succeeds with nobody
\* else writing meanwhile, has done all of it and nothing else: a copied month has each
\* holding of the other, which is untouched; each holding of a synced month with a quote
\* is worth its units at that quote.  And whatever others write meanwhile, a sync takes
\* back nothing that the owner changed after the sync read the rows
\* (holding_service.go, DuplicateHoldings and SyncPrices).
WritesWhole ==
  [][ \A r \in Requests :
        /\ Undisturbed(r, "duplicate") => CopiesWhole(call[r])
        /\ Undisturbed(r, "sync") => PricesWhole(call[r])
        /\ At(r, "price") /\ call[r] # call'[r] => KeepsEntries(r) ]_vars

\* What is put together from several queries adds up when nobody wrote meanwhile: the
\* breakdowns of a summary and the differences of a comparison to the totals, the series
\* to the holdings of its months, each of them once; and the calendar has what was
\* fetched for it (holding_service.go, GetSummary, CompareMonths and GetMonthlyData;
\* corporate_action_service.go, GetCalendar).
ReportsAddUp == \A r \in Requests :
  /\ Undisturbed(r, "summary") => SummaryWhole(call[r])
  /\ Undisturbed(r, "compare") => SummaryWhole(call[r]) /\ ComparisonWhole(call[r])
  /\ Undisturbed(r, "monthly") => SeriesWhole(call[r])
  /\ Undisturbed(r, "calendar") => CalendarWhole(call[r])
=============================================================================
