------------------------------ MODULE Holdings ------------------------------
(***************************************************************************)
(* The holdings of a portfolio, month by month                             *)
(* (internal/service/holding_service.go, holding_repository.go): entered   *)
(* and changed by their owner, priced by a sync with the market, copied    *)
(* from one month to another.  Every statement is a transaction of its     *)
(* own; what a request read is as old as the statement that read it.       *)
(***************************************************************************)
EXTENDS Quotes, FiniteSetsExt

CONSTANTS
  Dates,       \* months: [month |-> 1..12, year |-> ...]
  Ticker,      \* the ticker a symbol stands for as it is spelled; None for a blank
  Types,       \* the holding_types table
  Entries(_),  \* the rows users may enter, by workload
  Changes,     \* what an update may ask for: some columns of a row
  MaxHoldings(_)  \* bound: holdings ever inserted, by workload

VARIABLES
  holdings,    \* the holdings table
  issued,      \* ids given out: 1..issued
  today        \* the month of the server's clock

holdingVars == <<holdings, issued, today>>

Earlier(d, e) == d.year < e.year \/ (d.year = e.year /\ d.month < e.month)

\* The users of a workload.
Users == {row.owner : row \in Entries(asks)}

\* The values of a column.
Column ==
  [date |-> Dates, symbol |-> DOMAIN Ticker \cup {None}, units |-> Nat \cup {None},
   price |-> Nat \cup {None}, value |-> Nat, invested |-> Nat, type |-> STRING, platform |-> STRING]

\* A row of one of these users; its type is one of the table's or is yet to be looked up.
Row(users, types) ==
  [owner : users, date : Dates, symbol : Column.symbol, units : Column.units, price : Column.price,
   value : Nat, invested : Nat, type : types, platform : STRING]

HoldingRow == Row(Users, Types)

ASSUME HoldingsAssumption ==
  /\ Types \subseteq STRING
  /\ \A d \in Dates : d.month \in 1..12 /\ d.year \in Int /\ d = [month |-> d.month, year |-> d.year]
  /\ \A x \in DOMAIN Ticker : Ticker[x] \in Tickers \cup {None}
  /\ \A w \in Workloads :
       /\ Entries(w) \subseteq Row({row.owner : row \in Entries(w)}, STRING)
       /\ MaxHoldings(w) \in Nat
  /\ \A change \in Changes : \A column \in DOMAIN change :
       column \in DOMAIN Column /\ change[column] \in Column[column]

HoldingsTypeOK ==
  /\ issued \in 0..MaxHoldings(asks)
  /\ DOMAIN holdings \subseteq 1..issued
  /\ holdings \in [DOMAIN holdings -> HoldingRow]
  /\ today \in Dates

HoldingsInit ==
  /\ holdings = [h \in {} |-> None]
  /\ issued = 0
  /\ today \in {d \in Dates : ~ \E e \in Dates : Earlier(e, d)}

NewMonth == \E d \in Dates :
  /\ Happens("newMonth")
  /\ Earlier(today, d)
  /\ today' = d
  /\ UNCHANGED <<requestVars, holdings, issued>>

\* A user's rows of a month.
RowsOf(u, d) == {h \in DOMAIN holdings : holdings[h].owner = u /\ holdings[h].date = d}

Copies(hs) == [h \in hs |-> holdings[h]]

Remaining(hs) == [h \in DOMAIN holdings \ hs |-> holdings[h]]

Insert(row) ==
  /\ issued < MaxHoldings(asks)
  /\ issued' = issued + 1
  /\ holdings' = Put(holdings, [h \in {issued'} |-> row])

-----------------------------------------------------------------------------
(* What the owner enters.                                                  *)

CreateHolding(r, row) ==
  /\ AtOnce(r, "create")
  /\ row.type \in Types
  /\ Insert(row)
  /\ UNCHANGED <<today, quoteVars>>

\* FindByID; the record is written back with the changes asked for.
UpdateHolding(r, u, h, change) ==
  /\ h \in RowsOf(u, holdings[h].date)
  /\ Enter(r, "update", [op |-> "update", user |-> u, holding |-> h, row |-> Put(holdings[h], change)],
           <<"findType", "write", "answer">>)
  /\ UNCHANGED <<holdingVars, quoteVars>>

FindHoldingType(r) ==
  /\ At(r, "findType")
  /\ Check(r, call[r].row.type \in Types)
  /\ UNCHANGED <<holdingVars, quoteVars>>

\* Every column, whether it was changed or not.
WriteHolding(r) ==
  LET h == call[r].holding IN
  /\ At(r, "write")
  /\ Check(r, h \in DOMAIN holdings)
  /\ holdings' = IF h \in DOMAIN holdings THEN [holdings EXCEPT ![h] = call[r].row] ELSE holdings
  /\ UNCHANGED <<issued, today, quoteVars>>

DeleteHolding(r, u, h) ==
  /\ AtOnce(r, "delete")
  /\ holdings[h].owner = u
  /\ holdings' = Remaining({h})
  /\ UNCHANGED <<issued, today, quoteVars>>

-----------------------------------------------------------------------------
(* Prices.  call[r].rows are the holdings as they were read.               *)

TickerOf(row) == IF row.symbol = None THEN None ELSE Ticker[row.symbol]

SyncPrices(r, u) ==
  /\ Enter(r, "sync", [op |-> "sync", user |-> u, date |-> today, rows |-> <<>>, left |-> {},
                       wanted |-> {}, quotes |-> <<>>],
           <<"findForSync">> \o Quoting \o <<"quoted", "answer">>)
  /\ UNCHANGED <<holdingVars, quoteVars>>

\* With a symbol and units; none is an answer already.
FindForSync(r) ==
  LET hs == {h \in RowsOf(call[r].user, call[r].date) :
               holdings[h].symbol # None /\ holdings[h].units \notin {None, 0}}
      tickers == NormalizeSymbols({TickerOf(holdings[h]) : h \in hs})
      c == [call[r] EXCEPT !.rows = Copies(hs), !.wanted = tickers]
  IN
  /\ At(r, "findForSync")
  /\ Go(r, IF tickers = {} THEN <<"answer">> ELSE Tail(todo[r]), c)
  /\ UNCHANGED <<holdingVars, quoteVars>>

\* The rows a price was found for.
Quoted(c) == {h \in DOMAIN c.rows : TickerOf(c.rows[h]) \in DOMAIN c.quotes}

SelectQuoted(r) ==
  LET hs == Quoted(call[r]) IN
  /\ At(r, "quoted")
  /\ Go(r, IF hs = {} THEN <<"answer">> ELSE <<"price", "answer">>, [call[r] EXCEPT !.left = hs])
  /\ UNCHANGED <<holdingVars, quoteVars>>

\* On to the next of the rows, or past the loop.
Loop(r, h) ==
  LET c == [call[r] EXCEPT !.left = @ \ {h}] IN
  IF c.left = {} THEN AdvanceWith(r, c) ELSE Go(r, todo[r], c)

\* Mistake: the whole row is written, as it was read.
RepricedAsRead(now, read, price) == [read EXCEPT !.price = price, !.value = read.units * price]

\* UpdateFields: the value comes from the units that were read.
Repriced(now, read, price) == [now EXCEPT !.price = price, !.value = read.units * price]

\* The first row that is gone ends the loop with an error.
UpdatePrice(r) == \E h \in call[r].left :
  LET read == call[r].rows[h]
      price == call[r].quotes[TickerOf(read)]
  IN
  /\ IF h \in DOMAIN holdings
     THEN /\ holdings' = [holdings EXCEPT ![h] = Repriced(@, read, price)]
          /\ Loop(r, h)
     ELSE /\ Quit(r)
          /\ UNCHANGED holdings
  /\ UNCHANGED <<issued, today, quoteVars>>

-----------------------------------------------------------------------------
(* Copies of a month.                                                      *)

DuplicateHoldings(r, u, from, to, overwrite) ==
  /\ from # to
  /\ Enter(r, "duplicate", [op |-> "duplicate", user |-> u, from |-> from, to |-> to,
                            overwrite |-> overwrite, rows |-> <<>>, left |-> {}],
           IF overwrite THEN <<"findForDuplicate", "clear", "copy", "answer">>
           ELSE <<"findForDuplicate", "copy", "answer">>)
  /\ UNCHANGED <<holdingVars, quoteVars>>

FindForDuplicate(r) ==
  LET hs == RowsOf(call[r].user, call[r].from) IN
  /\ At(r, "findForDuplicate")
  /\ IF hs = {} THEN Quit(r) ELSE AdvanceWith(r, [call[r] EXCEPT !.rows = Copies(hs), !.left = hs])
  /\ UNCHANGED <<holdingVars, quoteVars>>

\* Mistake: the month to copy from is cleared.
ClearSource(r) ==
  /\ At(r, "clear")
  /\ holdings' = Remaining(RowsOf(call[r].user, call[r].from))
  /\ Advance(r)
  /\ UNCHANGED <<issued, today, quoteVars>>

\* DeleteByUserMonthYear.
ClearMonth(r) ==
  /\ At(r, "clear")
  /\ holdings' = Remaining(RowsOf(call[r].user, call[r].to))
  /\ Advance(r)
  /\ UNCHANGED <<issued, today, quoteVars>>

CopyHolding(r) == \E h \in call[r].left :
  /\ Insert([call[r].rows[h] EXCEPT !.date = call[r].to])
  /\ Loop(r, h)
  /\ UNCHANGED <<today, quoteVars>>

HoldingsStep(r) ==
  \/ FindHoldingType(r) \/ WriteHolding(r) \/ FindForSync(r) \/ SelectQuoted(r)
  \/ At(r, "price") /\ UpdatePrice(r)
  \/ FindForDuplicate(r) \/ ClearMonth(r)
  \/ At(r, "copy") /\ CopyHolding(r)

HoldingsStart(r) ==
  \/ \E row \in Entries(asks) : CreateHolding(r, row)
  \/ \E u \in Users :
       \/ \E h \in DOMAIN holdings :
            \/ DeleteHolding(r, u, h)
            \/ \E change \in Changes : UpdateHolding(r, u, h, change)
       \/ SyncPrices(r, u)
       \/ \E from, to \in Dates, overwrite \in BOOLEAN : DuplicateHoldings(r, u, from, to, overwrite)

-----------------------------------------------------------------------------
(* What a request that writes row by row owes, if nobody else wrote while  *)
(* it was at work.                                                         *)

\* A row but for its month.
Content(h) == [holdings[h] EXCEPT !.date = None]

Count(hs, content) == Cardinality({h \in hs : Content(h) = content})

\* The month copied from is as it was read; the month copied to has as many of
\* each holding, or at least as many if its own were to stay.
CopiesWhole(c) ==
  LET source == RowsOf(c.user, c.from)
      target == RowsOf(c.user, c.to)
  IN
  /\ source # {} /\ Copies(source) = c.rows
  /\ \A h \in source \cup target :
       IF c.overwrite THEN Count(target, Content(h)) = Count(source, Content(h))
       ELSE Count(target, Content(h)) >= Count(source, Content(h))

\* Holdings with a quote are worth what it says, nothing else of the month changed.
PricesWhole(c) == \A h \in DOMAIN c.rows :
  IF h \notin Quoted(c) THEN holdings[h] = c.rows[h]
  ELSE LET price == c.quotes[TickerOf(c.rows[h])] IN
       /\ holdings[h] = [c.rows[h] EXCEPT !.price = price, !.value = holdings[h].units * price]
       /\ price > 0
=============================================================================
