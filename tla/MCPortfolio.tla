----------------------------- MODULE MCPortfolio -----------------------------
(***************************************************************************)
(* Model-checking instance of Portfolio.  Each workload sets two requests  *)
(* against each other; an instance explores all of them.                   *)
(***************************************************************************)
EXTENDS PortfolioInvariant

CONSTANTS r1, r2, u1, u2, rate, back

MCRequests == {r1, r2}

Against(a, b) == [r \in MCRequests |-> IF r = r1 THEN a ELSE b]

\* A sync while its holdings change, or are gone, or the month ends.
Edited == Against({"create", "sync"}, {"trade", "update"})
Deleted == Against({"create", "sync"}, {"trade", "delete"})
MonthEnds == Against({"create", "sync"}, {"trade", "newMonth"})

\* A month is copied while it changes.
Copied == Against({"create", "duplicate"}, {"delete"})
Moved == Against({"create", "duplicate"}, {"update"})
CopiedTwice == Against({"create", "duplicate"}, {"duplicate"})

Summed == Against({"create", "summary"}, {"delete"})

MonthsCompared == Against({"create", "compare"}, {"newMonth"})

Exchanged == Against({"rate"}, {"trade"})

Others ==
  { Against({"create", "monthly"}, {"newMonth"}),
    Against({"calendar"}, {"calendar"}) }

MCWorkloads == {Edited, Deleted, MonthEnds, Copied, Moved, CopiedTwice, Summed, MonthsCompared, Exchanged} \cup Others

MCMaxHoldings(w) == CASE w = Edited -> 1 [] w = Copied -> 4 [] w = CopiedTwice -> 3 [] OTHER -> 2

December == Date(12, 2023)
January == Date(1, 2024)
MCDates == {December, January}

\* Two spellings of one symbol.
MCTicker == [x \in {"eur", "EUR"} |-> rate]
MCTypes == {"stock", "gold"}
Stock(u, d) == [owner |-> u, date |-> d, symbol |-> "eur", units |-> 1, price |-> None,
                value |-> 1, invested |-> 1, type |-> "stock", platform |-> "broker"]
Gold(u, d) == [Stock(u, d) EXCEPT !.symbol = None, !.value = 2, !.invested = 4,
               !.type = "gold", !.platform = "bank"]
Unknown == [Gold(u1, January) EXCEPT !.type = "land"]
Twice == [Stock(u1, December) EXCEPT !.symbol = "EUR", !.units = 2]
MCEntries(w) ==
  CASE w = Edited -> {Stock(u1, December)}
    [] w = Deleted -> {Gold(u1, December), Twice}
    [] w = MonthEnds -> {Stock(u1, December), Stock(u1, January), Stock(u2, January)}
    [] w \in {Copied, Moved, CopiedTwice} -> {Stock(u1, December)}
    [] w = MonthsCompared -> {Stock(u1, December), Gold(u1, January)}
    [] OTHER -> {Stock(u1, December), Gold(u1, December), Gold(u1, January), Stock(u2, January), Unknown}
MCChanges == {[units |-> 2], [date |-> January], [type |-> "land"]}

MCAsked == { Date(None, None), Date(1, None), Date(None, 2023), Date(12, 2023), Date(1, 2024), Date(1, 2022) }

MCTickers == {rate, back}
MCListed(w) == IF w = Exchanged THEN MCTickers ELSE {rate}
MCPairs == { <<"EUR", "IDR">>, <<"IDR", "EUR">>, <<"EUR", "EUR">> }
MCPairTicker == [p \in {<<"EUR", "IDR">>, <<"IDR", "EUR">>} |-> IF p[1] = "EUR" THEN rate ELSE back]

MCAnnouncements ==
  { [key |-> "dividend of abc", type |-> "dividend", month |-> December, note |-> "cash"],
    [key |-> "meeting of abc", type |-> "rups", month |-> December, note |-> "budget"],
    [key |-> "meeting of abc", type |-> "rups", month |-> December, note |-> "board"] }
=============================================================================
