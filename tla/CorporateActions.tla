-------------------------- MODULE CorporateActions --------------------------
(***************************************************************************)
(* The calendar of dividends and shareholder meetings                      *)
(* (internal/service/corporate_action_service.go,                          *)
(* corporate_action_repository.go, internal/platform/market/               *)
(* rapidapi_idx.go).  The exchange is asked once for a month; its answer   *)
(* is stored, and from then on the month is served from the table.         *)
(***************************************************************************)
EXTENDS HttpRequests, Integers

CONSTANT
  Announcements  \* what the exchange may announce: [key, type, month, note]

VARIABLES
  announced,  \* what it has announced so far (external)
  actions     \* the corporate_actions table: the notes of each key

calendarVars == <<announced, actions>>

\* A key is a (symbol, type, event_date).
Keys(as) == {a.key : a \in as}

CalendarTypeOK ==
  /\ announced \subseteq Announcements
  /\ DOMAIN actions \subseteq Keys(announced)
  /\ \A k \in DOMAIN actions : actions[k] \subseteq {a.note : a \in announced}

CalendarInit ==
  /\ announced = {}
  /\ actions = [k \in {} |-> {}]

Announce == \E a \in Announcements \ announced :
  /\ announced' = announced \cup {a}
  /\ UNCHANGED <<requestVars, actions>>

InMonth(as, m) == {a \in as : a.month = m}

\* The stored keys of a month.
StoredIn(m) == Keys(InMonth(Announcements, m)) \cap DOMAIN actions

-----------------------------------------------------------------------------
\* A month of which a row exists counts as fetched, unless the table cannot be read.
GetCalendar(r, m) ==
  /\ \/ /\ StoredIn(m) # {}
        /\ AtOnce(r, "calendar")
     \/ Enter(r, "calendar", [op |-> "calendar", month |-> m, fetched |-> {}, kept |-> FALSE],
              <<"fetch", "store", "answer">>)
  /\ UNCHANGED calendarVars

\* GetCorporateActions: the dividends, the meetings, each skipped when its request fails.
FetchActions(r) ==
  /\ At(r, "fetch")
  /\ \E types \in SUBSET {"dividend", "rups"} :
       LET got == {a \in InMonth(announced, call[r].month) : a.type \in types} IN
       Go(r, IF got = {} THEN <<"answer">> ELSE Tail(todo[r]), [call[r] EXCEPT !.fetched = got])
  /\ UNCHANGED calendarVars

\* dedupeCorporateActions: one row for each key, with the notes of all.
Deduped(as) == {{a \in as : a.key = k} : k \in Keys(as)}

\* INSERT ... ON CONFLICT DO UPDATE, which refuses a key that comes twice.
Upserted(table, rows) ==
  IF \E x, y \in rows : x # y /\ Keys(x) = Keys(y) THEN table
  ELSE Put(table, [k \in UNION {Keys(x) : x \in rows} |->
                     {a.note : a \in UNION {x \in rows : k \in Keys(x)}}])

\* UpsertMany, whose error nobody looks at.
StoreActions(r) ==
  /\ At(r, "store")
  /\ \/ /\ actions' = Upserted(actions, Deduped(call[r].fetched))
        /\ AdvanceWith(r, [call[r] EXCEPT !.kept = TRUE])
     \/ /\ Advance(r)
        /\ UNCHANGED actions
  /\ UNCHANGED announced

CalendarStep(r) == FetchActions(r) \/ StoreActions(r)

-----------------------------------------------------------------------------
\* Unless the database failed, what was fetched is in the calendar, every note of it.
CalendarWhole(c) == c.kept =>
  \A a \in c.fetched : a.key \in StoredIn(c.month) /\ a.note \in actions[a.key]
=============================================================================
