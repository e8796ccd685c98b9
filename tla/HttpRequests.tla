---------------------------- MODULE HttpRequests ----------------------------
(***************************************************************************)
(* Concurrent HTTP requests.  A request carries out the statements of its  *)
(* handler one after the other; between two of them anything may happen.   *)
(* todo[r] holds the statements request r has yet to execute, call[r] its  *)
(* local variables.                                                        *)
(***************************************************************************)
EXTENDS Sequences

CONSTANTS
  Requests,   \* requests that may be in progress at one time
  Workloads,  \* what each request may ask for: all, or a bound on an instance
  None        \* SQL NULL, and an unset local

VARIABLES asks, todo, call

requestVars == <<asks, todo, call>>

RequestsInit ==
  /\ asks \in Workloads
  /\ todo = [r \in Requests |-> <<>>]
  /\ call = [r \in Requests |-> None]

\* Request r starts an operation, with c for its locals.
Enter(r, op, c, statements) ==
  /\ todo[r] = <<>>
  /\ op \in asks[r]
  /\ todo' = [todo EXCEPT ![r] = statements]
  /\ call' = [call EXCEPT ![r] = c]
  /\ UNCHANGED asks

\* A request of a single statement, which is carried out at once.
AtOnce(r, op) ==
  /\ todo[r] = <<>>
  /\ op \in asks[r]
  /\ UNCHANGED requestVars

At(r, statement) == todo[r] # <<>> /\ Head(todo[r]) = statement

\* The handler returns: its locals are gone.
Quit(r) ==
  /\ todo' = [todo EXCEPT ![r] = <<>>]
  /\ call' = [call EXCEPT ![r] = None]
  /\ UNCHANGED asks

\* The rest of the handler is these statements, with c for its locals.
Go(r, statements, c) ==
  IF statements = <<>> THEN Quit(r)
  ELSE /\ todo' = [todo EXCEPT ![r] = statements]
       /\ call' = [call EXCEPT ![r] = c]
       /\ UNCHANGED asks

AdvanceWith(r, c) == Go(r, Tail(todo[r]), c)

Advance(r) == AdvanceWith(r, call[r])

\* On to the next statement if the check passes, an error otherwise.
Check(r, passes) == IF passes THEN Advance(r) ELSE Quit(r)

\* The table with these entries, which replace those it had under the same keys.
Put(table, entries) ==
  [k \in DOMAIN entries \cup DOMAIN table |-> IF k \in DOMAIN entries THEN entries[k] ELSE table[k]]

\* A statement fails, the client leaves, the process dies.
Fail(r) == todo[r] # <<>> /\ Quit(r)
=============================================================================
