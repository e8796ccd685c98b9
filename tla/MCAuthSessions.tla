--------------------------- MODULE MCAuthSessions ---------------------------
(***************************************************************************)
(* Model-checking instance of AuthSessions: tokens, requests and accounts  *)
(* are interchangeable.                                                    *)
(***************************************************************************)
EXTENDS AuthSessionsInvariant, TLC, FiniteSets

CONSTANT MaxLogins   \* bound on the families of one account

Symmetry == Permutations(Tokens) \cup Permutations(Requests) \cup Permutations(Users)

\* States beyond a login too many are not explored any further.
FewLogins ==
  \A u \in Users :
    Cardinality({t \in DOMAIN issued :
                   issued[t].via = "login" /\ issued[t].row.user = u}) <= MaxLogins
=============================================================================
