------------------------- MODULE AuthSessionsProofs -------------------------
(***************************************************************************)
(* Theorems on AuthSessions for any number of accounts, tokens and         *)
(* requests, any lifetimes and any grace window.                           *)
(***************************************************************************)
EXTENDS AuthSessionsInvariant, TLAPS

USE ConfigAssumption, NoneAssumption

-----------------------------------------------------------------------------
(* What the two kinds of write do to the table and the ledger.             *)

\* The INSERT of a successor or root adds one row, and changes no other row
\* except for the rotation stamp of the row it replaces.
LEMMA InsertStep ==
  ASSUME TypeOK, LocalsOK, LedgerOK, PendingOK, NEW r \in Requests, Rotate(r) \/ CreateSession(r)
  PROVE  LET tok == next[r].token IN
         /\ next[r] \in Row
         /\ tok \notin DOMAIN issued
         /\ DOMAIN issued' = DOMAIN issued \cup {tok}
         /\ issued' \in [DOMAIN issued' -> Issue]
         /\ \A t \in DOMAIN issued : issued'[t] = issued[t]
         /\ issued'[tok].row = next[r]
         /\ issued'[tok].parent = IF cur[r] = None THEN None ELSE cur[r].token
         /\ issued'[tok].via = IF pc[r] = "rotate" THEN "rotate"
                               ELSE IF cur[r] = None THEN "login" ELSE "sibling"
         /\ DOMAIN sessions' = DOMAIN sessions \cup {tok}
         /\ sessions' \in [DOMAIN sessions' -> Row]
         /\ sessions'[tok] = next[r]
         /\ tok \notin DOMAIN sessions
         /\ \A t \in DOMAIN sessions :
              \/ sessions'[t] = sessions[t]
              \/ /\ pc[r] = "rotate" /\ t = cur[r].token
                 /\ sessions'[t] = [sessions[t] EXCEPT !.rotatedAt = next[r].createdAt]
         /\ pc[r] = "rotate" => /\ CanRotate(cur[r].token)
                                /\ sessions'[cur[r].token].rotatedAt = next[r].createdAt
  <1> DEFINE tok == next[r].token
  <1>1. next[r] \in Row /\ tok \in Tokens /\ tok \notin DOMAIN issued
    BY DEF Rotate, CreateSession, TypeOK, LocalsOK, LocalsAt, PendingOK, Building, Row
  <1>2. cur[r] # None => cur[r] \in Row /\ cur[r].token \in Tokens
    BY DEF TypeOK, Row
  <1>3. tok \notin DOMAIN sessions
    BY <1>1 DEF LedgerOK, Recorded
  <1>4. CASE Rotate(r)
    <2>1. /\ pc[r] = "rotate"
          /\ cur[r] # None
          /\ cur[r].token \in DOMAIN sessions
          /\ ~Rotated(sessions[cur[r].token])
      BY <1>4 DEF Rotate, LocalsOK, LocalsAt, CanRotate
    <2> DEFINE table == [sessions EXCEPT ![cur[r].token].rotatedAt = next[r].createdAt]
    <2>2. DOMAIN table = DOMAIN sessions /\ table \in [DOMAIN sessions -> Row]
      BY <2>1, <1>1, <1>2 DEF TypeOK, Row
    <2>3. Insert(r, table, "rotate")
      BY <1>4 DEF Rotate
    <2>4. /\ DOMAIN sessions' = DOMAIN sessions \cup {tok}
          /\ sessions'[tok] = next[r]
          /\ \A t \in DOMAIN sessions : sessions'[t] = table[t]
      BY <2>2, <2>3, <1>3 DEF Insert
    <2>5. sessions[cur[r].token] \in Row /\ CanRotate(cur[r].token)
      BY <2>1 DEF TypeOK, CanRotate
    <2>6. /\ \A t \in DOMAIN sessions : t # cur[r].token => table[t] = sessions[t]
          /\ table[cur[r].token] = [sessions[cur[r].token] EXCEPT !.rotatedAt = next[r].createdAt]
          /\ table[cur[r].token].rotatedAt = next[r].createdAt
      BY <2>1, <2>5 DEF TypeOK, Row
    <2> QED BY <1>1, <1>2, <1>3, <2>1, <2>2, <2>3, <2>4, <2>5, <2>6 DEF Insert, TypeOK, Issue
  <1>5. CASE CreateSession(r)
    BY <1>1, <1>2, <1>3, <1>5 DEF CreateSession, Insert, TypeOK, Issue
  <1> QED BY <1>4, <1>5

\* A DELETE keeps the rows it does not remove as they are.
LEMMA RemoveStep ==
  ASSUME TypeOK, NEW ts, Remove(ts)
  PROVE  /\ DOMAIN sessions' = DOMAIN sessions \ ts
         /\ sessions' \in [DOMAIN sessions' -> Row]
         /\ \A t \in DOMAIN sessions' : sessions'[t] = sessions[t]
  BY DEF Remove, Restrict, TypeOK

\* The row a request builds is a row.
LEMMA BuiltRow ==
  ASSUME TypeOK, LocalsOK, NEW r \in Requests, NEW t \in Tokens, pc[r] = "mint"
  PROVE  BuildSession(r, t) \in Row
  <1>1. user[r] \in Users /\ (cur[r] # None => cur[r] \in Row)
    BY DEF TypeOK, LocalsOK, LocalsAt
  <1>2. CASE cur[r] = None
    BY <1>1, <1>2 DEF BuildSession, Row, Earlier, TypeOK
  <1>3. CASE cur[r] # None
    BY <1>1, <1>3 DEF BuildSession, Row, Earlier, TypeOK
  <1> QED BY <1>2, <1>3

-----------------------------------------------------------------------------
(* Type correctness.                                                       *)

LEMMA TypeStep ==
  ASSUME IInv, [Next]_vars
  PROVE  TypeOK'
  <1> USE DEF IInv
  <1>1. CASE UNCHANGED vars
    BY <1>1 DEF vars, locals, history, TypeOK
  <1>2. CASE Tick
    BY <1>2 DEF Tick, locals, history, TypeOK
  <1>3. ASSUME NEW u \in Users, DeleteUser(u) \/ RestoreUser(u)
        PROVE  TypeOK'
    BY <1>3 DEF DeleteUser, RestoreUser, locals, history, TypeOK
  <1>4. ASSUME NEW r \in Requests,
               RefreshClassify(r) \/ LoadUser(r) \/ RotateLost(r) \/ RevokeAllSessions(r) \/ Abort(r)
        PROVE  TypeOK'
    <2>1. CASE RefreshClassify(r)
      <3>1. RefreshOutcome(cur[r]) \in PCs
        BY DEF RefreshOutcome, PCs, RevokeScopes
      <3> QED BY <2>1, <3>1 DEF RefreshClassify, Goto, history, TypeOK
    <2>2. CASE LoadUser(r)
      <3>1. cur[r] \in Row /\ cur[r].user \in Users
        BY <2>2 DEF LoadUser, LocalsOK, LocalsAt, TypeOK, Row
      <3> QED BY <2>2, <3>1 DEF LoadUser, Goto, Return, TypeOK, PCs
    <2>3. CASE RotateLost(r)
      BY <2>3 DEF RotateLost, Goto, Return, TypeOK, PCs
    <2>4. CASE RevokeAllSessions(r)
      BY <2>4 DEF RevokeAllSessions, Goto, history, TypeOK, PCs, RevokeScopes
    <2>5. CASE Abort(r)
      BY <2>5 DEF Abort, Return, TypeOK, PCs
    <2> QED BY <1>4, <2>1, <2>2, <2>3, <2>4, <2>5
  <1>5. ASSUME NEW r \in Requests, Rotate(r) \/ CreateSession(r)
        PROVE  TypeOK'
    <2>1. /\ DOMAIN sessions' \subseteq Tokens /\ sessions' \in [DOMAIN sessions' -> Row]
          /\ DOMAIN issued' \subseteq Tokens /\ issued' \in [DOMAIN issued' -> Issue]
      <3>1. /\ next[r] \in Row
            /\ DOMAIN sessions' = DOMAIN sessions \cup {next[r].token}
            /\ sessions' \in [DOMAIN sessions' -> Row]
            /\ DOMAIN issued' = DOMAIN issued \cup {next[r].token}
            /\ issued' \in [DOMAIN issued' -> Issue]
        BY <1>5, InsertStep
      <3> QED BY <3>1 DEF TypeOK, Row
    <2> QED BY <1>5, <2>1 DEF Rotate, CreateSession, Insert, Goto, TypeOK, PCs
  <1>6. ASSUME NEW r \in Requests, Prune(r) \/ DropSession(r) \/ DeleteFinish(r)
        PROVE  TypeOK'
    <2>1. /\ DOMAIN sessions' \subseteq DOMAIN sessions
          /\ sessions' \in [DOMAIN sessions' -> Row]
      <3>1. Remove(Expired(user[r])) \/ Remove({cur[r].token}) \/ Remove(doomed[r])
        BY <1>6 DEF Prune, DropSession, DeleteFinish
      <3> QED BY <3>1, RemoveStep
    <2>2. cur[r] # None => cur[r].family \in Tokens
      BY DEF TypeOK, Row
    <2>3. loggedOut' \subseteq Tokens
      BY <1>6, <2>2 DEF Prune, DropSession, DeleteFinish, TypeOK
    <2> QED BY <1>6, <2>1, <2>3 DEF Prune, DropSession, DeleteFinish, Return, TypeOK, PCs
  <1>7. ASSUME NEW r \in Requests, DeleteStart(r)
        PROVE  TypeOK'
    <2>1. Matched(r) \subseteq Tokens
      BY <1>7 DEF DeleteStart, Matched, DeleteByFamilyID, DeleteByUserID, DeleteAll, TypeOK, RevokeScopes
    <2> QED BY <1>7, <2>1 DEF DeleteStart, Goto, TypeOK, PCs
  <1>8. ASSUME NEW r \in Requests, NEW u \in Users,
               Login(r, u) \/ RevokeUserSessions(r, u) \/ DeleteAccount(r, u)
        PROVE  TypeOK'
    BY <1>8 DEF Login, RevokeUserSessions, DeleteAccount, Goto, history, TypeOK, PCs, RevokeScopes
  <1>9. ASSUME NEW r \in Requests, NEW t \in Tokens, RefreshLookup(r, t)
        PROVE  TypeOK'
    BY <1>9 DEF RefreshLookup, ReadSession, Goto, TypeOK, PCs
  <1>10. ASSUME NEW r \in Requests, NEW t \in Tokens, Mint(r, t)
         PROVE  TypeOK'
    <2>1. BuildSession(r, t) \in Row
      BY <1>10, BuiltRow DEF Mint
    <2> QED BY <1>10, <2>1 DEF Mint, Goto, history, TypeOK, PCs
  <1>11. ASSUME NEW r \in Requests, NEW u \in Users, NEW t \in Tokens, Logout(r, u, t)
         PROVE  TypeOK'
    BY <1>11 DEF Logout, ReadSession, Goto, history, TypeOK, PCs, RevokeScopes
  <1> QED
    BY <1>1, <1>2, <1>3, <1>4, <1>5, <1>6, <1>7, <1>8, <1>9, <1>10, <1>11 DEF Next

-----------------------------------------------------------------------------
(* The locals of a request.                                                *)

\* A step of request r leaves the locals of every other request alone.
StepOf(r) ==
  \/ RefreshClassify(r) \/ LoadUser(r) \/ Rotate(r) \/ RotateLost(r)
  \/ CreateSession(r) \/ Prune(r) \/ DropSession(r)
  \/ RevokeAllSessions(r) \/ DeleteStart(r) \/ DeleteFinish(r) \/ Abort(r)
  \/ \E u \in Users : Login(r, u) \/ RevokeUserSessions(r, u) \/ DeleteAccount(r, u)
  \/ \E t \in Tokens : RefreshLookup(r, t) \/ Mint(r, t)
  \/ \E u \in Users, t \in Tokens : Logout(r, u, t)

Environment == Tick \/ \E u \in Users : DeleteUser(u) \/ RestoreUser(u)

LEMMA NextForms == Next <=> (Environment \/ \E r \in Requests : StepOf(r))
  BY DEF Next, Environment, StepOf

LEMMA OthersKeepLocals ==
  ASSUME TypeOK, NEW r \in Requests, StepOf(r), NEW q \in Requests, q # r
  PROVE  /\ pc'[q] = pc[q] /\ user'[q] = user[q] /\ cur'[q] = cur[q]
         /\ next'[q] = next[q] /\ doomed'[q] = doomed[q]
  BY DEF StepOf, TypeOK, RefreshClassify, LoadUser, Rotate, RotateLost, CreateSession, Prune,
         DropSession, RevokeAllSessions, DeleteStart, DeleteFinish, Abort, Login,
         RevokeUserSessions, DeleteAccount, RefreshLookup, Mint, Logout, ReadSession, Insert,
         Goto, Return, history

LEMMA EnvironmentKeepsAll ==
  ASSUME Environment \/ UNCHANGED vars
  PROVE  UNCHANGED <<sessions, pc, user, cur, next, doomed, issued, quiet, revoked, loggedOut>>
  BY DEF Environment, Tick, DeleteUser, RestoreUser, vars, locals, history

LEMMA ClockGrows ==
  ASSUME TypeOK, [Next]_vars, now <= MaxTime
  PROVE  now' \in Nat /\ now <= now' /\ now' <= MaxTime
  <1>1. CASE Tick
    BY <1>1 DEF Tick, TypeOK
  <1>2. CASE UNCHANGED now
    BY <1>2 DEF TypeOK
  <1> QED
    BY <1>1, <1>2 DEF Next, vars, TypeOK, RefreshClassify, LoadUser, Rotate, RotateLost,
         CreateSession, Prune, DropSession, RevokeAllSessions, DeleteStart, DeleteFinish, Abort,
         Login, RevokeUserSessions, DeleteAccount, RefreshLookup, Mint, Logout,
         DeleteUser, RestoreUser

LEMMA LocalsStep ==
  ASSUME IInv, [Next]_vars
  PROVE  LocalsOK'
  <1> SUFFICES ASSUME NEW q \in Requests PROVE LocalsAt(q)'
    BY DEF LocalsOK
  <1>1. TypeOK /\ LocalsAt(q)
    BY DEF IInv, LocalsOK
  <1>2. now' \in Nat /\ now <= now'
    BY ClockGrows DEF IInv
  <1>3. ASSUME pc'[q] = pc[q], user'[q] = user[q], cur'[q] = cur[q], next'[q] = next[q]
        PROVE  LocalsAt(q)'
    <2>1. PastExpiry(cur[q]) /\ cur[q] \in Row => PastExpiry(cur[q])'
      BY <1>1, <1>2, <1>3 DEF PastExpiry, TypeOK, Row
    <2>2. pc[q] = "dropSession" => cur[q] \in Row
      BY <1>1 DEF LocalsAt, TypeOK
    <2> QED BY <1>1, <1>3, <2>1, <2>2 DEF LocalsAt, Rotated
  <1>4. CASE Environment \/ UNCHANGED vars
    BY <1>3, <1>4, EnvironmentKeepsAll
  <1>5. ASSUME NEW r \in Requests, StepOf(r), r # q
        PROVE  LocalsAt(q)'
    BY <1>1, <1>3, <1>5, OthersKeepLocals
  <1>6. ASSUME pc'[q] = "idle", user'[q] = None, cur'[q] = None, next'[q] = None
        PROVE  LocalsAt(q)'
    BY <1>6 DEF LocalsAt, Reading, Building
  <1>7. ASSUME Return(q)
        PROVE  LocalsAt(q)'
    BY <1>1, <1>6, <1>7 DEF Return, TypeOK
  <1>8. CASE StepOf(q)
    <2> USE <1>1
    <2>1. CASE RefreshClassify(q)
      <3>1. cur[q] # None /\ cur[q] \in Row
        BY <2>1 DEF RefreshClassify, LocalsAt, TypeOK
      <3>2. \/ pc'[q] = "revokeFamily"
            \/ pc'[q] = "loadUser" /\ (Rotated(cur[q]) => RefreshTokenGrace > 0)
            \/ pc'[q] = "dropSession" /\ PastExpiry(cur[q])
        BY <2>1 DEF RefreshClassify, RefreshOutcome, InGrace, Goto, TypeOK
      <3>3. user'[q] = user[q] /\ cur'[q] = cur[q] /\ next'[q] = next[q] /\ now' = now
        BY <2>1 DEF RefreshClassify
      <3>4. pc[q] = "classify" /\ next[q] = None
        BY <2>1 DEF RefreshClassify, LocalsAt, Building
      <3> QED BY <3>1, <3>2, <3>3, <3>4 DEF LocalsAt, Reading, Building, Rotated, PastExpiry
    <2>2. CASE LoadUser(q)
      BY <1>7, <2>2 DEF LoadUser, Goto, LocalsAt, Reading, Building, Rotated, TypeOK, Row
    <2>3. CASE Rotate(q) \/ CreateSession(q)
      BY <2>3 DEF Rotate, CreateSession, Insert, Goto, LocalsAt, Reading, Building, TypeOK
    <2>4. CASE RotateLost(q)
      BY <1>7, <2>4 DEF RotateLost, Goto, LocalsAt, Reading, Building, TypeOK
    <2>5. CASE Prune(q) \/ DropSession(q) \/ DeleteFinish(q) \/ Abort(q)
      BY <1>7, <2>5 DEF Prune, DropSession, DeleteFinish, Abort
    <2>6. CASE RevokeAllSessions(q) \/ DeleteStart(q)
      BY <2>6 DEF RevokeAllSessions, DeleteStart, Goto, LocalsAt, Reading, Building, RevokeScopes,
                  history, TypeOK
    <2>7. CASE \E u \in Users : Login(q, u) \/ RevokeUserSessions(q, u) \/ DeleteAccount(q, u)
      BY <2>7 DEF Login, RevokeUserSessions, DeleteAccount, Goto, LocalsAt, Reading, Building,
                  history, TypeOK
    <2>8. CASE \E t \in Tokens : RefreshLookup(q, t)
      <3>1. PICK t \in Tokens : RefreshLookup(q, t)
        BY <2>8
      <3>2. pc'[q] = "classify" /\ cur'[q] = sessions[t] /\ sessions[t] \in Row
        BY <3>1 DEF RefreshLookup, ReadSession, Goto, TypeOK
      <3>3. cur'[q] # None
        BY <3>2
      <3> QED BY <3>1, <3>2, <3>3 DEF RefreshLookup, LocalsAt, Reading, Building
    <2>9. CASE \E t \in Tokens : Mint(q, t)
      <3>1. PICK t \in Tokens : Mint(q, t)
        BY <2>9
      <3>2. next'[q] \in Row
        BY <3>1, BuiltRow DEF Mint, TypeOK, IInv
      <3>3. /\ pc[q] = "mint" /\ cur'[q] = cur[q] /\ user'[q] = user[q]
            /\ pc'[q] = IF cur[q] = None \/ Rotated(cur[q]) THEN "create" ELSE "rotate"
        BY <3>1 DEF Mint, Goto, TypeOK
      <3>4. next'[q] # None
        BY <3>2
      <3> QED BY <3>3, <3>4 DEF LocalsAt, Reading, Building, Rotated
    <2>10. CASE \E u \in Users, t \in Tokens : Logout(q, u, t)
      <3>1. PICK u \in Users, t \in Tokens : Logout(q, u, t)
        BY <2>10
      <3>2. /\ pc'[q] = "revokeFamily" /\ user'[q] = u /\ next'[q] = next[q]
            /\ cur'[q] = sessions[t] /\ sessions[t] \in Row /\ sessions[t].user = u
        BY <3>1 DEF Logout, ReadSession, Goto, TypeOK
      <3>3. pc[q] = "idle" /\ cur'[q] # None
        BY <3>1, <3>2 DEF Logout
      <3> QED BY <3>2, <3>3 DEF LocalsAt, Reading, Building
    <2> QED
      BY <1>8, <2>1, <2>2, <2>3, <2>4, <2>5, <2>6, <2>7, <2>8, <2>9, <2>10 DEF StepOf
  <1> QED
    BY <1>4, <1>5, <1>8, NextForms

-----------------------------------------------------------------------------
(* The table and the copies of its rows against the ledger.                *)

\* Which steps write the table and the ledger.
LEMMA WritesByKind ==
  ASSUME [Next]_vars
  PROVE  \/ \E r \in Requests : Rotate(r) \/ CreateSession(r)
         \/ /\ issued' = issued
            /\ \/ sessions' = sessions
               \/ \E r \in Requests : Prune(r) \/ DropSession(r) \/ DeleteFinish(r)
  <1>1. CASE Environment \/ UNCHANGED vars
    BY <1>1, EnvironmentKeepsAll
  <1>2. ASSUME NEW r \in Requests, StepOf(r)
        PROVE  \/ Rotate(r) \/ CreateSession(r)
               \/ /\ issued' = issued
                  /\ sessions' = sessions \/ Prune(r) \/ DropSession(r) \/ DeleteFinish(r)
    BY <1>2 DEF StepOf, RefreshClassify, LoadUser, RotateLost, Prune, DropSession,
         RevokeAllSessions, DeleteStart, DeleteFinish, Abort, Login, RevokeUserSessions,
         DeleteAccount, RefreshLookup, Mint, Logout, history
  <1> QED
    BY <1>1, <1>2, NextForms

\* The ledger only grows.
LEMMA LedgerGrows ==
  ASSUME IInv, [Next]_vars
  PROVE  \A t \in DOMAIN issued : t \in DOMAIN issued' /\ issued'[t] = issued[t]
  <1>1. ASSUME NEW r \in Requests, Rotate(r) \/ CreateSession(r)
        PROVE  \A t \in DOMAIN issued : t \in DOMAIN issued' /\ issued'[t] = issued[t]
    BY <1>1, InsertStep DEF IInv
  <1> QED
    BY <1>1, WritesByKind

LEMMA RecordedStays ==
  ASSUME IInv, [Next]_vars, NEW s, Recorded(s)
  PROVE  Recorded(s)'
  BY LedgerGrows DEF Recorded, Children

LEMMA LedgerStep ==
  ASSUME IInv, [Next]_vars
  PROVE  LedgerOK'
  <1> USE DEF IInv
  <1>1. ASSUME NEW t \in DOMAIN issued'
        PROVE  issued'[t].row.token = t /\ issued'[t].row.rotatedAt = None
    <2>1. ASSUME NEW r \in Requests, Rotate(r) \/ CreateSession(r), t = next[r].token
          PROVE  issued'[t].row.token = t /\ issued'[t].row.rotatedAt = None
      <3>1. issued'[t].row = next[r] /\ next[r] \in Row
        BY <2>1, InsertStep
      <3>2. next[r].rotatedAt = None
        BY <3>1 DEF PendingOK
      <3> QED BY <2>1, <3>1, <3>2
    <2>2. ASSUME t \in DOMAIN issued
          PROVE  issued'[t].row.token = t /\ issued'[t].row.rotatedAt = None
      BY <2>2, LedgerGrows DEF LedgerOK
    <2>3. ASSUME NEW r \in Requests, Rotate(r) \/ CreateSession(r)
          PROVE  DOMAIN issued' = DOMAIN issued \cup {next[r].token}
      BY <2>3, InsertStep
    <2> QED BY <2>1, <2>2, <2>3, WritesByKind
  <1>2. ASSUME NEW t \in DOMAIN sessions'
        PROVE  sessions'[t].token = t /\ Recorded(sessions[t])'
    <2>1. ASSUME t \in DOMAIN sessions, sessions'[t] = sessions[t]
          PROVE  sessions'[t].token = t /\ Recorded(sessions[t])'
      BY <2>1, RecordedStays DEF LedgerOK
    <2>2. ASSUME NEW r \in Requests, Rotate(r) \/ CreateSession(r)
          PROVE  sessions'[t].token = t /\ Recorded(sessions[t])'
      <3> DEFINE tok == next[r].token
      <3>1. /\ next[r] \in Row /\ tok \in DOMAIN issued' /\ issued'[tok].row = next[r]
            /\ DOMAIN sessions' = DOMAIN sessions \cup {tok} /\ sessions'[tok] = next[r]
            /\ tok \notin DOMAIN sessions
        BY <2>2, InsertStep
      <3>2. CASE t = tok
        <4>1. next[r].rotatedAt = None
          BY <3>1 DEF PendingOK
        <4>2. next[r] = [next[r] EXCEPT !.rotatedAt = next[r].rotatedAt]
          BY <3>1 DEF Row
        <4> QED BY <3>1, <3>2, <4>1, <4>2 DEF Recorded
      <3>3. CASE t # tok /\ sessions'[t] = sessions[t]
        BY <2>1, <3>1, <3>3
      <3>4. CASE t # tok /\ sessions'[t] # sessions[t]
        <4>1. /\ pc[r] = "rotate" /\ t = cur[r].token /\ t \in DOMAIN sessions
              /\ sessions'[t] = [sessions[t] EXCEPT !.rotatedAt = next[r].createdAt]
              /\ issued'[tok].parent = IF cur[r] = None THEN None ELSE cur[r].token
              /\ issued'[tok].via = IF pc[r] = "rotate" THEN "rotate"
                                    ELSE IF cur[r] = None THEN "login" ELSE "sibling"
          BY <2>2, <3>1, <3>4, InsertStep
        <4>2. cur[r] # None
          BY <4>1 DEF LocalsOK, LocalsAt
        <4>3. tok \in Children(t, "rotate")'
          BY <3>1, <4>1, <4>2 DEF Children
        <4>4. /\ sessions[t] \in Row /\ sessions[t].token = t /\ Recorded(sessions[t])
          BY <4>1 DEF LedgerOK, TypeOK
        <4>5. sessions'[t].token = t /\ sessions'[t].rotatedAt = next[r].createdAt
          BY <4>1, <4>4 DEF Row
        <4>6. t \in DOMAIN issued' /\ issued'[t] = issued[t]
          BY <4>4, LedgerGrows DEF Recorded
        <4>7. sessions'[t] = [issued'[t].row EXCEPT !.rotatedAt = sessions'[t].rotatedAt]
          <5>1. issued[t].row \in Row
            BY <4>4 DEF Recorded, TypeOK, Issue
          <5> QED BY <4>1, <4>4, <4>5, <4>6, <5>1 DEF Recorded, Row
        <4> QED BY <3>1, <4>3, <4>5, <4>6, <4>7 DEF Recorded
      <3> QED BY <3>2, <3>3, <3>4
    <2>3. ASSUME NEW r \in Requests, Prune(r) \/ DropSession(r) \/ DeleteFinish(r)
          PROVE  t \in DOMAIN sessions /\ sessions'[t] = sessions[t]
      <3>1. Remove(Expired(user[r])) \/ Remove({cur[r].token}) \/ Remove(doomed[r])
        BY <2>3 DEF Prune, DropSession, DeleteFinish
      <3> QED BY <3>1, RemoveStep
    <2> QED BY <2>1, <2>2, <2>3, WritesByKind
  <1>3. ASSUME NEW q \in Requests, cur'[q] # None
        PROVE  Recorded(cur[q])'
    <2>1. ASSUME cur'[q] = cur[q]
          PROVE  Recorded(cur[q])'
      BY <1>3, <2>1, RecordedStays DEF LedgerOK
    <2>2. ASSUME NEW t \in DOMAIN sessions, cur'[q] = sessions[t]
          PROVE  Recorded(cur[q])'
      BY <2>2, RecordedStays DEF LedgerOK
    <2>3. CASE Environment \/ UNCHANGED vars
      BY <2>1, <2>3, EnvironmentKeepsAll
    <2>4. ASSUME NEW r \in Requests, StepOf(r), r # q
          PROVE  Recorded(cur[q])'
      BY <2>1, <2>4, OthersKeepLocals
    <2>5. ASSUME StepOf(q)
          PROVE  cur'[q] = cur[q] \/ \E t \in DOMAIN sessions : cur'[q] = sessions[t]
      BY <1>3, <2>5 DEF StepOf, TypeOK, RefreshClassify, LoadUser, Rotate, RotateLost, CreateSession,
           Prune, DropSession, RevokeAllSessions, DeleteStart, DeleteFinish, Abort, Login,
           RevokeUserSessions, DeleteAccount, RefreshLookup, Mint, Logout, ReadSession, Insert,
           Return, history
    <2> QED BY <2>1, <2>2, <2>3, <2>4, <2>5, NextForms
  <1> QED
    BY <1>1, <1>2, <1>3 DEF LedgerOK

-----------------------------------------------------------------------------
(* Rows about to be inserted.                                              *)

\* A row a request still holds after a step is the one it held before, and its
\* other locals are too, unless the step was its Mint.
LEMMA NextRowOrigin ==
  ASSUME IInv, [Next]_vars, NEW q \in Requests, next'[q] # None
  PROVE  \/ /\ next'[q] = next[q] /\ cur'[q] = cur[q] /\ user'[q] = user[q]
            /\ ~(Rotate(q) \/ CreateSession(q))
         \/ \E t \in Tokens : Mint(q, t)
  <1> USE DEF IInv
  <1>1. CASE Environment \/ UNCHANGED vars
    <2>1. UNCHANGED <<next, cur, user>>
      BY <1>1, EnvironmentKeepsAll
    <2>2. ~(Rotate(q) \/ CreateSession(q))
      BY <2>1 DEF Rotate, CreateSession, Insert, TypeOK
    <2> QED BY <2>1, <2>2
  <1>2. ASSUME NEW r \in Requests, StepOf(r), r # q
        PROVE  /\ next'[q] = next[q] /\ cur'[q] = cur[q] /\ user'[q] = user[q]
               /\ ~(Rotate(q) \/ CreateSession(q))
    <2>1. next'[q] = next[q] /\ cur'[q] = cur[q] /\ user'[q] = user[q]
      BY <1>2, OthersKeepLocals
    <2>2. ~(Rotate(q) \/ CreateSession(q))
      BY DEF Rotate, CreateSession, Insert, TypeOK
    <2> QED BY <2>1, <2>2
  <1>3. CASE StepOf(q)
    <2>1. ~(Rotate(q) \/ CreateSession(q) \/ Return(q))
      BY DEF Rotate, CreateSession, Insert, Return, TypeOK
    <2>2. CASE pc[q] \in Building
      <3>1. RotateLost(q)
        BY <1>3, <2>1, <2>2 DEF Building, RevokeScopes, StepOf, RefreshClassify, LoadUser, Prune,
           DropSession, RevokeAllSessions, DeleteStart, DeleteFinish, Abort, Login,
           RevokeUserSessions, DeleteAccount, RefreshLookup, Mint, Logout
      <3> QED BY <2>1, <3>1 DEF RotateLost
    <2>3. CASE pc[q] \notin Building
      <3>1. next[q] = None
        BY <2>3 DEF LocalsOK, LocalsAt
      <3>2. \E t \in Tokens : Mint(q, t)
        BY <1>3, <2>1, <3>1 DEF StepOf, RefreshClassify, LoadUser, RotateLost, Prune, DropSession,
           RevokeAllSessions, DeleteStart, DeleteFinish, Abort, Login, RevokeUserSessions,
           DeleteAccount, RefreshLookup, Logout, history
      <3> QED BY <3>2
    <2> QED BY <2>2, <2>3
  <1> QED
    BY <1>1, <1>2, <1>3, NextForms

LEMMA PendingStep ==
  ASSUME IInv, [Next]_vars
  PROVE  PendingOK'
  <1> USE DEF IInv
  <1>1. now' \in Nat /\ now <= now'
    BY ClockGrows
  <1>2. ASSUME NEW q \in Requests, NEW t \in Tokens, Mint(q, t)
        PROVE  /\ next'[q] = BuildSession(q, t) /\ next'[q].token = t
               /\ cur'[q] = cur[q] /\ user'[q] = user[q]
               /\ t \notin DOMAIN issued' /\ issued' = issued
               /\ \A p \in Requests : p # q => next'[p] = next[p] /\ (next[p] # None => next[p].token # t)
    BY <1>2 DEF Mint, Fresh, TypeOK, BuildSession, history
  <1>3. ASSUME NEW q \in Requests, next'[q] # None
        PROVE  next'[q].token \notin DOMAIN issued'
    <2>1. CASE \E t \in Tokens : Mint(q, t)
      BY <1>2, <2>1
    <2>2. CASE next'[q] = next[q] /\ ~(Rotate(q) \/ CreateSession(q))
      <3>1. next[q].token \notin DOMAIN issued
        BY <1>3, <2>2 DEF PendingOK
      <3>2. ASSUME NEW r \in Requests, Rotate(r) \/ CreateSession(r)
            PROVE  next[q].token \notin DOMAIN issued'
        <4>1. r # q /\ next[r] # None
          BY <2>2, <3>2 DEF Rotate, CreateSession, LocalsOK, LocalsAt, Building
        <4>2. next[q].token # next[r].token
          BY <1>3, <2>2, <4>1 DEF PendingOK
        <4>3. DOMAIN issued' = DOMAIN issued \cup {next[r].token}
          BY <3>2, InsertStep
        <4> QED BY <3>1, <4>2, <4>3
      <3> QED BY <2>2, <3>1, <3>2, WritesByKind
    <2> QED BY <1>3, <2>1, <2>2, NextRowOrigin
  <1>4. ASSUME NEW q \in Requests, NEW p \in Requests, p # q, next'[q] # None, next'[p] # None
        PROVE  next'[p].token # next'[q].token
    <2>1. CASE \E t \in Tokens : Mint(q, t)
      BY <1>2, <1>4, <2>1
    <2>2. CASE \E t \in Tokens : Mint(p, t)
      BY <1>2, <1>4, <2>2
    <2>3. CASE next'[q] = next[q] /\ next'[p] = next[p]
      BY <1>4, <2>3 DEF PendingOK
    <2> QED BY <1>4, <2>1, <2>2, <2>3, NextRowOrigin
  <1>5. ASSUME NEW q \in Requests, next'[q] # None
        PROVE  /\ next'[q].rotatedAt = None
               /\ next'[q].user = user'[q]
               /\ next'[q].expiresAt <= next'[q].absoluteExpiresAt
               /\ IF cur'[q] = None
                  THEN /\ next'[q].family = next'[q].token
                       /\ next'[q].absoluteExpiresAt = next'[q].createdAt + RefreshTokenAbsolute
                       /\ next'[q].createdAt <= now'
                  ELSE /\ next'[q].family = cur'[q].family
                       /\ next'[q].absoluteExpiresAt = cur'[q].absoluteExpiresAt
    <2>1. ASSUME NEW t \in Tokens, Mint(q, t)
          PROVE  /\ next'[q].rotatedAt = None
                 /\ next'[q].user = user[q]
                 /\ next'[q].createdAt = now
                 /\ next'[q].expiresAt <= next'[q].absoluteExpiresAt
                 /\ IF cur[q] = None
                    THEN /\ next'[q].family = t
                         /\ next'[q].absoluteExpiresAt = now + RefreshTokenAbsolute
                    ELSE /\ next'[q].family = cur[q].family
                         /\ next'[q].absoluteExpiresAt = cur[q].absoluteExpiresAt
      <3>1. next'[q] = BuildSession(q, t)
        BY <1>2, <2>1
      <3>2. cur[q] # None => cur[q].absoluteExpiresAt \in Nat
        BY DEF TypeOK, Row
      <3> QED BY <3>1, <3>2 DEF BuildSession, Earlier, TypeOK
    <2>2. CASE \E t \in Tokens : Mint(q, t)
      <3>1. now \in Nat
        BY DEF TypeOK
      <3> QED BY <1>1, <1>2, <2>1, <2>2, <3>1
    <2>3. CASE next'[q] = next[q] /\ cur'[q] = cur[q] /\ user'[q] = user[q]
      <3>1. next[q] \in Row /\ next[q].createdAt \in Nat /\ now \in Nat
        BY <1>5, <2>3 DEF TypeOK, Row
      <3> QED BY <1>1, <1>5, <2>3, <3>1 DEF PendingOK
    <2> QED BY <1>5, <2>2, <2>3, NextRowOrigin
  <1> QED
    BY <1>3, <1>4, <1>5 DEF PendingOK

-----------------------------------------------------------------------------
(* The ledger: deadlines, parents and successors.                          *)

\* A family has one owner and one deadline, those of its root.
LEMMA FamilyDeadlineStep ==
  ASSUME IInv, [Next]_vars
  PROVE  FamilyDeadline'
  <1> USE DEF IInv
  <1>1. ASSUME NEW r \in Requests, Rotate(r) \/ CreateSession(r)
        PROVE  FamilyDeadline'
    <2> DEFINE tok == next[r].token
    <2>1. /\ next[r] \in Row /\ tok \notin DOMAIN issued
          /\ DOMAIN issued' = DOMAIN issued \cup {tok}
          /\ \A t \in DOMAIN issued : issued'[t] = issued[t]
          /\ issued'[tok].row = next[r]
      BY <1>1, InsertStep
    <2>2. /\ next[r].user = user[r] /\ next[r].expiresAt <= next[r].absoluteExpiresAt
          /\ IF cur[r] = None
             THEN /\ next[r].family = tok
                  /\ next[r].absoluteExpiresAt = next[r].createdAt + RefreshTokenAbsolute
             ELSE /\ next[r].family = cur[r].family
                  /\ next[r].absoluteExpiresAt = cur[r].absoluteExpiresAt
      BY <2>1 DEF PendingOK
    <2>3. cur[r] # None =>
            LET i == issued[cur[r].token].row IN
            /\ cur[r].token \in DOMAIN issued
            /\ cur[r].family = i.family /\ cur[r].user = i.user
            /\ cur[r].absoluteExpiresAt = i.absoluteExpiresAt
            /\ user[r] = cur[r].user
      <3>1. ASSUME cur[r] # None
            PROVE  /\ cur[r].token \in DOMAIN issued
                   /\ cur[r] = [issued[cur[r].token].row EXCEPT !.rotatedAt = cur[r].rotatedAt]
        BY <3>1 DEF LedgerOK, Recorded
      <3>2. cur[r] # None => issued[cur[r].token].row \in Row
        BY <3>1 DEF TypeOK, Issue
      <3>3. cur[r] # None => user[r] = cur[r].user
        BY <1>1 DEF Rotate, CreateSession, LocalsOK, LocalsAt
      <3> QED BY <3>1, <3>2, <3>3 DEF Row
    <2>4. ASSUME NEW t \in DOMAIN issued
          PROVE  /\ issued'[t].row.family \in DOMAIN issued'
                 /\ LET root == issued'[issued'[t].row.family].row IN
                    /\ issued'[t].row.user = root.user
                    /\ issued'[t].row.absoluteExpiresAt = root.createdAt + RefreshTokenAbsolute
                 /\ issued'[t].row.expiresAt <= issued'[t].row.absoluteExpiresAt
      BY <2>1 DEF FamilyDeadline
    <2>5. CASE cur[r] = None
      <3>1. /\ next[r].family = tok /\ tok \in DOMAIN issued' /\ issued'[tok].row = next[r]
            /\ next[r].absoluteExpiresAt = next[r].createdAt + RefreshTokenAbsolute
        BY <2>1, <2>2, <2>5
      <3> QED BY <2>1, <2>2, <2>4, <3>1 DEF FamilyDeadline
    <2>6. CASE cur[r] # None
      <3>1. PICK c \in DOMAIN issued : /\ cur[r].token = c
                                      /\ next[r].family = issued[c].row.family
                                      /\ next[r].user = issued[c].row.user
                                      /\ next[r].absoluteExpiresAt = issued[c].row.absoluteExpiresAt
        BY <2>2, <2>3, <2>6
      <3>2. PICK f : f = next[r].family
        OBVIOUS
      <3>3. /\ f \in DOMAIN issued
            /\ next[r].user = issued[f].row.user
            /\ next[r].absoluteExpiresAt = issued[f].row.createdAt + RefreshTokenAbsolute
        BY <3>1, <3>2 DEF FamilyDeadline
      <3>4. f # tok /\ issued'[f] = issued[f]
        BY <2>1, <3>3
      <3>5. /\ next[r].family \in DOMAIN issued'
            /\ next[r].user = issued'[next[r].family].row.user
            /\ next[r].absoluteExpiresAt = issued'[next[r].family].row.createdAt + RefreshTokenAbsolute
        BY <2>1, <3>2, <3>3, <3>4
      <3> QED BY <2>1, <2>2, <2>4, <3>5 DEF FamilyDeadline
    <2> QED BY <2>5, <2>6
  <1>2. CASE issued' = issued
    BY <1>2 DEF FamilyDeadline
  <1> QED
    BY <1>1, <1>2, WritesByKind

\* A row that was rotated or is gone can never be rotated (again).
LEMMA NeverRotatedAgain ==
  ASSUME IInv, [Next]_vars, NEW p \in DOMAIN issued, ~CanRotate(p)
  PROVE  ~CanRotate(p)'
  <1> USE DEF IInv
  <1>1. ASSUME NEW r \in Requests, Rotate(r) \/ CreateSession(r)
        PROVE  ~CanRotate(p)'
    <2>1. /\ next[r].token \notin DOMAIN issued
          /\ DOMAIN sessions' = DOMAIN sessions \cup {next[r].token}
      BY <1>1, InsertStep
    <2>2. ASSUME p \in DOMAIN sessions
          PROVE  \/ sessions'[p] = sessions[p]
                 \/ pc[r] = "rotate" /\ p = cur[r].token
      BY <1>1, <2>2, InsertStep
    <2>3. pc[r] = "rotate" => CanRotate(cur[r].token)
      BY <1>1, InsertStep
    <2> QED BY <2>1, <2>2, <2>3 DEF CanRotate, Rotated
  <1>2. ASSUME NEW r \in Requests, Prune(r) \/ DropSession(r) \/ DeleteFinish(r)
        PROVE  ~CanRotate(p)'
    <2>1. Remove(Expired(user[r])) \/ Remove({cur[r].token}) \/ Remove(doomed[r])
      BY <1>2 DEF Prune, DropSession, DeleteFinish
    <2>2. /\ DOMAIN sessions' \subseteq DOMAIN sessions
          /\ \A t \in DOMAIN sessions' : sessions'[t] = sessions[t]
      BY <2>1, RemoveStep
    <2> QED BY <2>2 DEF CanRotate, Rotated
  <1>3. CASE sessions' = sessions
    BY <1>3 DEF CanRotate, Rotated
  <1> QED
    BY <1>1, <1>2, <1>3, WritesByKind

LEMMA ParentsStep ==
  ASSUME IInv, [Next]_vars
  PROVE  ParentsOK' /\ SingleSuccessor'
  <1> USE DEF IInv
  <1>3. ASSUME NEW t \in DOMAIN issued, issued[t].via = "rotate"
        PROVE  ~(issued[t].parent \in DOMAIN sessions' /\ sessions'[issued[t].parent].rotatedAt = None)
    <2>1. PICK p : p = issued[t].parent
      OBVIOUS
    <2>2. p \in DOMAIN issued /\ ~CanRotate(p)
      BY <1>3, <2>1 DEF ParentsOK
    <2>3. ~CanRotate(p)'
      BY <2>2, NeverRotatedAgain
    <2> QED BY <2>1, <2>3 DEF CanRotate, Rotated
  <1>1. ASSUME NEW r \in Requests, Rotate(r) \/ CreateSession(r)
        PROVE  ParentsOK' /\ SingleSuccessor'
    <2> DEFINE tok == next[r].token
               parent == IF cur[r] = None THEN None ELSE cur[r].token
               via == IF pc[r] = "rotate" THEN "rotate"
                      ELSE IF cur[r] = None THEN "login" ELSE "sibling"
    <2>1. /\ next[r] \in Row /\ tok \notin DOMAIN issued
          /\ DOMAIN issued' = DOMAIN issued \cup {tok}
          /\ \A t \in DOMAIN issued : issued'[t] = issued[t]
          /\ issued'[tok].row = next[r] /\ issued'[tok].parent = parent /\ issued'[tok].via = via
      BY <1>1, InsertStep
    <2>2. cur[r] = None => next[r].family = tok /\ pc[r] # "rotate"
      BY <2>1 DEF PendingOK, LocalsOK, LocalsAt
    <2>3. cur[r] # None =>
            /\ cur[r] \in Row /\ parent \in DOMAIN issued /\ parent # tok /\ parent # None
            /\ issued[parent].row.family = next[r].family
      <3>1. ASSUME cur[r] # None
            PROVE  /\ cur[r] \in Row /\ cur[r].token \in DOMAIN issued
                   /\ cur[r] = [issued[cur[r].token].row EXCEPT !.rotatedAt = cur[r].rotatedAt]
                   /\ next[r].family = cur[r].family
        BY <3>1, <2>1 DEF LedgerOK, Recorded, TypeOK, PendingOK
      <3>2. cur[r] # None => issued[cur[r].token].row \in Row
        BY <3>1 DEF TypeOK, Issue
      <3> QED BY <2>1, <3>1, <3>2 DEF Row
    <2>4. pc[r] = "rotate" => /\ CanRotate(parent)
                              /\ ~(parent \in DOMAIN sessions' /\ sessions'[parent].rotatedAt = None)
      <3>1. ASSUME pc[r] = "rotate"
            PROVE  /\ CanRotate(cur[r].token) /\ cur[r] # None
                   /\ sessions'[cur[r].token].rotatedAt = next[r].createdAt
        BY <1>1, <3>1, <2>2, InsertStep
      <3>2. next[r].createdAt # None
        BY <2>1 DEF Row
      <3> QED BY <3>1, <3>2
    <2>5. via = "sibling" => RefreshTokenGrace > 0
      BY <1>1 DEF Rotate, CreateSession, LocalsOK, LocalsAt
    <2>6. ASSUME NEW t \in DOMAIN issued'
          PROVE  LET p == issued'[t].parent IN
                 /\ p = None <=> issued'[t].via = "login"
                 /\ p = None => issued'[t].row.family = t
                 /\ p # None => /\ p \in DOMAIN issued'
                                /\ p # t
                                /\ issued'[p].row.family = issued'[t].row.family
                 /\ issued'[t].via = "rotate" =>
                      ~(p \in DOMAIN sessions' /\ sessions'[p].rotatedAt = None)
                 /\ issued'[t].via = "sibling" => RefreshTokenGrace > 0
      <3>1. CASE t = tok
        BY <2>1, <2>2, <2>3, <2>4, <2>5, <3>1
      <3>2. CASE t \in DOMAIN issued
        BY <2>1, <3>2, <1>3 DEF ParentsOK
      <3> QED BY <2>1, <3>1, <3>2
    <2>7. ParentsOK'
      BY <2>6 DEF ParentsOK, CanRotate, Rotated
    <2>8. ASSUME NEW p \in Tokens, NEW s, NEW t, s \in Children(p, "rotate")', t \in Children(p, "rotate")'
          PROVE  s = t
      <3>1. s = tok => ~(p \in DOMAIN issued /\ ~CanRotate(p))
        BY <2>1, <2>4, <2>8 DEF Children
      <3>2. t = tok => ~(p \in DOMAIN issued /\ ~CanRotate(p))
        BY <2>1, <2>4, <2>8 DEF Children
      <3>3. ASSUME NEW c \in DOMAIN issued, c \in Children(p, "rotate")'
            PROVE  c \in Children(p, "rotate") /\ p \in DOMAIN issued /\ ~CanRotate(p)
        <4>1. c \in Children(p, "rotate")
          BY <2>1, <3>3 DEF Children
        <4> QED BY <4>1 DEF Children, ParentsOK
      <3> QED BY <2>1, <2>8, <3>1, <3>2, <3>3 DEF SingleSuccessor, Children
    <2> QED BY <2>7, <2>8 DEF SingleSuccessor
  <1>2. CASE issued' = issued
    <2>1. SingleSuccessor'
      BY <1>2 DEF SingleSuccessor, Children
    <2>2. ParentsOK'
      BY <1>2, <1>3 DEF ParentsOK, CanRotate, Rotated
    <2> QED BY <2>1, <2>2
  <1> QED
    BY <1>1, <1>2, WritesByKind


-----------------------------------------------------------------------------
(* Revocation.                                                             *)

\* What the ledger says of a row or of a copy of one: its family and user are
\* those it was issued with, and its user is the one of the family's root.
LEMMA RowOfFamily ==
  ASSUME IInv, NEW s \in Row, Recorded(s)
  PROVE  /\ s.token \in DOMAIN issued
         /\ s.family \in DOMAIN issued
         /\ s.family = issued[s.token].row.family
         /\ s.user = issued[s.token].row.user
         /\ s.user = issued[s.family].row.user
  <1> USE DEF IInv
  <1>1. /\ s.token \in DOMAIN issued
        /\ s = [issued[s.token].row EXCEPT !.rotatedAt = s.rotatedAt]
    BY DEF Recorded
  <1>2. issued[s.token].row \in Row
    BY <1>1 DEF TypeOK, Issue
  <1>3. s.family = issued[s.token].row.family /\ s.user = issued[s.token].row.user
    BY <1>1, <1>2 DEF Row
  <1>4. /\ issued[s.token].row.family \in DOMAIN issued
        /\ issued[s.token].row.user = issued[issued[s.token].row.family].row.user
    BY <1>1 DEF FamilyDeadline
  <1> QED BY <1>1, <1>3, <1>4

\* A request comes to hold a family only by reading one of its rows.
LEMMA HoldsOrigin ==
  ASSUME IInv, [Next]_vars, NEW q \in Requests, NEW f, Holds(q, f)'
  PROVE  \/ Holds(q, f)
         \/ \E t \in Tokens : RefreshLookup(q, t) /\ sessions[t].family = f
  <1> USE DEF IInv
  <1>1. ASSUME pc'[q] = pc[q], cur'[q] = cur[q]
        PROVE  Holds(q, f)
    BY <1>1 DEF Holds
  <1>2. CASE Environment \/ UNCHANGED vars
    BY <1>1, <1>2, EnvironmentKeepsAll
  <1>3. ASSUME NEW r \in Requests, StepOf(r), r # q
        PROVE  Holds(q, f)
    BY <1>1, <1>3, OthersKeepLocals
  <1>4. CASE StepOf(q)
    <2>1. ~Return(q)
      BY DEF Return, Holds, TypeOK
    <2>2. pc[q] = "idle" => cur[q] = None
      BY DEF LocalsOK, LocalsAt, Reading
    <2>3. CASE \E t \in Tokens : RefreshLookup(q, t)
      BY <2>3 DEF RefreshLookup, ReadSession, Holds, TypeOK
    <2>4. CASE \E u \in Users, t \in Tokens : Logout(q, u, t)
      BY <2>4 DEF Logout, Goto, Holds, TypeOK
    <2>5. CASE \E u \in Users : Login(q, u) \/ RevokeUserSessions(q, u) \/ DeleteAccount(q, u)
      BY <2>2, <2>5 DEF Login, RevokeUserSessions, DeleteAccount, Holds
    <2>6. CASE RefreshClassify(q) \/ LoadUser(q) \/ RotateLost(q) \/ \E t \in Tokens : Mint(q, t)
      BY <2>1, <2>6 DEF RefreshClassify, LoadUser, RotateLost, Mint, Holds
    <2>7. CASE Rotate(q) \/ CreateSession(q) \/ RevokeAllSessions(q) \/ DeleteStart(q)
      BY <2>7 DEF Rotate, CreateSession, Insert, RevokeAllSessions, DeleteStart, Goto, Holds, TypeOK
    <2>8. ~(Prune(q) \/ DropSession(q) \/ DeleteFinish(q) \/ Abort(q))
      BY <2>1 DEF Prune, DropSession, DeleteFinish, Abort
    <2> QED BY <1>4, <2>3, <2>4, <2>5, <2>6, <2>7, <2>8 DEF StepOf
  <1> QED BY <1>2, <1>3, <1>4, NextForms

\* A step that reads no row of a sealed family leaves it sealed: the rows the
\* requests insert belong to other families.
LEMMA SealedStays ==
  ASSUME IInv, [Next]_vars, NEW f, NEW ts, Sealed(f, ts),
         \A q \in Requests, t \in Tokens : RefreshLookup(q, t) => sessions[t].family # f
  PROVE  Sealed(f, ts)'
  <1> USE DEF IInv
  <1>1. f \in DOMAIN issued'
    BY LedgerGrows DEF Sealed
  <1>2. \A q \in Requests : ~Holds(q, f)'
    BY HoldsOrigin DEF Sealed
  <1>3. ASSUME NEW t \in DOMAIN sessions' \ ts
        PROVE  sessions'[t].family # f
    <2>1. CASE t \in DOMAIN sessions /\ sessions'[t] = sessions[t]
      BY <1>3, <2>1 DEF Sealed
    <2>2. ASSUME NEW r \in Requests, Rotate(r) \/ CreateSession(r)
          PROVE  sessions'[t].family # f
      <3> DEFINE tok == next[r].token
      <3>1. /\ next[r] \in Row /\ tok \notin DOMAIN issued
            /\ DOMAIN sessions' = DOMAIN sessions \cup {tok} /\ sessions'[tok] = next[r]
        BY <2>2, InsertStep
      <3>2. CASE t = tok
        <4>1. /\ cur[r] = None => next[r].family = tok
              /\ cur[r] # None => next[r].family = cur[r].family
          BY <3>1 DEF PendingOK
        <4>2. cur[r] # None => cur[r].family # f
          BY <2>2 DEF Sealed, Holds, Rotate, CreateSession
        <4> QED BY <3>1, <3>2, <4>1, <4>2 DEF Sealed
      <3>3. CASE t \in DOMAIN sessions
        <4>1. \/ sessions'[t] = sessions[t]
              \/ sessions'[t] = [sessions[t] EXCEPT !.rotatedAt = next[r].createdAt]
          BY <2>2, <3>3, InsertStep
        <4>2. sessions[t] \in Row
          BY <3>3 DEF TypeOK
        <4>3. sessions'[t].family = sessions[t].family
          BY <4>1, <4>2 DEF Row
        <4> QED BY <1>3, <3>3, <4>3 DEF Sealed
      <3> QED BY <3>1, <3>2, <3>3
    <2>3. ASSUME NEW r \in Requests, Prune(r) \/ DropSession(r) \/ DeleteFinish(r)
          PROVE  sessions'[t].family # f
      <3>1. Remove(Expired(user[r])) \/ Remove({cur[r].token}) \/ Remove(doomed[r])
        BY <2>3 DEF Prune, DropSession, DeleteFinish
      <3>2. t \in DOMAIN sessions /\ sessions'[t] = sessions[t]
        BY <3>1, RemoveStep
      <3> QED BY <2>1, <3>2
    <2> QED BY <2>1, <2>2, <2>3, WritesByKind
  <1> QED BY <1>1, <1>2, <1>3 DEF Sealed

\* A family counts as quiet from the snapshot of a DELETE to the end of it, and
\* only while nobody reads a row of it.
LEMMA QuietOrigin ==
  ASSUME IInv, [Next]_vars, NEW r \in Requests, NEW f \in quiet'[r]
  PROVE  \/ DeleteStart(r)
         \/ /\ f \in quiet[r] /\ pc'[r] = pc[r] /\ doomed'[r] = doomed[r]
            /\ \A q \in Requests, t \in Tokens : RefreshLookup(q, t) => sessions[t].family # f
  <1> USE DEF IInv
  <1>1. \A q \in Requests, t \in Tokens : RefreshLookup(q, t) => sessions[t].family # f
    BY DEF RefreshLookup, TypeOK
  <1>2. CASE Environment \/ UNCHANGED vars
    BY <1>1, <1>2, EnvironmentKeepsAll
  <1>3. ASSUME NEW q \in Requests, StepOf(q), q # r
        PROVE  f \in quiet[r]
    BY <1>3 DEF StepOf, TypeOK, RefreshClassify, LoadUser, Rotate, RotateLost, CreateSession,
         Prune, DropSession, RevokeAllSessions, DeleteStart, DeleteFinish, Abort, Login,
         RevokeUserSessions, DeleteAccount, RefreshLookup, Mint, Logout, Return, history
  <1>4. CASE StepOf(r)
    <2>1. ~Return(r)
      BY DEF Return, TypeOK
    <2>2. pc[r] # "deleting" => quiet[r] = {}
      BY DEF RevocationOK
    <2>3. DeleteStart(r) \/ f \in quiet[r]
      BY <1>4, <2>1 DEF StepOf, TypeOK, RefreshClassify, LoadUser, Rotate, RotateLost,
           CreateSession, Prune, DropSession, RevokeAllSessions, DeleteFinish, Abort, Login,
           RevokeUserSessions, DeleteAccount, RefreshLookup, Mint, Logout, history
    <2>4. pc[r] # "deleting"
      BY <1>4, <2>1 DEF StepOf, RefreshClassify, LoadUser, Rotate, RotateLost, CreateSession,
           Prune, DropSession, RevokeAllSessions, DeleteStart, DeleteFinish, Abort, Login,
           RevokeUserSessions, DeleteAccount, RefreshLookup, Mint, Logout, RevokeScopes
    <2> QED BY <2>2, <2>3, <2>4
  <1> QED BY <1>1, <1>2, <1>3, <1>4, OthersKeepLocals, NextForms

\* What a DELETE is about to remove: rows of the ledger, all of one account
\* unless it is the global one, and all rows of every family it touches.
LEMMA MatchedRows ==
  ASSUME IInv, NEW r \in Requests, pc[r] \in RevokeScopes
  PROVE  /\ Matched(r) \subseteq DOMAIN sessions
         /\ \A t \in Matched(r) : (cur[r] # None \/ user[r] # None) =>
              issued[t].row.user = IF user[r] # None THEN user[r] ELSE cur[r].user
         /\ \A t \in Matched(r) : \A s \in DOMAIN sessions \ Matched(r) :
              sessions[s].family # sessions[t].family
  <1> USE DEF IInv
  <1>1. ASSUME NEW t \in DOMAIN sessions
        PROVE  /\ sessions[t] \in Row /\ sessions[t].token = t
               /\ sessions[t].user = issued[t].row.user
               /\ sessions[t].user = issued[sessions[t].family].row.user
    <2>1. sessions[t] \in Row /\ sessions[t].token = t /\ Recorded(sessions[t])
      BY DEF LedgerOK, TypeOK
    <2> QED BY <2>1, RowOfFamily
  <1>2. CASE pc[r] = "revokeFamily"
    <2>1. cur[r] # None /\ cur[r] \in Row /\ (user[r] # None => user[r] = cur[r].user)
      BY <1>2 DEF LocalsOK, LocalsAt, TypeOK
    <2>2. cur[r].user = issued[cur[r].family].row.user
      BY <2>1, RowOfFamily DEF LedgerOK
    <2>3. Matched(r) = {t \in DOMAIN sessions : sessions[t].family = cur[r].family}
      BY <1>2 DEF Matched, DeleteByFamilyID
    <2> QED BY <1>1, <2>1, <2>2, <2>3
  <1>3. CASE pc[r] = "revokeUser"
    <2>1. user[r] # None
      BY <1>3 DEF LocalsOK, LocalsAt
    <2>2. Matched(r) = {t \in DOMAIN sessions : sessions[t].user = user[r]}
      BY <1>3 DEF Matched, DeleteByUserID
    <2> QED BY <1>1, <2>1, <2>2
  <1>4. CASE pc[r] = "revokeAll"
    <2>1. user[r] = None /\ cur[r] = None
      BY <1>4 DEF LocalsOK, LocalsAt, Reading
    <2>2. Matched(r) = DOMAIN sessions
      BY <1>4 DEF Matched, DeleteAll
    <2> QED BY <2>1, <2>2
  <1> QED BY <1>2, <1>3, <1>4 DEF RevokeScopes

\* The snapshot of a DELETE, step by step.
LEMMA DoomedOrigin ==
  ASSUME IInv, [Next]_vars, NEW r \in Requests
  PROVE  \/ DeleteStart(r)
         \/ doomed'[r] = {}
         \/ /\ pc[r] = "deleting" => pc'[r] = "deleting"
            /\ pc'[r] = "deleting" => pc[r] = "deleting" /\ user'[r] = user[r] /\ cur'[r] = cur[r]
            /\ doomed'[r] = doomed[r]
  <1> USE DEF IInv
  <1>1. CASE Environment \/ UNCHANGED vars
    BY <1>1, EnvironmentKeepsAll
  <1>2. ASSUME NEW q \in Requests, StepOf(q), q # r
        PROVE  /\ pc'[r] = pc[r] /\ user'[r] = user[r] /\ cur'[r] = cur[r]
               /\ doomed'[r] = doomed[r]
    BY <1>2, OthersKeepLocals
  <1>3. CASE StepOf(r)
    <2>1. Return(r) => doomed'[r] = {}
      BY DEF Return, TypeOK
    <2>2. RefreshClassify(r) => pc'[r] # "deleting"
      BY DEF RefreshClassify, RefreshOutcome, Goto, TypeOK
    <2> QED
      BY <1>3, <2>1, <2>2 DEF StepOf, TypeOK, RefreshClassify, LoadUser, Rotate, RotateLost,
           CreateSession, Insert, Prune, DropSession, RevokeAllSessions, DeleteFinish, Abort, Login,
           RevokeUserSessions, DeleteAccount, RefreshLookup, Mint, Logout, Goto, history, RevokeScopes
  <1> QED BY <1>1, <1>2, <1>3, NextForms

LEMMA RevocationStep ==
  ASSUME IInv, [Next]_vars
  PROVE  RevocationOK'
  <1> USE DEF IInv
  <1>1. ASSUME NEW r \in Requests
        PROVE  doomed'[r] \subseteq DOMAIN issued'
    <2>1. CASE DeleteStart(r)
      <3>1. Matched(r) \subseteq DOMAIN issued /\ doomed'[r] = Matched(r)
        BY <2>1, MatchedRows DEF DeleteStart, LedgerOK, Recorded, TypeOK
      <3> QED BY <3>1, LedgerGrows
    <2>2. CASE doomed'[r] = doomed[r]
      BY <2>2, LedgerGrows DEF RevocationOK
    <2> QED BY <2>1, <2>2, DoomedOrigin
  <1>2. ASSUME NEW r \in Requests, NEW f \in quiet'[r]
        PROVE  pc'[r] = "deleting" /\ Sealed(f, doomed[r])'
    <2>1. CASE DeleteStart(r)
      <3>1. /\ pc[r] \in RevokeScopes /\ pc'[r] = "deleting"
            /\ sessions' = sessions /\ issued' = issued /\ cur' = cur
            /\ \A q \in Requests : q # r => pc'[q] = pc[q]
        BY <2>1 DEF DeleteStart, Goto, TypeOK
      <3>2. PICK ts : ts = Matched(r)
        OBVIOUS
      <3>3. /\ doomed'[r] = ts
            /\ \E t \in ts : sessions[t].family = f
            /\ \A q \in Requests : ~Holds(q, f)
        BY <1>2, <2>1, <3>2 DEF DeleteStart, TypeOK
      <3>4. PICK t \in ts : sessions[t].family = f
        BY <3>3
      <3>5. t \in DOMAIN sessions /\ \A s \in DOMAIN sessions \ ts : sessions[s].family # f
        BY <3>1, <3>2, <3>4, MatchedRows
      <3>6. f \in DOMAIN issued
        BY <3>4, <3>5, RowOfFamily DEF LedgerOK, TypeOK
      <3>7. \A q \in Requests : ~Holds(q, f)'
        BY <3>1, <3>3 DEF Holds
      <3>8. Sealed(f, ts)'
        BY <3>1, <3>5, <3>6, <3>7 DEF Sealed
      <3> QED BY <3>1, <3>3, <3>8 DEF Sealed
    <2>2. CASE /\ f \in quiet[r] /\ pc'[r] = pc[r] /\ doomed'[r] = doomed[r]
               /\ \A q \in Requests, t \in Tokens : RefreshLookup(q, t) => sessions[t].family # f
      <3>1. PICK ts : ts = doomed[r]
        OBVIOUS
      <3>2. pc[r] = "deleting" /\ Sealed(f, ts)
        BY <2>2, <3>1 DEF RevocationOK
      <3>3. Sealed(f, ts)'
        BY <2>2, <3>2, SealedStays
      <3> QED BY <2>2, <3>1, <3>2, <3>3 DEF Sealed
    <2> QED BY <1>2, <2>1, <2>2, QuietOrigin
  <1>3. ASSUME NEW f \in revoked
        PROVE  Sealed(f, {})'
    <2>1. Sealed(f, {})
      BY DEF RevocationOK
    <2>2. \A q \in Requests, t \in Tokens : RefreshLookup(q, t) => sessions[t].family # f
      BY <2>1 DEF Sealed, RefreshLookup, ReadSession
    <2> QED BY <2>1, <2>2, SealedStays
  <1>4. ASSUME NEW r \in Requests, DeleteFinish(r), NEW f \in quiet[r]
        PROVE  Sealed(f, {})'
    <2>1. PICK ts : ts = doomed[r]
      OBVIOUS
    <2>2. Sealed(f, ts) /\ Remove(ts)
      BY <1>4, <2>1 DEF RevocationOK, DeleteFinish
    <2>3. Sealed(f, ts)'
      <3>1. \A q \in Requests, t \in Tokens : ~RefreshLookup(q, t)
        <4>1. pc[r] = "deleting" /\ pc'[r] = "idle"
          BY <1>4 DEF DeleteFinish, Return, TypeOK
        <4> QED BY <1>4, <4>1 DEF RefreshLookup, Goto, TypeOK
      <3> QED BY <2>2, <3>1, SealedStays
    <2>4. DOMAIN sessions' = DOMAIN sessions \ ts
      BY <2>2, RemoveStep
    <2> QED BY <2>3, <2>4 DEF Sealed
  <1>5. \/ revoked' = revoked
        \/ \E r \in Requests : DeleteFinish(r)
    <2>1. CASE Environment \/ UNCHANGED vars
      BY <2>1, EnvironmentKeepsAll
    <2>2. ASSUME NEW r \in Requests, StepOf(r)
          PROVE  revoked' = revoked \/ DeleteFinish(r)
      BY <2>2 DEF StepOf, RefreshClassify, LoadUser, Rotate, RotateLost, CreateSession, Prune,
           DropSession, RevokeAllSessions, DeleteStart, Abort, Login, RevokeUserSessions,
           DeleteAccount, RefreshLookup, Mint, Logout, history
    <2> QED BY <2>1, <2>2, NextForms
  <1>6. \A f \in revoked' : Sealed(f, {})'
    BY <1>3, <1>4, <1>5 DEF DeleteFinish
  <1> QED
    BY <1>1, <1>2, <1>6 DEF RevocationOK

LEMMA RevocationScopedStep ==
  ASSUME IInv, [Next]_vars
  PROVE  RevocationScoped'
  <1> USE DEF IInv
  <1> SUFFICES ASSUME NEW r \in Requests, pc'[r] = "deleting", cur'[r] # None \/ user'[r] # None,
                      NEW t \in doomed'[r]
               PROVE  issued'[t].row.user = IF user'[r] # None THEN user'[r] ELSE cur'[r].user
    BY DEF RevocationScoped
  <1>1. CASE DeleteStart(r)
    <2>1. /\ pc[r] \in RevokeScopes /\ doomed'[r] = Matched(r)
          /\ issued' = issued /\ cur' = cur /\ user' = user
      BY <1>1 DEF DeleteStart, TypeOK
    <2> QED BY <2>1, MatchedRows
  <1>2. CASE pc[r] = "deleting" /\ user'[r] = user[r] /\ cur'[r] = cur[r] /\ doomed'[r] = doomed[r]
    <2>1. t \in DOMAIN issued /\ issued'[t] = issued[t]
      BY <1>2, LedgerGrows DEF RevocationOK
    <2> QED BY <1>2, <2>1 DEF RevocationScoped
  <1> QED BY <1>1, <1>2, DoomedOrigin

-----------------------------------------------------------------------------
(* The theorems.                                                           *)

LEMMA InitEstablishes == Init => IInv
  <1> SUFFICES ASSUME Init PROVE IInv
    OBVIOUS
  <1> USE DEF Init
  <1>1. TypeOK
    BY DEF TypeOK, PCs
  <1>2. now <= MaxTime
    OBVIOUS
  <1>3. LocalsOK
    BY DEF LocalsOK, LocalsAt, Reading, Building
  <1>4. LedgerOK /\ PendingOK
    BY DEF LedgerOK, PendingOK
  <1>5. FamilyDeadline /\ ParentsOK /\ SingleSuccessor
    BY DEF FamilyDeadline, ParentsOK, SingleSuccessor, Children
  <1>6. RevocationOK /\ RevocationScoped
    BY DEF RevocationOK, RevocationScoped
  <1> QED BY <1>1, <1>2, <1>3, <1>4, <1>5, <1>6 DEF IInv

\* The inductive invariant holds in every reachable state.
THEOREM Invariance == Spec => []IInv
  <1>1. IInv /\ [Next]_vars => IInv'
    <2> SUFFICES ASSUME IInv, [Next]_vars PROVE IInv'
      OBVIOUS
    <2>1. now' <= MaxTime
      BY ClockGrows DEF IInv
    <2>2. TypeOK' /\ LocalsOK' /\ LedgerOK' /\ PendingOK'
      BY TypeStep, LocalsStep, LedgerStep, PendingStep
    <2>3. FamilyDeadline' /\ ParentsOK' /\ SingleSuccessor' /\ RevocationOK' /\ RevocationScoped'
      BY FamilyDeadlineStep, ParentsStep, RevocationStep, RevocationScopedStep
    <2> QED BY <2>1, <2>2, <2>3 DEF IInv
  <1> QED BY <1>1, InitEstablishes, PTL DEF Spec

\* Every variable keeps its type.
THEOREM TypeCorrect == Spec => []TypeOK
  <1>1. IInv => TypeOK
    BY DEF IInv
  <1> QED BY <1>1, Invariance, PTL

\* Every session of a family has the owner and the deadline its login set.
THEOREM DeadlineFixedAtLogin == Spec => []FamilyDeadline
  <1>1. IInv => FamilyDeadline
    BY DEF IInv
  <1> QED BY <1>1, Invariance, PTL

\* No race between refreshes rotates a token twice.
THEOREM RotatedOnce == Spec => []SingleSuccessor
  <1>1. IInv => SingleSuccessor
    BY DEF IInv
  <1> QED BY <1>1, Invariance, PTL

\* Without a grace window a token has at most one successor by any path.
THEOREM UsedOnce == Spec => []StrictSingleUse
  <1>1. IInv => StrictSingleUse
    <2> SUFFICES ASSUME IInv, RefreshTokenGrace = 0, NEW s \in DOMAIN issued, NEW t \in DOMAIN issued,
                        issued[s].parent = issued[t].parent, issued[s].parent # None
                 PROVE  s = t
      BY DEF StrictSingleUse
    <2>1. issued[s].via \in {"login", "rotate", "sibling"} /\ issued[t].via \in {"login", "rotate", "sibling"}
      BY DEF IInv, TypeOK, Issue
    <2>2. issued[s].via = "rotate" /\ issued[t].via = "rotate"
      BY <2>1 DEF IInv, ParentsOK
    <2>3. issued[s].parent \in Tokens
      BY DEF IInv, TypeOK, Issue
    <2> QED BY <2>2, <2>3 DEF IInv, SingleSuccessor, Children
  <1> QED BY <1>1, Invariance, PTL

\* A family whose revocation met no refresh in flight is never seen again.
THEOREM RevokedForGood == Spec => []RevocationIsFinal
  <1>1. IInv => RevocationIsFinal
    BY DEF IInv, RevocationOK, Sealed, RevocationIsFinal
  <1> QED BY <1>1, Invariance, PTL

\* A revocation aimed at one account or family touches that account only.
THEOREM RevokesOwnRows == Spec => []RevocationScoped
  <1>1. IInv => RevocationScoped
    BY DEF IInv
  <1> QED BY <1>1, Invariance, PTL

\* A request that has just been told its token is good took that step itself.
LEMMA AcceptsStep ==
  ASSUME IInv, [Next]_vars, NEW r \in Requests, Accepts(r)
  PROVE  /\ cur[r] \in Row /\ Recorded(cur[r])
         /\ ~PastAbsolute(cur[r])
         /\ Rotated(cur[r]) => InGrace(cur[r])
  <1> USE DEF IInv
  <1>1. pc[r] = "classify" /\ pc'[r] = "loadUser"
    BY DEF Accepts
  <1>2. ASSUME NEW q \in Requests, StepOf(q), q # r
        PROVE  FALSE
    BY <1>1, <1>2, OthersKeepLocals
  <1>3. ~(Environment \/ UNCHANGED vars)
    BY <1>1, EnvironmentKeepsAll
  <1>4. RefreshClassify(r)
    <2>1. StepOf(r)
      BY <1>2, <1>3, NextForms
    <2>2. ~Return(r)
      BY <1>1 DEF Return, TypeOK
    <2> QED BY <1>1, <2>1, <2>2 DEF StepOf, LoadUser, Rotate, RotateLost, CreateSession, Prune,
              DropSession, RevokeAllSessions, DeleteStart, DeleteFinish, Abort, Login,
              RevokeUserSessions, DeleteAccount, RefreshLookup, Mint, Logout, RevokeScopes
  <1>5. RefreshOutcome(cur[r]) = "loadUser"
    BY <1>1, <1>4 DEF RefreshClassify, Goto, TypeOK
  <1>6. cur[r] # None
    BY <1>1 DEF LocalsOK, LocalsAt
  <1> QED BY <1>5, <1>6 DEF RefreshOutcome, LedgerOK, TypeOK

\* No refresh is accepted past the deadline the family's login set.
THEOREM DeadlineEnforced == Spec => NoRedemptionPastDeadline
  <1>1. ASSUME IInv, [Next]_vars
        PROVE  [\A r \in Requests : Accepts(r) =>
                  now <= issued[cur[r].family].row.createdAt + RefreshTokenAbsolute]_vars
    <2> SUFFICES ASSUME NEW r \in Requests, Accepts(r)
                 PROVE  now <= issued[cur[r].family].row.createdAt + RefreshTokenAbsolute
      OBVIOUS
    <2>1. cur[r] \in Row /\ Recorded(cur[r]) /\ ~PastAbsolute(cur[r])
      BY <1>1, AcceptsStep
    <2>2. /\ cur[r].token \in DOMAIN issued
          /\ cur[r] = [issued[cur[r].token].row EXCEPT !.rotatedAt = cur[r].rotatedAt]
          /\ issued[cur[r].token].row \in Row
      BY <1>1, <2>1 DEF Recorded, IInv, TypeOK, Issue
    <2>3. /\ cur[r].family = issued[cur[r].token].row.family
          /\ cur[r].absoluteExpiresAt = issued[cur[r].token].row.absoluteExpiresAt
      BY <2>2 DEF Row
    <2>4. issued[cur[r].token].row.absoluteExpiresAt
            = issued[issued[cur[r].token].row.family].row.createdAt + RefreshTokenAbsolute
      BY <1>1, <2>2 DEF IInv, FamilyDeadline
    <2>5. cur[r].absoluteExpiresAt \in Nat /\ now \in Nat
      BY <1>1, <2>1 DEF Row, IInv, TypeOK
    <2>6. now <= cur[r].absoluteExpiresAt
      BY <2>1, <2>5 DEF PastAbsolute
    <2>7. cur[r].absoluteExpiresAt = issued[cur[r].family].row.createdAt + RefreshTokenAbsolute
      BY <2>3, <2>4
    <2> QED BY <2>6, <2>7
  <1> QED BY <1>1, Invariance, PTL DEF Spec, NoRedemptionPastDeadline

\* A rotated token is served only in the window that began at its rotation.
THEOREM GraceBounded == Spec => GraceAnchored
  <1>1. ASSUME IInv, [Next]_vars
        PROVE  [\A r \in Requests : (Accepts(r) /\ Rotated(cur[r])) =>
                  LET heirs == Children(cur[r].token, "rotate") IN
                  /\ heirs # {}
                  /\ \A t \in heirs : now <= issued[t].row.createdAt + RefreshTokenGrace]_vars
    <2> SUFFICES ASSUME NEW r \in Requests, Accepts(r), Rotated(cur[r])
                 PROVE  LET heirs == Children(cur[r].token, "rotate") IN
                        /\ heirs # {}
                        /\ \A t \in heirs : now <= issued[t].row.createdAt + RefreshTokenGrace
      OBVIOUS
    <2>1. cur[r] \in Row /\ Recorded(cur[r]) /\ InGrace(cur[r])
      BY <1>1, AcceptsStep
    <2>2. PICK h \in Children(cur[r].token, "rotate") : issued[h].row.createdAt = cur[r].rotatedAt
      BY <2>1 DEF Recorded, Rotated
    <2>3. cur[r].token \in Tokens
      BY <2>1 DEF Row
    <2>4. \A t \in Children(cur[r].token, "rotate") : t = h
      BY <1>1, <2>2, <2>3 DEF IInv, SingleSuccessor
    <2> QED BY <2>1, <2>2, <2>4 DEF InGrace
  <1> QED BY <1>1, Invariance, PTL DEF Spec, GraceAnchored

\* A row that has not expired leaves the table only through a revocation.
THEOREM LiveRowsKept == Spec => OnlyRevocationRemovesLiveRows
  <1>1. ASSUME IInv, [Next]_vars
        PROVE  [\A t \in DOMAIN sessions \ DOMAIN sessions' :
                  now <= sessions[t].expiresAt =>
                    \E r \in Requests : pc[r] = "deleting" /\ t \in doomed[r]]_vars
    <2> USE DEF IInv
    <2> SUFFICES ASSUME NEW t \in DOMAIN sessions \ DOMAIN sessions', now <= sessions[t].expiresAt
                 PROVE  \E r \in Requests : pc[r] = "deleting" /\ t \in doomed[r]
      OBVIOUS
    <2>1. /\ sessions[t] \in Row /\ sessions[t].token = t /\ Recorded(sessions[t])
          /\ now \in Nat
      BY <1>1 DEF LedgerOK, TypeOK
    <2>2. /\ t \in DOMAIN issued /\ issued[t].row \in Row
          /\ sessions[t] = [issued[t].row EXCEPT !.rotatedAt = sessions[t].rotatedAt]
      BY <1>1, <2>1 DEF Recorded, TypeOK, Issue
    <2>3. /\ sessions[t].expiresAt = issued[t].row.expiresAt
          /\ sessions[t].absoluteExpiresAt = issued[t].row.absoluteExpiresAt
          /\ issued[t].row.expiresAt \in Nat /\ issued[t].row.absoluteExpiresAt \in Nat
      BY <2>2 DEF Row
    <2>4. issued[t].row.expiresAt <= issued[t].row.absoluteExpiresAt
      BY <1>1, <2>2 DEF FamilyDeadline
    <2>5. ASSUME NEW r \in Requests, Rotate(r) \/ CreateSession(r)
          PROVE  FALSE
      <3>1. DOMAIN sessions' = DOMAIN sessions \cup {next[r].token}
        BY <1>1, <2>5, InsertStep
      <3> QED BY <3>1
    <2>6. ASSUME NEW r \in Requests, Prune(r)
          PROVE  FALSE
      <3>1. t \in Expired(user[r])
        <4>1. Remove(Expired(user[r]))
          BY <2>6 DEF Prune
        <4>2. DOMAIN sessions' = DOMAIN sessions \ Expired(user[r])
          BY <1>1, <4>1, RemoveStep
        <4> QED BY <4>2
      <3> QED BY <2>1, <2>3, <2>4, <3>1 DEF Expired, PastExpiry, PastAbsolute
    <2>7. ASSUME NEW r \in Requests, DropSession(r)
          PROVE  FALSE
      <3>1. t = cur[r].token /\ pc[r] = "dropSession"
        <4>1. pc[r] = "dropSession" /\ Remove({cur[r].token})
          BY <2>7 DEF DropSession
        <4>2. DOMAIN sessions' = DOMAIN sessions \ {cur[r].token}
          BY <1>1, <4>1, RemoveStep
        <4> QED BY <4>1, <4>2
      <3>2. cur[r] # None /\ cur[r] \in Row /\ Recorded(cur[r]) /\ PastExpiry(cur[r])
        BY <1>1, <3>1 DEF LocalsOK, LocalsAt, LedgerOK, TypeOK
      <3>3. cur[r].expiresAt = issued[t].row.expiresAt
        BY <2>2, <3>1, <3>2 DEF Recorded, Row
      <3> QED BY <2>1, <2>3, <3>2, <3>3 DEF PastExpiry
    <2>8. ASSUME NEW r \in Requests, DeleteFinish(r)
          PROVE  pc[r] = "deleting" /\ t \in doomed[r]
      <3>1. pc[r] = "deleting" /\ Remove(doomed[r])
        BY <2>8 DEF DeleteFinish
      <3>2. DOMAIN sessions' = DOMAIN sessions \ doomed[r]
        BY <1>1, <3>1, RemoveStep
      <3> QED BY <3>1, <3>2
    <2> QED BY <1>1, <2>5, <2>6, <2>7, <2>8, WritesByKind
  <1> QED BY <1>1, Invariance, PTL DEF Spec, OnlyRevocationRemovesLiveRows

-----------------------------------------------------------------------------
(* AuthSessions implements TokenFamilies: an INSERT opens or extends a     *)
(* family, the end of a DELETE revokes the quiet ones, every other step is *)
(* a stutter.                                                              *)

\* The empty ledger is the empty set of minted tokens.
LEMMA InitRefines == Init => Families!Init
  <1> SUFFICES ASSUME Init PROVE Families!Init
    OBVIOUS
  <1>1. DOMAIN issued = {} /\ revoked = {}
    BY DEF Init
  <1>2. MintedInfo = [t \in {} |-> None]
    BY <1>1 DEF MintedInfo
  <1> QED BY <1>1, <1>2 DEF Families!Init

\* Inserting a row mints its token.
LEMMA InsertMints ==
  ASSUME IInv, [Next]_vars, NEW r \in Requests, Rotate(r) \/ CreateSession(r)
  PROVE  LET tok == next[r].token IN
         Families!Mint(tok, [ user     |-> next[r].user,
                              family   |-> next[r].family,
                              deadline |-> next[r].absoluteExpiresAt,
                              parent   |-> IF cur[r] = None THEN None ELSE cur[r].token ])
  <1> USE DEF IInv
  <1> DEFINE tok == next[r].token
             info == [ user     |-> next[r].user,
                       family   |-> next[r].family,
                       deadline |-> next[r].absoluteExpiresAt,
                       parent   |-> IF cur[r] = None THEN None ELSE cur[r].token ]
  <1>1. /\ tok \notin DOMAIN issued
        /\ DOMAIN issued' = DOMAIN issued \cup {tok}
        /\ \A t \in DOMAIN issued : issued'[t] = issued[t]
        /\ issued'[tok].row = next[r]
        /\ issued'[tok].parent = IF cur[r] = None THEN None ELSE cur[r].token
    BY InsertStep
  <1>2. DOMAIN MintedInfo = DOMAIN issued /\ DOMAIN MintedInfo' = DOMAIN issued'
    BY DEF MintedInfo
  <1>3. \A t \in DOMAIN issued : MintedInfo'[t] = MintedInfo[t]
    BY <1>1 DEF MintedInfo
  <1>4. MintedInfo'[tok] = info
    BY <1>1 DEF MintedInfo
  <1>5. MintedInfo' = [s \in DOMAIN MintedInfo \cup {tok} |-> IF s = tok THEN info ELSE MintedInfo[s]]
    <2>1. MintedInfo' = [s \in DOMAIN issued' |-> MintedInfo'[s]]
      BY DEF MintedInfo
    <2> QED BY <1>1, <1>2, <1>3, <1>4, <2>1
  <1>6. UNCHANGED revoked
    BY DEF Rotate, CreateSession
  <1> QED BY <1>1, <1>2, <1>5, <1>6 DEF Families!Mint

\* Every step is an abstract step or a stutter.
LEMMA StepRefines ==
  ASSUME IInv, [Next]_vars
  PROVE  [Families!Next]_<<MintedInfo, revoked>>
  <1> USE DEF IInv
  <1>1. ASSUME NEW r \in Requests, Rotate(r) \/ CreateSession(r)
        PROVE  Families!Next
    <2> DEFINE tok == next[r].token
    <2>1. /\ next[r] \in Row /\ tok \in Tokens
          /\ next[r].user \in Users /\ next[r].absoluteExpiresAt \in Nat /\ next[r].createdAt \in Nat
      <3>1. next[r] \in Row
        BY <1>1, InsertStep
      <3> QED BY <3>1 DEF Row
    <2>2. CASE cur[r] = None
      <3>1. /\ next[r].family = tok
            /\ next[r].absoluteExpiresAt = next[r].createdAt + RefreshTokenAbsolute
            /\ next[r].createdAt <= now
        BY <2>1, <2>2 DEF PendingOK
      <3>2. next[r].absoluteExpiresAt \in 0..(MaxTime + RefreshTokenAbsolute)
        BY <2>1, <3>1 DEF TypeOK
      <3>3. Families!Mint(tok, [ user     |-> next[r].user,
                                 family   |-> tok,
                                 deadline |-> next[r].absoluteExpiresAt,
                                 parent   |-> None ])
        BY <1>1, <2>2, <3>1, InsertMints
      <3>4. Families!Open(tok, next[r].user, next[r].absoluteExpiresAt)
        BY <3>3 DEF Families!Open
      <3> QED BY <2>1, <3>2, <3>4 DEF Families!Next
    <2>3. CASE cur[r] # None
      <3> DEFINE p == cur[r].token
      <3>1. /\ cur[r] \in Row /\ Recorded(cur[r])
            /\ user[r] = cur[r].user /\ next[r].user = user[r]
            /\ next[r].family = cur[r].family
            /\ next[r].absoluteExpiresAt = cur[r].absoluteExpiresAt
        <4>1. cur[r] \in Row /\ Recorded(cur[r])
          BY <2>3 DEF LedgerOK, TypeOK
        <4>2. user[r] # None /\ (user[r] # None => user[r] = cur[r].user) /\ next[r] # None
          BY <1>1, <2>3 DEF Rotate, CreateSession, LocalsOK, LocalsAt, Building
        <4> QED BY <2>3, <4>1, <4>2 DEF PendingOK
      <3>2. /\ p \in DOMAIN issued /\ issued[p].row \in Row
            /\ cur[r] = [issued[p].row EXCEPT !.rotatedAt = cur[r].rotatedAt]
        BY <3>1 DEF Recorded, TypeOK, Issue
      <3>3. /\ issued[p].row.user = next[r].user
            /\ issued[p].row.family = next[r].family
            /\ issued[p].row.absoluteExpiresAt = next[r].absoluteExpiresAt
        BY <3>1, <3>2 DEF Row
      <3>4. p \in DOMAIN MintedInfo
        BY <3>2 DEF MintedInfo
      <3>5. MintedInfo[p].family \notin revoked
        <4>1. Holds(r, cur[r].family)
          BY <1>1, <2>3 DEF Rotate, CreateSession, Holds
        <4>2. cur[r].family \notin revoked
          BY <4>1 DEF RevocationOK, Sealed
        <4> QED BY <3>1, <3>2, <3>3, <4>2 DEF MintedInfo
      <3>6. ASSUME RefreshTokenGrace = 0, NEW s \in DOMAIN MintedInfo
            PROVE  MintedInfo[s].parent # p
        <4>1. s \in DOMAIN issued /\ MintedInfo[s].parent = issued[s].parent
          BY <3>6 DEF MintedInfo
        <4>2. issued[s].via \in {"login", "rotate", "sibling"}
          BY <4>1 DEF TypeOK, Issue
        <4>3. pc[r] = "rotate"
          BY <1>1, <2>3, <3>6 DEF Rotate, CreateSession, LocalsOK, LocalsAt
        <4>4. CanRotate(p)
          BY <1>1, <4>3, InsertStep
        <4>5. p # None
          BY <3>1 DEF Row
        <4> QED BY <3>6, <4>1, <4>2, <4>4, <4>5 DEF ParentsOK
      <3>7. [MintedInfo[p] EXCEPT !.parent = p]
              = [ user     |-> next[r].user,
                  family   |-> next[r].family,
                  deadline |-> next[r].absoluteExpiresAt,
                  parent   |-> p ]
        BY <3>2, <3>3 DEF MintedInfo
      <3>8. Families!Mint(tok, [MintedInfo[p] EXCEPT !.parent = p])
        BY <1>1, <2>3, <3>7, InsertMints
      <3>9. Families!Redeem(p, tok)
        BY <3>4, <3>5, <3>6, <3>8 DEF Families!Redeem
      <3>10. p \in Tokens
        BY <3>1 DEF Row
      <3> QED BY <2>1, <3>9, <3>10 DEF Families!Next
    <2> QED BY <2>2, <2>3
  <1>2. ASSUME NEW r \in Requests, DeleteFinish(r)
        PROVE  Families!Next
    <2>1. revoked' = revoked \cup quiet[r] /\ issued' = issued
      BY <1>2 DEF DeleteFinish
    <2>2. MintedInfo' = MintedInfo
      BY <2>1 DEF MintedInfo
    <2>3. quiet[r] \subseteq DOMAIN MintedInfo /\ quiet[r] \subseteq Tokens
      BY DEF RevocationOK, Sealed, MintedInfo, TypeOK
    <2>4. Families!Revoke(quiet[r])
      BY <2>1, <2>2, <2>3 DEF Families!Revoke
    <2> QED BY <2>3, <2>4 DEF Families!Next
  <1>3. CASE issued' = issued /\ revoked' = revoked
    BY <1>3 DEF MintedInfo
  <1>4. \/ revoked' = revoked
        \/ \E r \in Requests : DeleteFinish(r)
    <2>1. CASE Environment \/ UNCHANGED vars
      BY <2>1, EnvironmentKeepsAll
    <2>2. ASSUME NEW r \in Requests, StepOf(r)
          PROVE  revoked' = revoked \/ DeleteFinish(r)
      BY <2>2 DEF StepOf, RefreshClassify, LoadUser, Rotate, RotateLost, CreateSession, Prune,
           DropSession, RevokeAllSessions, DeleteStart, Abort, Login, RevokeUserSessions,
           DeleteAccount, RefreshLookup, Mint, Logout, history
    <2> QED BY <2>1, <2>2, NextForms
  <1> QED BY <1>1, <1>2, <1>3, <1>4, WritesByKind

\* The sessions implement the token families.
THEOREM Refinement == Spec => RefinesTokenFamilies
  <1>1. Init => Families!Init
    BY InitRefines
  <1>2. IInv /\ [Next]_vars => [Families!Next]_<<MintedInfo, revoked>>
    BY StepRefines
  <1> QED BY <1>1, <1>2, Invariance, PTL DEF Spec, RefinesTokenFamilies, Families!Spec
=============================================================================
