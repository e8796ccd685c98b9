------------------------ MODULE AuthSessionsInvariant -----------------------
(***************************************************************************)
(* The inductive invariant behind the theorems on AuthSessions, in named   *)
(* parts.                                                                  *)
(***************************************************************************)
EXTENDS AuthSessions

\* Requests that have read a row, and those that have built one.
Reading  == {"classify", "loadUser", "mint", "rotate", "create", "dropSession", "revokeFamily", "deleting"}
Building == {"rotate", "create"}

\* Which locals are set at which statement.
LocalsAt(r) ==
  /\ cur[r] # None => pc[r] \in Reading
  /\ pc[r] \in {"classify", "loadUser", "rotate", "dropSession", "revokeFamily"} => cur[r] # None
  /\ next[r] # None <=> pc[r] \in Building
  /\ pc[r] \in {"mint", "rotate", "create", "prune", "revokeUser"} => user[r] # None
  /\ (pc[r] \in {"mint", "rotate", "create", "revokeFamily", "deleting"} /\ cur[r] # None /\ user[r] # None)
       => user[r] = cur[r].user
  /\ pc[r] \in {"idle", "classify", "loadUser", "dropSession", "revokeAll"} => user[r] = None
  /\ pc[r] = "dropSession" => PastExpiry(cur[r])
  /\ pc[r] = "rotate" => ~Rotated(cur[r])
  /\ (pc[r] \in {"loadUser", "mint"} /\ cur[r] # None /\ Rotated(cur[r])) => RefreshTokenGrace > 0
  /\ (pc[r] = "create" /\ cur[r] # None) => RefreshTokenGrace > 0

LocalsOK == \A r \in Requests : LocalsAt(r)

\* Row s is the session issued as s.token, perhaps rotated since; a rotated
\* one has an heir built at the moment it was stamped with.
Recorded(s) ==
  /\ s.token \in DOMAIN issued
  /\ s = [issued[s.token].row EXCEPT !.rotatedAt = s.rotatedAt]
  /\ s.rotatedAt # None =>
       \E t \in Children(s.token, "rotate") : issued[t].row.createdAt = s.rotatedAt

\* The table and every copy of a row agree with the ledger.
LedgerOK ==
  /\ \A t \in DOMAIN issued : issued[t].row.token = t /\ issued[t].row.rotatedAt = None
  /\ \A t \in DOMAIN sessions : sessions[t].token = t /\ Recorded(sessions[t])
  /\ \A r \in Requests : cur[r] # None => Recorded(cur[r])

\* A row about to be inserted is new and continues what its request read.
PendingOK ==
  \A r \in Requests : next[r] # None =>
    /\ next[r].token \notin DOMAIN issued
    /\ \A q \in Requests : (q # r /\ next[q] # None) => next[q].token # next[r].token
    /\ next[r].rotatedAt = None
    /\ next[r].user = user[r]
    /\ next[r].expiresAt <= next[r].absoluteExpiresAt
    /\ IF cur[r] = None
       THEN /\ next[r].family = next[r].token
            /\ next[r].absoluteExpiresAt = next[r].createdAt + RefreshTokenAbsolute
            /\ next[r].createdAt <= now
       ELSE /\ next[r].family = cur[r].family
            /\ next[r].absoluteExpiresAt = cur[r].absoluteExpiresAt

\* A session has a parent unless a login opened it; the parent is an earlier
\* session of the family.  A parent that was rotated cannot be rotated again.
ParentsOK ==
  \A t \in DOMAIN issued :
    LET p == issued[t].parent IN
    /\ p = None <=> issued[t].via = "login"
    /\ p = None => issued[t].row.family = t
    /\ p # None => /\ p \in DOMAIN issued
                   /\ p # t
                   /\ issued[p].row.family = issued[t].row.family
    /\ issued[t].via = "rotate" => ~CanRotate(p)
    /\ issued[t].via = "sibling" => RefreshTokenGrace > 0

\* Nothing can bring back family f, up to the rows in ts: no other row is left
\* and no request can insert one.
Sealed(f, ts) ==
  /\ f \in DOMAIN issued
  /\ \A t \in DOMAIN sessions \ ts : sessions[t].family # f
  /\ \A r \in Requests : ~Holds(r, f)

RevocationOK ==
  /\ \A f \in revoked : Sealed(f, {})
  /\ \A r \in Requests : \A f \in quiet[r] : pc[r] = "deleting" /\ Sealed(f, doomed[r])
  /\ \A r \in Requests : doomed[r] \subseteq DOMAIN issued

IInv ==
  /\ TypeOK
  /\ now <= MaxTime
  /\ LocalsOK
  /\ LedgerOK
  /\ PendingOK
  /\ FamilyDeadline
  /\ ParentsOK
  /\ SingleSuccessor
  /\ RevocationOK
  /\ RevocationScoped
=============================================================================
