---------------------------- MODULE AuthSessions ----------------------------
(***************************************************************************)
(* Refresh-token sessions of internal/service/auth_service.go over the     *)
(* sessions table of internal/repository/session_repository.go.            *)
(*                                                                         *)
(* Every token minted from one login belongs to one family.  A refresh     *)
(* stamps the presented row as rotated and inserts its successor; a        *)
(* revocation deletes rows by family, by user or altogether.  Requests are *)
(* goroutines that issue one SQL statement at a time, so each statement is *)
(* an action of its own and requests interleave between statements.  A     *)
(* DELETE takes its snapshot when it starts and removes those rows when it *)
(* ends (READ COMMITTED): a row inserted meanwhile is not in the snapshot. *)
(***************************************************************************)
EXTENDS Integers, Functions

CONSTANTS
  Users,                \* accounts
  Tokens,               \* refresh tokens; a token also names its session row
  Requests,             \* concurrent HTTP requests
  RefreshTokenExpiry,   \* sliding lifetime of one token
  RefreshTokenAbsolute, \* lifetime of a whole family
  RefreshTokenGrace,    \* how long a rotated token is still served
  MaxTime,              \* bound on the clock
  None                  \* SQL NULL, and an unset local of a request

ASSUME ConfigAssumption ==
  /\ RefreshTokenExpiry \in Nat \ {0}
  /\ RefreshTokenAbsolute \in Nat
  /\ RefreshTokenAbsolute >= RefreshTokenExpiry
  /\ RefreshTokenGrace \in Nat
  /\ MaxTime \in Nat

(* A row of the sessions table (model.Session).  The id and the token's hash
   are both fresh at birth, so one name stands for both.                   *)
Row == [ token             : Tokens,
         user              : Users,
         family            : Tokens,
         createdAt         : Nat,
         expiresAt         : Nat,
         absoluteExpiresAt : Nat,
         rotatedAt         : Nat \cup {None} ]

ASSUME NoneAssumption ==
  None \notin Nat /\ None \notin Users /\ None \notin Tokens /\ None \notin Row

VARIABLES
  now,      \* time.Now()
  deleted,  \* soft-deleted users
  sessions, \* the sessions table: a function from the tokens it holds to rows
  pc,       \* the next statement of each request
  user,     \* the user a request acts for, once it knows it
  cur,      \* the row a request read, a copy that may go stale
  next,     \* the row a request built and has not inserted yet
  doomed,   \* the snapshot of a DELETE that is running
  \* history
  issued,   \* every session ever inserted: its row, its parent and by which path
  quiet,    \* families of a running DELETE that no other request has touched
  revoked,  \* families whose revocation finished with no request in between
  loggedOut \* families whose Logout finished

locals  == <<pc, user, cur, next, doomed>>
history == <<issued, quiet, revoked, loggedOut>>
vars    == <<now, deleted, sessions, locals, history>>

-----------------------------------------------------------------------------

Issue == [row : Row, parent : Tokens \cup {None}, via : {"login", "rotate", "sibling"}]

RevokeScopes == {"revokeFamily", "revokeUser", "revokeAll"}

PCs == {"idle", "classify", "loadUser", "mint", "rotate", "create", "prune",
        "dropSession", "deleting"} \cup RevokeScopes

TypeOK ==
  /\ now \in Nat
  /\ deleted \subseteq Users
  /\ DOMAIN sessions \subseteq Tokens
  /\ sessions \in [DOMAIN sessions -> Row]
  /\ pc \in [Requests -> PCs]
  /\ user \in [Requests -> Users \cup {None}]
  /\ cur \in [Requests -> Row \cup {None}]
  /\ next \in [Requests -> Row \cup {None}]
  /\ doomed \in [Requests -> SUBSET Tokens]
  /\ DOMAIN issued \subseteq Tokens
  /\ issued \in [DOMAIN issued -> Issue]
  /\ quiet \in [Requests -> SUBSET Tokens]
  /\ revoked \subseteq Tokens
  /\ loggedOut \subseteq Tokens

Init ==
  /\ now = 0
  /\ deleted = {}
  /\ sessions = [t \in {} |-> None]
  /\ pc = [r \in Requests |-> "idle"]
  /\ user = [r \in Requests |-> None]
  /\ cur = [r \in Requests |-> None]
  /\ next = [r \in Requests |-> None]
  /\ doomed = [r \in Requests |-> {}]
  /\ issued = [t \in {} |-> None]
  /\ quiet = [r \in Requests |-> {}]
  /\ revoked = {}
  /\ loggedOut = {}

-----------------------------------------------------------------------------
(* The row, as the code asks about it.                                     *)

Rotated(s)      == s.rotatedAt # None
PastAbsolute(s) == now > s.absoluteExpiresAt
PastExpiry(s)   == now > s.expiresAt
\* Mistake: the window hangs on the token's expiry, not on its rotation.
InGraceOfExpiry(s) == RefreshTokenGrace > 0 /\ now <= s.expiresAt + RefreshTokenGrace

InGrace(s)      == RefreshTokenGrace > 0 /\ now <= s.rotatedAt + RefreshTokenGrace

\* A request that may still insert a row of family f.
Holds(r, f) ==
  /\ pc[r] \in {"classify", "loadUser", "mint", "rotate", "create"}
  /\ cur[r] # None
  /\ cur[r].family = f

(* Steps of a request.                                                     *)

Goto(r, label) == pc' = [pc EXCEPT ![r] = label]

\* The handler returns: its locals are gone.
Return(r) ==
  /\ pc'     = [pc EXCEPT ![r] = "idle"]
  /\ user'   = [user EXCEPT ![r] = None]
  /\ cur'    = [cur EXCEPT ![r] = None]
  /\ next'   = [next EXCEPT ![r] = None]
  /\ doomed' = [doomed EXCEPT ![r] = {}]
  /\ quiet'  = [quiet EXCEPT ![r] = {}]

\* Request r reads the row of token t (GetSessionByRefreshToken).  A token
\* without a row is an invalid token and changes nothing.
ReadSession(r, t) ==
  /\ t \in DOMAIN sessions
  /\ cur' = [cur EXCEPT ![r] = sessions[t]]

\* The INSERT of next[r]; the ledger records where it came from.  Only the
\* pruning of the user's dead rows is left to do.
Insert(r, table, via) ==
  LET row == next[r] IN
  /\ Goto(r, "prune")
  /\ cur'  = [cur EXCEPT ![r] = None]
  /\ next' = [next EXCEPT ![r] = None]
  /\ sessions' = [t \in DOMAIN table \cup {row.token} |->
                    IF t = row.token THEN row ELSE table[t]]
  /\ issued' = [t \in DOMAIN issued \cup {row.token} |->
                  IF t = row.token
                  THEN [row |-> row, via |-> via,
                        parent |-> IF cur[r] = None THEN None ELSE cur[r].token]
                  ELSE issued[t]]

Remove(ts) == sessions' = Restrict(sessions, DOMAIN sessions \ ts)

-----------------------------------------------------------------------------
(* Login and RefreshToken.                                                 *)

\* Login found the account (FindUserByIdentifier skips deleted ones) and the
\* password matched; createTokenAndSession comes next.
Login(r, u) ==
  /\ pc[r] = "idle"
  /\ u \notin deleted
  /\ user' = [user EXCEPT ![r] = u]
  /\ Goto(r, "mint")
  /\ UNCHANGED <<now, deleted, sessions, cur, next, doomed, history>>

RefreshLookup(r, t) ==
  /\ pc[r] = "idle"
  /\ ReadSession(r, t)
  /\ quiet' = [q \in Requests |-> quiet[q] \ {sessions[t].family}]
  /\ Goto(r, "classify")
  /\ UNCHANGED <<now, deleted, sessions, user, next, doomed, issued, revoked, loggedOut>>

\* Mistake: a rotated row is judged by the grace window alone.
RefreshOutcomeGraceFirst(s) ==
  CASE Rotated(s)                     -> IF InGrace(s) THEN "loadUser" ELSE "revokeFamily"
    [] ~Rotated(s) /\ PastAbsolute(s) -> "revokeFamily"
    [] OTHER                          -> IF PastExpiry(s) THEN "dropSession" ELSE "loadUser"

\* What RefreshToken does with the row it read, by the clock it reads next.
RefreshOutcome(s) ==
  CASE PastAbsolute(s)               -> "revokeFamily"
    [] ~PastAbsolute(s) /\ Rotated(s) -> IF InGrace(s) THEN "loadUser" ELSE "revokeFamily"
    [] OTHER                          -> IF PastExpiry(s) THEN "dropSession" ELSE "loadUser"

RefreshClassify(r) ==
  /\ pc[r] = "classify"
  /\ Goto(r, RefreshOutcome(cur[r]))
  /\ UNCHANGED <<now, deleted, sessions, user, cur, next, doomed, history>>

\* Mistake: the successor is built without the account it is for.
LoadUserForgotten(r) ==
  /\ pc[r] = "loadUser"
  /\ cur[r].user \notin deleted
  /\ Goto(r, "mint")
  /\ UNCHANGED <<now, deleted, sessions, user, cur, next, doomed, history>>

\* userRepo.GetByID in issueRotatedToken.
LoadUser(r) ==
  /\ pc[r] = "loadUser"
  /\ \/ /\ cur[r].user \in deleted
        /\ Return(r)
     \/ /\ cur[r].user \notin deleted
        /\ user' = [user EXCEPT ![r] = cur[r].user]
        /\ Goto(r, "mint")
        /\ UNCHANGED <<cur, next, doomed, quiet>>
  /\ UNCHANGED <<now, deleted, sessions, issued, revoked, loggedOut>>

\* 64 random bytes: a token nobody holds and no request is about to store.
Fresh(t) ==
  /\ t \notin DOMAIN issued
  /\ \A q \in Requests : next[q] # None => next[q].token # t

Earlier(a, b) == IF a <= b THEN a ELSE b

\* Mistake: every rotation sets a new absolute deadline.
BuildSessionSliding(r, t) ==
  [ token             |-> t,
    user              |-> user[r],
    family            |-> IF cur[r] = None THEN t ELSE cur[r].family,
    createdAt         |-> now,
    expiresAt         |-> now + RefreshTokenExpiry,
    absoluteExpiresAt |-> now + RefreshTokenAbsolute,
    rotatedAt         |-> None ]

\* The row buildSession returns: a root heads its own family and sets the
\* deadline (createTokenAndSession), a successor inherits both.
BuildSession(r, t) ==
  LET deadline == IF cur[r] = None THEN now + RefreshTokenAbsolute
                                   ELSE cur[r].absoluteExpiresAt
  IN [ token             |-> t,
       user              |-> user[r],
       family            |-> IF cur[r] = None THEN t ELSE cur[r].family,
       createdAt         |-> now,
       expiresAt         |-> Earlier(now + RefreshTokenExpiry, deadline),
       absoluteExpiresAt |-> deadline,
       rotatedAt         |-> None ]

Mint(r, t) ==
  /\ pc[r] = "mint"
  /\ Fresh(t)
  /\ next' = [next EXCEPT ![r] = BuildSession(r, t)]
  /\ Goto(r, IF cur[r] = None \/ Rotated(cur[r]) THEN "create" ELSE "rotate")
  /\ UNCHANGED <<now, deleted, sessions, user, cur, doomed, history>>

\* Mistake: the UPDATE has no rotated_at IS NULL.
CanRotateAgain(t) == t \in DOMAIN sessions

\* The UPDATE of RotateSession matches: the row is there and not rotated.
CanRotate(t) == t \in DOMAIN sessions /\ ~Rotated(sessions[t])

\* RotateSession commits: UPDATE and INSERT in one transaction.
Rotate(r) ==
  /\ pc[r] = "rotate"
  /\ CanRotate(cur[r].token)
  /\ Insert(r, [sessions EXCEPT ![cur[r].token].rotatedAt = next[r].createdAt], "rotate")
  /\ UNCHANGED <<now, deleted, user, doomed, quiet, revoked, loggedOut>>

\* Mistake: the loser of a rotation is given a token whatever the grace window.
RotateLostAnyway(r) ==
  /\ pc[r] = "rotate"
  /\ ~CanRotate(cur[r].token)
  /\ Goto(r, "create")
  /\ UNCHANGED <<now, deleted, sessions, user, cur, next, doomed, history>>

\* No row matched (ErrSessionAlreadyRotated): with a grace window the loser
\* inserts its row as a sibling, without one it fails.
RotateLost(r) ==
  /\ pc[r] = "rotate"
  /\ ~CanRotate(cur[r].token)
  /\ \/ RefreshTokenGrace <= 0 /\ Return(r)
     \/ RefreshTokenGrace > 0 /\ Goto(r, "create") /\ UNCHANGED <<user, cur, next, doomed, quiet>>
  /\ UNCHANGED <<now, deleted, sessions, issued, revoked, loggedOut>>

CreateSession(r) ==
  /\ pc[r] = "create"
  /\ Insert(r, sessions, IF cur[r] = None THEN "login" ELSE "sibling")
  /\ UNCHANGED <<now, deleted, user, doomed, quiet, revoked, loggedOut>>

\* Mistake: rotated rows are pruned with the dead ones.
ExpiredOrRotated(u) ==
  {t \in DOMAIN sessions : sessions[t].user = u /\ (PastExpiry(sessions[t]) \/ Rotated(sessions[t]))}

\* The rows DeleteExpired removes: the user's, past either deadline.
Expired(u) ==
  {t \in DOMAIN sessions : sessions[t].user = u /\ (PastExpiry(sessions[t]) \/ PastAbsolute(sessions[t]))}

Prune(r) ==
  /\ pc[r] = "prune"
  /\ Remove(Expired(user[r]))
  /\ Return(r)
  /\ UNCHANGED <<now, deleted, issued, revoked, loggedOut>>

\* DeleteSession of a leaf past its sliding deadline.
DropSession(r) ==
  /\ pc[r] = "dropSession"
  /\ Remove({cur[r].token})
  /\ Return(r)
  /\ UNCHANGED <<now, deleted, issued, revoked, loggedOut>>

-----------------------------------------------------------------------------
(* Revocation.                                                             *)

\* Mistake: anybody's token is accepted.
LogoutOfAnyone(r, u, t) ==
  /\ pc[r] = "idle"
  /\ ReadSession(r, t)
  /\ user' = [user EXCEPT ![r] = u]
  /\ Goto(r, "revokeFamily")
  /\ UNCHANGED <<now, deleted, sessions, next, doomed, history>>

\* Logout by u with token t: somebody else's token counts as unknown.
Logout(r, u, t) ==
  /\ pc[r] = "idle"
  /\ ReadSession(r, t)
  /\ sessions[t].user = u
  /\ user' = [user EXCEPT ![r] = u]
  /\ Goto(r, "revokeFamily")
  /\ UNCHANGED <<now, deleted, sessions, next, doomed, history>>

\* RevokeUserSessions; ChangePassword and ResetPassword end the same way.
RevokeUserSessions(r, u) ==
  /\ pc[r] = "idle"
  /\ u \notin deleted
  /\ user' = [user EXCEPT ![r] = u]
  /\ Goto(r, "revokeUser")
  /\ UNCHANGED <<now, deleted, sessions, cur, next, doomed, history>>

\* DeleteAccount: the soft delete commits before the sessions go.
DeleteAccount(r, u) ==
  /\ pc[r] = "idle"
  /\ u \notin deleted
  /\ deleted' = deleted \cup {u}
  /\ user' = [user EXCEPT ![r] = u]
  /\ Goto(r, "revokeUser")
  /\ UNCHANGED <<now, sessions, cur, next, doomed, history>>

RevokeAllSessions(r) ==
  /\ pc[r] = "idle"
  /\ Goto(r, "revokeAll")
  /\ UNCHANGED <<now, deleted, sessions, user, cur, next, doomed, history>>

\* Mistake: only the live rows of the family go.
DeleteByFamilyIDUnrotated(f) == {t \in DOMAIN sessions : sessions[t].family = f /\ ~Rotated(sessions[t])}

DeleteByFamilyID(f) == {t \in DOMAIN sessions : sessions[t].family = f}
DeleteByUserID(u)   == {t \in DOMAIN sessions : sessions[t].user = u}
DeleteAll           == DOMAIN sessions

\* The rows the DELETE of request r matches.
Matched(r) ==
  CASE pc[r] = "revokeFamily" -> DeleteByFamilyID(cur[r].family)
    [] pc[r] = "revokeUser"   -> DeleteByUserID(user[r])
    [] pc[r] = "revokeAll"    -> DeleteAll

\* The DELETE takes its snapshot.
DeleteStart(r) ==
  /\ pc[r] \in RevokeScopes
  /\ doomed' = [doomed EXCEPT ![r] = Matched(r)]
  /\ quiet' = [quiet EXCEPT ![r] = {f \in Tokens : /\ \E t \in Matched(r) : sessions[t].family = f
                                                    /\ \A q \in Requests : ~Holds(q, f)}]
  /\ Goto(r, "deleting")
  /\ UNCHANGED <<now, deleted, sessions, user, cur, next, issued, revoked, loggedOut>>

\* The DELETE commits.  A logout is the family revocation that knows its caller.
DeleteFinish(r) ==
  /\ pc[r] = "deleting"
  /\ Remove(doomed[r])
  /\ revoked' = revoked \cup quiet[r]
  /\ loggedOut' = IF cur[r] # None /\ user[r] # None
                  THEN loggedOut \cup {cur[r].family} ELSE loggedOut
  /\ Return(r)
  /\ UNCHANGED <<now, deleted, issued>>

-----------------------------------------------------------------------------
(* The environment.                                                        *)

\* A statement fails, the client disconnects or the process dies: what has
\* been committed stays, the rest of the request never happens.
Abort(r) ==
  /\ pc[r] # "idle"
  /\ Return(r)
  /\ UNCHANGED <<now, deleted, sessions, issued, revoked, loggedOut>>

\* An administrator soft-deletes (sessions stay) or restores an account.
DeleteUser(u) ==
  /\ u \notin deleted
  /\ deleted' = deleted \cup {u}
  /\ UNCHANGED <<now, sessions, locals, history>>

RestoreUser(u) ==
  /\ u \in deleted
  /\ deleted' = deleted \ {u}
  /\ UNCHANGED <<now, sessions, locals, history>>

Tick ==
  /\ now < MaxTime
  /\ now' = now + 1
  /\ UNCHANGED <<deleted, sessions, locals, history>>

Next ==
  \/ Tick
  \/ \E u \in Users : DeleteUser(u) \/ RestoreUser(u)
  \/ \E r \in Requests :
       \/ RefreshClassify(r) \/ LoadUser(r) \/ Rotate(r) \/ RotateLost(r)
       \/ CreateSession(r) \/ Prune(r) \/ DropSession(r)
       \/ RevokeAllSessions(r) \/ DeleteStart(r) \/ DeleteFinish(r) \/ Abort(r)
       \/ \E u \in Users : Login(r, u) \/ RevokeUserSessions(r, u) \/ DeleteAccount(r, u)
       \/ \E t \in Tokens : RefreshLookup(r, t) \/ Mint(r, t)
       \/ \E u \in Users, t \in Tokens : Logout(r, u, t)

Spec == Init /\ [][Next]_vars
-----------------------------------------------------------------------------
(* Properties.                                                             *)

\* Tokens minted from p by the given path.
Children(p, via) ==
  {t \in DOMAIN issued : issued[t].parent = p /\ issued[t].via = via}

\* Request r has just been told that the token it presented is good.
Accepts(r) == pc[r] = "classify" /\ pc'[r] = "loadUser"

\* Rotation never moves the absolute deadline and never crosses accounts:
\* every session of a family carries the user of the login that opened it and
\* the deadline that login set, and its sliding deadline stays within it
\* (buildSession; the comment on Session.AbsoluteExpiresAt).
FamilyDeadline ==
  \A t \in DOMAIN issued :
    LET row == issued[t].row IN
    /\ row.family \in DOMAIN issued
    /\ LET root == issued[row.family].row IN
       /\ row.user = root.user
       /\ row.absoluteExpiresAt = root.createdAt + RefreshTokenAbsolute
    /\ row.expiresAt <= row.absoluteExpiresAt

\* However many refreshes race on one token, at most one of them rotates it:
\* the rotated_at IS NULL predicate of RotateSession.
SingleSuccessor ==
  \A p \in Tokens : \A s, t \in Children(p, "rotate") : s = t

\* With no grace window a refresh token buys at most one successor, by any
\* path, so a second use is always refused.
StrictSingleUse ==
  RefreshTokenGrace = 0 =>
    \A s, t \in DOMAIN issued :
      (issued[s].parent = issued[t].parent /\ issued[s].parent # None) => s = t

\* A family stays dead once a revocation of it (logout, replay, past deadline,
\* user or global revocation) has finished with no refresh of that family in
\* flight: siblings minted in a grace window die with it.
RevocationIsFinal ==
  \A f \in revoked : \A t \in DOMAIN sessions : sessions[t].family # f

\* Whoever triggers it - a logout, a replayed token, an administrator - a
\* revocation aimed at one account or family deletes rows of that account only.
RevocationScoped ==
  \A r \in Requests :
    (pc[r] = "deleting" /\ (cur[r] # None \/ user[r] # None)) =>
      \A t \in doomed[r] :
        issued[t].row.user = IF user[r] # None THEN user[r] ELSE cur[r].user

\* No refresh is accepted past the deadline its login set, through any chain of
\* rotations and through the grace path too.
NoRedemptionPastDeadline ==
  [][\A r \in Requests : Accepts(r) =>
       now <= issued[cur[r].family].row.createdAt + RefreshTokenAbsolute]_vars

\* A token seen as rotated is served only within the window that began when its
\* one rotation was built: replaying it does not push the window forward.
GraceAnchored ==
  [][\A r \in Requests : (Accepts(r) /\ Rotated(cur[r])) =>
       LET heirs == Children(cur[r].token, "rotate") IN
       /\ heirs # {}
       /\ \A t \in heirs : now <= issued[t].row.createdAt + RefreshTokenGrace]_vars

\* A row that has not expired, rotated rows included, leaves the table only
\* through a revocation: a replayed token stays recognisable until then
\* (model.Session, "Rotated rows are deliberately kept until they expire").
OnlyRevocationRemovesLiveRows ==
  [][\A t \in DOMAIN sessions \ DOMAIN sessions' :
       now <= sessions[t].expiresAt =>
         \E r \in Requests : pc[r] = "deleting" /\ t \in doomed[r]]_vars

-----------------------------------------------------------------------------
(* What the comments of the source say and the code does not do.           *)

\* auth_service.go, Logout: it "ends the whole rotation chain the token belongs
\* to ... so that any sibling minted during a grace window dies with it".
LogoutEndsChain ==
  \A f \in loggedOut : \A t \in DOMAIN sessions : sessions[t].family # f
-----------------------------------------------------------------------------
(* AuthSessions implements TokenFamilies: the ledger of inserted sessions, *)
(* seen without rows and times, is the set of minted tokens.               *)

MintedInfo == [t \in DOMAIN issued |->
                 [ user     |-> issued[t].row.user,
                   family   |-> issued[t].row.family,
                   deadline |-> issued[t].row.absoluteExpiresAt,
                   parent   |-> issued[t].parent ]]

Families == INSTANCE TokenFamilies
              WITH minted <- MintedInfo,
                   dead <- revoked,
                   Deadlines <- 0..(MaxTime + RefreshTokenAbsolute),
                   SingleUse <- (RefreshTokenGrace = 0)

\* The table, the requests and the races between them amount to opening,
\* extending and revoking token families; without a grace window each token
\* is redeemed at most once.
RefinesTokenFamilies == Families!Spec
=============================================================================
