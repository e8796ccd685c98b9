----------------------------- MODULE Credentials -----------------------------
(***************************************************************************)
(* Passwords: who signs in with them, and how they are changed and reset   *)
(* (internal/service/auth_service.go, password_reset_token_repository.go), *)
(* with the queue of the mails that carry reset links.                     *)
(*                                                                         *)
(* Of a session only its account and the password it was opened with       *)
(* count here; AuthSessions has the rest of its life.                      *)
(***************************************************************************)
EXTENDS Accounts

CONSTANTS
  Tokens,     \* password reset tokens; each is given out once
  Workers,
  QueueSize    \* room in the channel of the mail service

ASSUME CredentialsAssumption ==
  /\ QueueSize \in Nat
  /\ "idle" \notin Tokens
  /\ "gone" \notin Tokens

VARIABLES
  sessions,    \* the accounts signed in, and how: by which password or none
  tokens,      \* the password_reset_tokens table
  token,       \* the reset token of each request
  tasks, worker, closing, closed, accepted, tried,  \* the mail service
  \* history
  changed,     \* the password the last finished change gave each account
  undisturbed  \* accounts that no other request was busy with at that moment

Mail == INSTANCE MailQueue WITH Mails <- Tokens

mailVars == <<tasks, worker, closing, closed, accepted, tried>>
history  == <<changed, undisturbed>>
vars     == <<accountVars, sessions, tokens, token, mailVars, history>>

-----------------------------------------------------------------------------

Session == [user : Users, password : Passwords \cup {None}]

\* A token is good until it is used or an hour has passed; a deleted one is
\* remembered here only because it is never given out again.
Token == [user : Users, state : {"good", "used", "expired", "deleted"}]

TypeOK ==
  /\ AccountsTypeOK
  /\ Mail!MailTypeOK
  /\ sessions \subseteq Session
  /\ DOMAIN tokens \subseteq Tokens
  /\ tokens \in [DOMAIN tokens -> Token]
  /\ token \in [Requests -> Tokens \cup {None}]
  /\ changed \in [Users -> Passwords \cup {None}]
  /\ undisturbed \subseteq Users

Init ==
  /\ AccountsInit
  /\ Mail!MailInit
  /\ sessions = {}
  /\ tokens = [t \in {} |-> None]
  /\ token = [r \in Requests |-> None]
  /\ changed = [u \in Users |-> None]
  /\ undisturbed = {}

-----------------------------------------------------------------------------
(* Signing in.                                                             *)

\* Login found the account, and the password given is the one in the row.
Login(r, u) ==
  /\ Live(u)
  /\ users[u].password # None
  /\ Enter(r, "login", u, users[u], <<"session", "writeBack">>)
  /\ UNCHANGED <<users, sessions, tokens, token, mailVars, history>>

\* The account of a GitHub user, or a new one.
SignInWithGithub(r, g, e, n) ==
  /\ \/ \E u \in DOMAIN users :
          /\ Live(u)
          /\ users[u].github = g
          /\ Enter(r, "github", u, users[u], <<"githubSession", "writeBack">>)
     \/ /\ \A u \in DOMAIN users : Live(u) => users[u].github # g
        /\ Enter(r, "github", None, NewRow(e, n, None, g),
                 <<"insert", "githubSession", "writeBack">>)
  /\ UNCHANGED <<users, sessions, tokens, token, mailVars, history>>

\* createTokenAndSession.
OpenSession(r) ==
  /\ \/ /\ At(r, "session")
        /\ sessions' = sessions \cup {[user |-> call[r].user, password |-> call[r].row.password]}
     \/ /\ At(r, "githubSession")
        /\ sessions' = sessions \cup {[user |-> call[r].user, password |-> None]}
  /\ Advance(r)
  /\ UNCHANGED <<users, tokens, token, mailVars, history>>

\* A session ends: logout, revocation, its deadline.
EndSession(s) ==
  /\ s \in sessions
  /\ sessions' = sessions \ {s}
  /\ UNCHANGED <<accountVars, tokens, token, mailVars, history>>

-----------------------------------------------------------------------------
(* Forgotten passwords.                                                    *)

ForgotPassword(r, u) ==
  /\ Live(u)
  /\ Enter(r, "forgot", u, users[u], <<"dropTokens", "issue", "enqueue">>)
  /\ UNCHANGED <<users, sessions, tokens, token, mailVars, history>>

\* DeleteByUserID; a failure does not matter.
DropTokens(r) ==
  /\ At(r, "dropTokens")
  /\ \/ tokens' = [t \in DOMAIN tokens |->
                     IF tokens[t].user = call[r].user THEN [tokens[t] EXCEPT !.state = "deleted"]
                     ELSE tokens[t]]
     \/ UNCHANGED tokens
  /\ Advance(r)
  /\ UNCHANGED <<users, sessions, token, mailVars, history>>

IssueToken(r, t) ==
  /\ At(r, "issue")
  /\ t \notin DOMAIN tokens
  /\ tokens' = [x \in DOMAIN tokens \cup {t} |->
                  IF x = t THEN [user |-> call[r].user, state |-> "good"] ELSE tokens[x]]
  /\ token' = [token EXCEPT ![r] = t]
  /\ Advance(r)
  /\ UNCHANGED <<users, sessions, mailVars, history>>

EnqueueMail(r) ==
  /\ At(r, "enqueue")
  /\ Mail!Enqueue(token[r])
  /\ token' = [token EXCEPT ![r] = None]
  /\ Advance(r)
  /\ UNCHANGED <<users, sessions, tokens, history>>

\* An hour passes.
ExpireToken(t) ==
  /\ t \in DOMAIN tokens
  /\ tokens[t].state = "good"
  /\ tokens' = [tokens EXCEPT ![t].state = "expired"]
  /\ UNCHANGED <<accountVars, sessions, token, mailVars, history>>

-----------------------------------------------------------------------------
(* New passwords.                                                          *)

\* From here on the account is about to change.
Reopen(u) ==
  /\ changed' = [changed EXCEPT ![u] = None]
  /\ undisturbed' = undisturbed \ {u}

\* Whoever has got the mail presents its token, which is found good.
ResetPassword(r, t) ==
  /\ t \in DOMAIN tokens \cap tried
  /\ tokens[t].state = "good"
  /\ Enter(r, "reset", tokens[t].user, None, <<"loadUser", "update", "markUsed", "revoke">>)
  /\ token' = [token EXCEPT ![r] = t]
  /\ UNCHANGED <<users, sessions, tokens, mailVars, history>>

LoadUser(r, p) ==
  LET u == call[r].user IN
  /\ At(r, "loadUser")
  /\ \/ /\ Live(u)
        /\ AdvanceWith(r, [call[r] EXCEPT !.row = [users[u] EXCEPT !.password = p]])
        /\ Reopen(u)
        /\ UNCHANGED token
     \/ /\ ~Live(u)
        /\ Quit(r)
        /\ token' = [token EXCEPT ![r] = None]
        /\ UNCHANGED history
  /\ UNCHANGED <<users, sessions, tokens, mailVars>>

\* A failure does not matter.
MarkUsed(r) ==
  /\ At(r, "markUsed")
  /\ \/ tokens' = [tokens EXCEPT ![token[r]].state = IF @ = "deleted" THEN @ ELSE "used"]
     \/ UNCHANGED tokens
  /\ token' = [token EXCEPT ![r] = None]
  /\ Advance(r)
  /\ UNCHANGED <<users, sessions, mailVars, history>>

\* By the owner, who knows the password in the row.
ChangePassword(r, u, p) ==
  /\ Live(u)
  /\ users[u].password # None
  /\ Enter(r, "change", u, [users[u] EXCEPT !.password = p], <<"update", "revoke">>)
  /\ Reopen(u)
  /\ UNCHANGED <<users, sessions, tokens, token, mailVars>>

\* DeleteAccount: the soft delete, then the sessions.
DeleteAccount(r, u) ==
  /\ SoftDelete(u)
  /\ Enter(r, "delete", u, users[u], <<"dropSessions">>)
  /\ UNCHANGED <<sessions, tokens, token, mailVars, history>>

Others(r, u) == {q \in Requests \ {r} : todo[q] # <<>> /\ call[q].user = u}

SessionsOf(u) == {s \in sessions : s.user = u}

\* The change is through.  It counts as the last one unless another is under
\* way, and as undisturbed if nobody else is at the account.
Settle(r, u) ==
  LET p == call[r].row.password IN
  /\ changed' = [changed EXCEPT ![u] =
                   IF \E q \in Others(r, u) : "revoke" \in Range(todo[q]) THEN None ELSE p]
  /\ undisturbed' = IF Others(r, u) = {} /\ users[u].password = p
                    THEN undisturbed \cup {u} ELSE undisturbed \ {u}

\* Mistake: a new password leaves the sessions alone.
RevokeNothing(r) ==
  /\ At(r, "revoke")
  /\ Settle(r, call[r].user)
  /\ Advance(r)
  /\ UNCHANGED <<users, sessions, tokens, token, mailVars>>

\* DeleteByUserID after a change or a reset; a failure does not matter.
Revoke(r) ==
  /\ At(r, "revoke")
  /\ \/ sessions' = sessions \ SessionsOf(call[r].user) /\ Settle(r, call[r].user)
     \/ UNCHANGED <<sessions, history>>
  /\ Advance(r)
  /\ UNCHANGED <<users, tokens, token, mailVars>>

\* DeleteByUserID of a deleted account; a failure does not matter.
DropSessions(r) ==
  /\ At(r, "dropSessions")
  /\ sessions' \in {sessions, sessions \ SessionsOf(call[r].user)}
  /\ Advance(r)
  /\ UNCHANGED <<users, tokens, token, mailVars, history>>

-----------------------------------------------------------------------------

\* A request about an account that ends early forgets its token too.
AccountsOnly(r) ==
  /\ AccountsStep(r)
  /\ token' = [token EXCEPT ![r] = IF todo'[r] = <<>> THEN None ELSE @]
  /\ UNCHANGED <<sessions, tokens, mailVars, history>>

RequestStep(r) ==
  \/ AccountsOnly(r)
  \/ \E u \in Users :
       \/ Login(r, u) \/ ForgotPassword(r, u) \/ DeleteAccount(r, u)
       \/ \E p \in Passwords : ChangePassword(r, u, p)
  \/ \E g \in GithubIds, e \in Email, n \in Usernames : SignInWithGithub(r, g, e, n)
  \/ \E t \in Tokens : IssueToken(r, t) \/ ResetPassword(r, t)
  \/ \E p \in Passwords : LoadUser(r, p)
  \/ OpenSession(r) \/ DropTokens(r) \/ EnqueueMail(r) \/ MarkUsed(r)
  \/ Revoke(r) \/ DropSessions(r)

\* The workers, and the shutdown in the workloads that have one.
MailStep ==
  /\ \/ \E w \in Workers : Mail!WorkerStep(w)
     \/ /\ \E r \in Requests : "close" \in asks[r]
        /\ Mail!Close \/ Mail!CloseReturns
  /\ UNCHANGED <<accountVars, sessions, tokens, token, history>>

Next ==
  \/ \E r \in Requests : RequestStep(r)
  \/ \E s \in Session : EndSession(s)
  \/ \E t \in Tokens : ExpireToken(t)
  \/ MailStep

Spec == Init /\ [][Next]_vars

-----------------------------------------------------------------------------
(* Properties.                                                             *)

\* A change of password that nothing overlapped holds: until the next one
\* starts, the account has that password, and is signed in with that password
\* or through GitHub only, however many stale copies were written back since.
ChangedForGood ==
  \A u \in undisturbed :
    changed[u] # None =>
      /\ users[u].password = changed[u]
      /\ \A s \in SessionsOf(u) : s.password \in {changed[u], None}

\* "Revoke every refresh token so sessions opened with the old password
\* (possibly by someone else) cannot be extended" (ChangePassword): once the
\* change is through, no session opened with another password is left.
OldSessionsEnd ==
  \A s \in sessions :
    changed[s.user] # None => s.password \in {changed[s.user], None}

\* An accepted mail is tried once, or left in the queue of a closed service:
\* it is in the queue, in the hands of one worker, or done with; and when Close
\* has returned no worker has one.
MailsAccountedFor ==
  LET held == {t \in Tokens : \E w \in Workers : worker[w] = t} IN
  /\ accepted = Range(tasks) \cup held \cup tried
  /\ \A v, w \in Workers : v # w /\ worker[v] = worker[w] => worker[w] \notin Tokens
  /\ held \cap Range(tasks) = {} /\ held \cap tried = {} /\ tried \cap Range(tasks) = {}
  /\ closed => held = {}
=============================================================================
