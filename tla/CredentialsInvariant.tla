------------------------ MODULE CredentialsInvariant ------------------------
(***************************************************************************)
(* The inductive invariant behind the theorems on accounts, passwords and  *)
(* reset mails: in which order requests execute their statements, and what *)
(* the copies they hold owe the tables.                                    *)
(***************************************************************************)
EXTENDS Credentials

\* The row a request writes is there from the start, or loaded first; checks
\* are all that comes before an INSERT; a mail is the last thing a request does,
\* after it has dropped and issued tokens.
Ordered(statements) ==
  \A i, j \in DOMAIN statements :
    /\ statements[j] = "loadUser" => j = 1
    /\ statements[j] = "insert" /\ i < j => statements[i] \in {"email", "username"}
    /\ statements[j] = "enqueue" => j = Len(statements)
    /\ statements[j] = "enqueue" /\ i < j => statements[i] \in {"dropTokens", "issue"}

Loaded(r) == todo[r] # <<>> /\ Head(todo[r]) # "loadUser"

\* Every copy has its e-mail normalized, and is of an account that exists or
\* is about to be inserted.
RequestOK(r) ==
  /\ Ordered(todo[r])
  /\ call[r].user \in DOMAIN users \cup {None}
  /\ Loaded(r) => call[r].row \in Row /\ ~call[r].row.email.capitals
  /\ todo[r] # <<>> => call[r].user # None \/ "insert" \in Range(todo[r])

UsersOK == Indexed(users) /\ \A u \in DOMAIN users : ~users[u].email.capitals

\* Whoever works on an account whose change held has a copy with the new
\* password in it, so that writing it back does no harm.
PasswordsOK ==
  \A u \in undisturbed :
    /\ u \in DOMAIN users
    /\ changed[u] # None =>
         /\ users[u].password = changed[u]
         /\ \A s \in SessionsOf(u) : s.password \in {changed[u], None}
         /\ \A r \in Requests : Loaded(r) /\ call[r].user = u => call[r].row.password = changed[u]

\* The request has issued a token that it has yet to mail.
Holds(r) == "enqueue" \in Range(todo[r]) /\ "issue" \notin Range(todo[r])

\* A token is for an account that exists; no two requests mail the same one,
\* and none is mailed twice.
TokensOK ==
  /\ accepted \subseteq DOMAIN tokens
  /\ \A t \in DOMAIN tokens : tokens[t].user \in DOMAIN users
  /\ \A r \in Requests : Holds(r) => token[r] \in DOMAIN tokens \ accepted
  /\ \A r, q \in Requests : Holds(r) /\ Holds(q) /\ token[r] = token[q] => r = q

QueueOK ==
  /\ MailsAccountedFor
  /\ \A i, j \in DOMAIN tasks : tasks[i] = tasks[j] => i = j
  /\ closed => \A w \in Workers : worker[w] = "gone"

IInv ==
  /\ TypeOK
  /\ \A r \in Requests : RequestOK(r)
  /\ UsersOK
  /\ PasswordsOK
  /\ TokensOK
  /\ QueueOK
=============================================================================
