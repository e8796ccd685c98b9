------------------------------ MODULE Accounts ------------------------------
(***************************************************************************)
(* The users table and everything that writes it:                          *)
(* internal/repository/user_repository.go and auth_repository.go under     *)
(* internal/service/user_service.go and auth_service.go.                   *)
(*                                                                         *)
(* A request reads a row, changes its copy and writes the copy back, all   *)
(* columns of it; between two statements anything may happen.  todo[r]     *)
(* holds the statements a request still has to execute.  Names, images,    *)
(* the admin flag and times travel with the copy and are left out.         *)
(***************************************************************************)
EXTENDS Integers, Sequences, Functions

CONSTANTS
  Users,      \* ids of accounts; each is given out once
  Requests,   \* concurrent HTTP requests
  Addresses,  \* e-mail addresses, spelled in lower case
  Usernames,
  Passwords,
  GithubIds,
  Workloads,  \* what each request may ask for: all, or a bound on an instance
  None        \* SQL NULL, and an unset local

Ops == {"register", "createUser", "profile", "updateUser", "avatar", "delete", "restore",
        "github", "login", "forgot", "reset", "change", "close"}

ASSUME AccountsAssumption ==
  /\ None \notin Users \cup Passwords \cup GithubIds
  /\ Workloads \subseteq [Requests -> SUBSET Ops]

VARIABLES
  asks,   \* the workload of this behaviour
  users,  \* the users table, soft-deleted rows included
  todo,   \* the statements each request has yet to execute
  call    \* the account it is about, and the row it is going to write

accountVars == <<asks, users, todo, call>>

-----------------------------------------------------------------------------

\* An address may be spelled with capitals; only its owner's mail server cares.
Email == [address : Addresses, capitals : BOOLEAN]

NormalizeEmail(e) == [e EXCEPT !.capitals = FALSE]

Row == [ email    : Email,
         username : Usernames,
         password : Passwords \cup {None},
         github   : GithubIds \cup {None},
         deleted  : BOOLEAN ]

Call == [user : Users \cup {None}, row : Row \cup {None}]

Statements == {"email", "username", "otherUsername", "insert", "update", "undelete",
               "session", "githubSession", "writeBack", "loadUser", "revoke", "dropSessions",
               "dropTokens", "issue", "enqueue", "markUsed"}

AccountsTypeOK ==
  /\ asks \in [Requests -> SUBSET Ops]
  /\ DOMAIN users \subseteq Users
  /\ users \in [DOMAIN users -> Row]
  /\ todo \in [Requests -> Seq(Statements)]
  /\ call \in [Requests -> Call]

Idle == [user |-> None, row |-> None]

AccountsInit ==
  /\ asks \in Workloads
  /\ users = [u \in {} |-> None]
  /\ todo = [r \in Requests |-> <<>>]
  /\ call = [r \in Requests |-> Idle]

-----------------------------------------------------------------------------
(* Requests.                                                               *)

\* Request r starts on account u and is going to write row.
Enter(r, op, u, row, statements) ==
  /\ todo[r] = <<>>
  /\ op \in asks[r]
  /\ todo' = [todo EXCEPT ![r] = statements]
  /\ call' = [call EXCEPT ![r] = [user |-> u, row |-> row]]
  /\ UNCHANGED asks

At(r, statement) == todo[r] # <<>> /\ Head(todo[r]) = statement

\* The handler returns: its locals are gone.
Quit(r) ==
  /\ todo' = [todo EXCEPT ![r] = <<>>]
  /\ call' = [call EXCEPT ![r] = Idle]
  /\ UNCHANGED asks

\* On to the next statement, with c for its locals.
AdvanceWith(r, c) ==
  IF Tail(todo[r]) = <<>> THEN Quit(r)
  ELSE /\ todo' = [todo EXCEPT ![r] = Tail(@)]
       /\ call' = [call EXCEPT ![r] = c]
       /\ UNCHANGED asks

Advance(r) == AdvanceWith(r, call[r])

\* A statement fails, the client leaves, the process dies.
Fail(r) ==
  /\ todo[r] # <<>>
  /\ Quit(r)
  /\ UNCHANGED users

-----------------------------------------------------------------------------
(* The table.                                                              *)

Live(u) == u \in DOMAIN users /\ ~users[u].deleted

\* The unique indexes: e-mail (as it is spelled) and username of the rows that
\* are not deleted, GitHub id of all.
Indexed(table) ==
  \A u, v \in DOMAIN table : u # v =>
    /\ ~table[u].deleted /\ ~table[v].deleted =>
         /\ table[u].email # table[v].email
         /\ table[u].username # table[v].username
    /\ table[u].github # None => table[u].github # table[v].github

\* Lookups by e-mail ignore case.
EmailTaken(e, but) ==
  \E u \in DOMAIN users : Live(u) /\ u # but /\ users[u].email.address = e.address

UsernameTaken(n, but) ==
  \E u \in DOMAIN users : Live(u) /\ u # but /\ users[u].username = n

NewRow(e, n, p, g) ==
  [email |-> NormalizeEmail(e), username |-> n, password |-> p, github |-> g, deleted |-> FALSE]

\* FindUserByEmail, GetByEmail and Exists before a write.
CheckEmail(r) ==
  /\ At(r, "email")
  /\ IF EmailTaken(call[r].row.email, call[r].user) THEN Quit(r) ELSE Advance(r)
  /\ UNCHANGED users

\* CheckUserByUsername.
CheckUsername(r) ==
  /\ At(r, "username")
  /\ IF UsernameTaken(call[r].row.username, None) THEN Quit(r) ELSE Advance(r)
  /\ UNCHANGED users

\* CreateUser of the repositories.
InsertUser(r) ==
  /\ At(r, "insert")
  /\ \E u \in Users \ DOMAIN users :
       LET table == [v \in DOMAIN users \cup {u} |-> IF v = u THEN call[r].row ELSE users[v]] IN
       \/ /\ Indexed(table)
          /\ users' = table
          /\ AdvanceWith(r, [call[r] EXCEPT !.user = u])
       \/ /\ ~Indexed(table)
          /\ Quit(r)
          /\ UNCHANGED users

\* The table after the UPDATE of request r: the columns it selects.
Written(r) ==
  [users EXCEPT ![call[r].user] = [@ EXCEPT !.email    = call[r].row.email,
                                            !.username = call[r].row.username,
                                            !.password = call[r].row.password]]

\* Mistake: the UPDATE finds deleted rows too.
UpdatesAnyRow(r) == call[r].user \in DOMAIN users /\ Indexed(Written(r))

\* The UPDATE finds its row, and the indexes allow it.
Updates(r) == Live(call[r].user) /\ Indexed(Written(r))

\* Update of the repository.  Who only stamps the time of a login does not
\* care whether it succeeds.
Update(r) ==
  /\ At(r, "update") \/ At(r, "writeBack")
  /\ \/ Updates(r) /\ users' = Written(r) /\ Advance(r)
     \/ /\ ~Updates(r)
        /\ IF At(r, "writeBack") THEN Advance(r) ELSE Quit(r)
        /\ UNCHANGED users

-----------------------------------------------------------------------------
(* Operations on accounts.                                                 *)

Register(r, e, n, p) ==
  /\ Enter(r, "register", None, NewRow(e, n, p, None), <<"email", "username", "insert">>)
  /\ UNCHANGED users

\* By an administrator: Create looks the e-mail up once more.
CreateUser(r, e, n, p) ==
  /\ Enter(r, "createUser", None, NewRow(e, n, p, None),
           <<"email", "username", "email", "insert">>)
  /\ UNCHANGED users

\* The username is looked up when it changes.
ChecksOf(u, n) == IF n = users[u].username THEN <<>> ELSE <<"username">>

UpdateProfile(r, u, n) ==
  /\ Live(u)
  /\ Enter(r, "profile", u, [users[u] EXCEPT !.username = n], ChecksOf(u, n) \o <<"update">>)
  /\ UNCHANGED users

\* Mistake: the administrator's spelling is stored.
UpdateUserAsSpelled(r, u, e, n) ==
  /\ Live(u)
  /\ Enter(r, "updateUser", u, [users[u] EXCEPT !.email = e, !.username = n],
           (IF users[u].email = e THEN <<>> ELSE <<"email">>) \o ChecksOf(u, n) \o <<"update">>)
  /\ UNCHANGED users

\* By an administrator.
UpdateUser(r, u, e, n) ==
  /\ Live(u)
  /\ LET email == NormalizeEmail(e) IN
     Enter(r, "updateUser", u, [users[u] EXCEPT !.email = email, !.username = n],
           (IF users[u].email = email THEN <<>> ELSE <<"email">>) \o ChecksOf(u, n) \o <<"update">>)
  /\ UNCHANGED users

\* UploadAvatar reads the account after the upload.
UploadAvatar(r, u) ==
  /\ Live(u)
  /\ Enter(r, "avatar", u, users[u], <<"update">>)
  /\ UNCHANGED users

SoftDelete(u) ==
  /\ Live(u)
  /\ users' = [users EXCEPT ![u].deleted = TRUE]

\* By an administrator: one statement.
DeleteUser(r, u) ==
  /\ todo[r] = <<>>
  /\ "delete" \in asks[r]
  /\ SoftDelete(u)
  /\ UNCHANGED <<asks, todo, call>>

\* RestoreByID reads the deleted row, looks for its e-mail and username among
\* the others, and undeletes it.
RestoreUser(r, u) ==
  /\ u \in DOMAIN users
  /\ users[u].deleted
  /\ Enter(r, "restore", u, users[u], <<"email", "otherUsername", "undelete">>)
  /\ UNCHANGED users

CheckOtherUsername(r) ==
  /\ At(r, "otherUsername")
  /\ IF UsernameTaken(call[r].row.username, call[r].user) THEN Quit(r) ELSE Advance(r)
  /\ UNCHANGED users

Undelete(r) ==
  /\ At(r, "undelete")
  /\ LET table == [users EXCEPT ![call[r].user].deleted = FALSE] IN
     users' = IF Indexed(table) THEN table ELSE users
  /\ Quit(r)

AccountsStep(r) ==
  \/ \E e \in Email, n \in Usernames, p \in Passwords : Register(r, e, n, p) \/ CreateUser(r, e, n, p)
  \/ \E u \in Users, n \in Usernames :
       UpdateProfile(r, u, n) \/ \E e \in Email : UpdateUser(r, u, e, n)
  \/ \E u \in Users : UploadAvatar(r, u) \/ DeleteUser(r, u) \/ RestoreUser(r, u)
  \/ CheckEmail(r) \/ CheckUsername(r) \/ CheckOtherUsername(r)
  \/ InsertUser(r) \/ Update(r) \/ Undelete(r)
  \/ Fail(r)

-----------------------------------------------------------------------------
(* Properties.                                                             *)

\* Whoever gives an e-mail address (in any spelling), a username or a GitHub
\* account means at most one account in use, whatever registrations, renames,
\* restorations and GitHub sign-ins raced each other between check and write.
UniqueIdentities ==
  \A u, v \in DOMAIN users : u # v =>
    /\ Live(u) /\ Live(v) =>
         /\ users[u].email.address # users[v].email.address
         /\ users[u].username # users[v].username
    /\ users[u].github # None => users[u].github # users[v].github

\* While an account is deleted nothing about it changes, whoever still holds a
\* copy of its row.
DeletedUntouched ==
  [][\A u \in DOMAIN users :
       users[u].deleted /\ users'[u].deleted => users'[u] = users[u]]_accountVars
=============================================================================
