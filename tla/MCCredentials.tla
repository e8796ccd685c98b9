---------------------------- MODULE MCCredentials ----------------------------
(***************************************************************************)
(* Model-checking instance of Credentials.  Each workload sets two         *)
(* requests against each other; an instance explores all of them.          *)
(***************************************************************************)
EXTENDS CredentialsInvariant, TLC

CONSTANTS r1, r2

MCRequests == {r1, r2}

Pair(a, b) == [r \in MCRequests |-> IF r = r1 THEN a ELSE b]

\* Sign-ins and renames while the password changes and the account goes and comes.
SignInWork ==
  { Pair({"register", "login"}, {"change", "delete", "restore"}),
    Pair({"register", "github", "profile"}, {"change"}) }

\* Reset links, used twice, and while the password changes or the account goes.
ResetWork ==
  { Pair({"register", "reset"}, {"forgot", "reset"}),
    Pair({"register", "change"}, {"forgot", "reset"}),
    Pair({"register", "delete"}, {"forgot", "reset"}) }

\* Mails, until the service is closed.
MailWork == Pair({"register", "forgot"}, {"forgot", "close"})

\* Accounts come, go and come back while others take their names.
IdentityWork ==
  { Pair({"register", "updateUser", "restore"}, {"createUser", "profile", "delete"}),
    Pair({"register", "restore", "github", "profile"}, {"github", "delete", "avatar", "updateUser"}) }

MCWorkloads == {MailWork} \cup SignInWork \cup ResetWork \cup IdentityWork

Symmetry == Permutations(Users) \cup Permutations(Addresses)
              \cup Permutations(Usernames) \cup Permutations(Passwords)
              \cup Permutations(Tokens)
=============================================================================
