-------------------------- MODULE CredentialsProofs --------------------------
(***************************************************************************)
(* Theorems on accounts, passwords and reset mails, for any number of      *)
(* accounts, requests, tokens and workers and any size of the queue.       *)
(***************************************************************************)
EXTENDS CredentialsInvariant, SequenceTheorems, TLAPS

-----------------------------------------------------------------------------
(* Sequences.                                                              *)

LEMMA Tails ==
  ASSUME NEW S, NEW s \in Seq(S), s # <<>>
  PROVE  /\ Tail(s) \in Seq(S) /\ Head(s) \in S /\ Head(s) = s[1] /\ 1 \in DOMAIN s
         /\ DOMAIN s = 1..Len(s) /\ Len(s) \in Nat /\ Len(s) > 0
         /\ DOMAIN Tail(s) = 1..(Len(s) - 1) /\ Len(Tail(s)) = Len(s) - 1
         /\ \A i \in 1..(Len(s) - 1) : Tail(s)[i] = s[i + 1]
         /\ Range(s) = {Head(s)} \cup Range(Tail(s))
  <1>1. /\ Tail(s) \in Seq(S) /\ Head(s) \in S /\ Head(s) = s[1] /\ 1 \in DOMAIN s
        /\ DOMAIN s = 1..Len(s) /\ Len(s) \in Nat /\ Len(s) > 0
        /\ DOMAIN Tail(s) = 1..(Len(s) - 1) /\ Len(Tail(s)) = Len(s) - 1
        /\ \A i \in 1..(Len(s) - 1) : Tail(s)[i] = s[i + 1]
    OBVIOUS
  <1>2. ASSUME NEW i \in DOMAIN s
        PROVE  i = 1 \/ (i - 1 \in DOMAIN Tail(s) /\ Tail(s)[i - 1] = s[i])
    BY <1>1
  <1>3. \A i \in DOMAIN Tail(s) : i + 1 \in DOMAIN s
    BY <1>1
  <1>4. Range(s) \subseteq {Head(s)} \cup Range(Tail(s))
    <2>1. ASSUME NEW i \in DOMAIN s
          PROVE  s[i] \in {Head(s)} \cup Range(Tail(s))
      BY <1>1, <1>2 DEF Range
    <2> QED BY <2>1 DEF Range
  <1>5. {Head(s)} \cup Range(Tail(s)) \subseteq Range(s)
    <2>1. Head(s) \in Range(s)
      BY <1>1 DEF Range
    <2>2. ASSUME NEW i \in DOMAIN Tail(s)
          PROVE  Tail(s)[i] \in Range(s)
      BY <1>1, <1>3 DEF Range
    <2> QED BY <2>1, <2>2 DEF Range
  <1> QED BY <1>1, <1>4, <1>5

LEMMA Appends ==
  ASSUME NEW S, NEW s \in Seq(S), NEW x \in S
  PROVE  /\ Append(s, x) \in Seq(S)
         /\ DOMAIN Append(s, x) = 1..(Len(s) + 1) /\ Len(Append(s, x)) = Len(s) + 1
         /\ \A i \in 1..Len(s) : Append(s, x)[i] = s[i]
         /\ Append(s, x)[Len(s) + 1] = x
         /\ Range(Append(s, x)) = Range(s) \cup {x}
  <1>1. /\ Append(s, x) \in Seq(S) /\ DOMAIN s = 1..Len(s) /\ Len(s) \in Nat
        /\ DOMAIN Append(s, x) = 1..(Len(s) + 1) /\ Len(Append(s, x)) = Len(s) + 1
        /\ \A i \in 1..Len(s) : Append(s, x)[i] = s[i]
        /\ Append(s, x)[Len(s) + 1] = x
    BY AppendProperties
  <1>2. \A i \in DOMAIN Append(s, x) : i \in DOMAIN s \/ i = Len(s) + 1
    BY <1>1
  <1>3. \A i \in DOMAIN s : i \in DOMAIN Append(s, x)
    BY <1>1
  <1>4. Len(s) + 1 \in DOMAIN Append(s, x)
    BY <1>1
  <1> QED BY <1>1, <1>2, <1>3, <1>4 DEF Range

LEMMA Joins ==
  ASSUME NEW S, NEW x \in S, NEW y \in S, NEW z \in S
  PROVE  /\ <<>> \o <<>> = <<>> /\ <<>> \o <<x>> = <<x>> /\ <<x>> \o <<>> = <<x>>
         /\ <<x>> \o <<y>> = <<x, y>> /\ <<x, y>> \o <<z>> = <<x, y, z>>
  <1>1. <<>> \o <<>> = <<>>
    OBVIOUS
  <1>2. <<>> \o <<x>> = <<x>>
    OBVIOUS
  <1>3. <<x>> \o <<>> = <<x>>
    OBVIOUS
  <1>4. <<x>> \o <<y>> = <<x, y>>
    <2> DEFINE s == <<x>> \o <<y>>
    <2>1. <<x>> \in Seq(S) /\ <<y>> \in Seq(S)
      OBVIOUS
    <2>2. s \in Seq(S) /\ Len(s) = 2 /\ s[1] = x /\ s[2] = y
      BY <2>1, ConcatProperties
    <2> HIDE DEF s
    <2>3. s = <<x, y>>
      BY <2>2
    <2> QED BY <2>3 DEF s
  <1>5. <<x, y>> \o <<z>> = <<x, y, z>>
    <2> DEFINE s == <<x, y>> \o <<z>>
    <2>1. <<x, y>> \in Seq(S) /\ <<z>> \in Seq(S)
      OBVIOUS
    <2>2. s \in Seq(S) /\ Len(s) = 3 /\ s[1] = x /\ s[2] = y /\ s[3] = z
      BY <2>1, ConcatProperties
    <2> HIDE DEF s
    <2>3. s = <<x, y, z>>
      BY <2>2
    <2> QED BY <2>3 DEF s
  <1> QED BY <1>1, <1>2, <1>3, <1>4, <1>5

-----------------------------------------------------------------------------
(* Statements are executed in order.                                       *)

RequestsTypeOK ==
  /\ asks \in [Requests -> SUBSET Ops]
  /\ todo \in [Requests -> Seq(Statements)]
  /\ call \in [Requests -> Call]

LEMMA OrderedTail ==
  ASSUME NEW s \in Seq(Statements), s # <<>>, Ordered(s)
  PROVE  /\ Ordered(Tail(s))
         /\ Tail(s) # <<>> => Head(Tail(s)) # "loadUser"
         /\ Head(s) = "enqueue" => Tail(s) = <<>>
         /\ Head(s) \notin {"email", "username", "insert"} => "insert" \notin Range(s)
         /\ Head(s) \notin {"dropTokens", "issue", "enqueue"} => "enqueue" \notin Range(s)
         /\ Head(s) # "insert" /\ "insert" \in Range(s) => "insert" \in Range(Tail(s))
  <1> DEFINE t == Tail(s)
  <1>1. /\ t \in Seq(Statements) /\ Head(s) = s[1] /\ 1 \in DOMAIN s
        /\ DOMAIN s = 1..Len(s) /\ Len(s) \in Nat /\ Len(s) > 0
        /\ DOMAIN t = 1..(Len(s) - 1) /\ Len(t) = Len(s) - 1
        /\ \A i \in 1..(Len(s) - 1) : t[i] = s[i + 1]
        /\ Range(s) = {Head(s)} \cup Range(t)
    BY Tails
  <1>2. t # <<>> => t \in Seq(Statements) /\ 1 \in DOMAIN t /\ Head(t) = t[1]
    BY <1>1
  <1>3. t = <<>> <=> Len(t) = 0
    BY <1>1
  <1> HIDE DEF t
  <1>4. ASSUME NEW i \in DOMAIN t, NEW j \in DOMAIN t
        PROVE  /\ t[j] # "loadUser"
               /\ t[j] = "insert" /\ i < j => t[i] \in {"email", "username"}
               /\ t[j] = "enqueue" => j = Len(t)
               /\ t[j] = "enqueue" /\ i < j => t[i] \in {"dropTokens", "issue"}
    <2>1. /\ i + 1 \in DOMAIN s /\ j + 1 \in DOMAIN s /\ t[i] = s[i + 1] /\ t[j] = s[j + 1]
          /\ j \in Nat /\ i \in Nat /\ j + 1 # 1 /\ (i < j => i + 1 < j + 1)
      BY <1>1
    <2>2. /\ s[j + 1] = "loadUser" => j + 1 = 1
          /\ s[j + 1] = "insert" /\ i + 1 < j + 1 => s[i + 1] \in {"email", "username"}
          /\ s[j + 1] = "enqueue" => j + 1 = Len(s)
          /\ s[j + 1] = "enqueue" /\ i + 1 < j + 1 => s[i + 1] \in {"dropTokens", "issue"}
      BY <2>1 DEF Ordered
    <2>3. t[j] # "loadUser"
      BY <2>1, <2>2
    <2>4. t[j] = "insert" /\ i < j => t[i] \in {"email", "username"}
      BY <2>1, <2>2
    <2>6. t[j] = "enqueue" /\ i < j => t[i] \in {"dropTokens", "issue"}
      BY <2>1, <2>2
    <2>5. t[j] = "enqueue" => j = Len(t)
      <3>1. j \in Nat /\ Len(s) \in Nat /\ Len(t) = Len(s) - 1 /\ t[j] = s[j + 1]
        BY <1>1
      <3> QED BY <2>2, <3>1
    <2> QED BY <2>3, <2>4, <2>5, <2>6
  <1>5. Ordered(t)
    BY <1>4 DEF Ordered
  <1>6. t # <<>> => Head(t) # "loadUser"
    BY <1>2, <1>4
  <1>7. Head(s) = "enqueue" => t = <<>>
    BY <1>1, <1>3 DEF Ordered
  <1>8. Head(s) \notin {"email", "username", "insert"} => "insert" \notin Range(s)
    <2>1. ASSUME NEW j \in DOMAIN s, s[j] = "insert", Head(s) # "insert"
          PROVE  Head(s) \in {"email", "username"}
      <3>1. 1 < j
        BY <1>1, <2>1
      <3> QED BY <1>1, <2>1, <3>1 DEF Ordered
    <2> QED BY <2>1 DEF Range
  <1>9. Head(s) \notin {"dropTokens", "issue", "enqueue"} => "enqueue" \notin Range(s)
    <2>1. ASSUME NEW j \in DOMAIN s, s[j] = "enqueue", Head(s) # "enqueue"
          PROVE  Head(s) \in {"dropTokens", "issue"}
      <3>1. 1 < j
        BY <1>1, <2>1
      <3> QED BY <1>1, <2>1, <3>1 DEF Ordered
    <2> QED BY <2>1 DEF Range
  <1> QED BY <1>1, <1>5, <1>6, <1>7, <1>8, <1>9 DEF t

\* The step is request r's.
OthersStay(r) == \A q \in Requests \ {r} : todo'[q] = todo[q] /\ call'[q] = call[q]

LEMMA Quits ==
  ASSUME RequestsTypeOK, NEW r \in Requests, Quit(r)
  PROVE  RequestsTypeOK' /\ OthersStay(r) /\ todo'[r] = <<>> /\ call'[r] = Idle
  <1>1. Idle \in Call /\ <<>> \in Seq(Statements)
    BY DEF Idle, Call
  <1> QED BY <1>1 DEF RequestsTypeOK, Quit, OthersStay

LEMMA Enters ==
  ASSUME RequestsTypeOK, NEW r \in Requests, NEW op, NEW u, NEW row, NEW statements \in Seq(Statements),
         [user |-> u, row |-> row] \in Call, Enter(r, op, u, row, statements)
  PROVE  /\ RequestsTypeOK' /\ OthersStay(r)
         /\ todo'[r] = statements /\ call'[r] = [user |-> u, row |-> row]
  BY DEF RequestsTypeOK, Enter, OthersStay

LEMMA Advances ==
  ASSUME RequestsTypeOK, NEW r \in Requests, NEW c \in Call, todo[r] # <<>>, AdvanceWith(r, c)
  PROVE  /\ RequestsTypeOK' /\ OthersStay(r) /\ todo'[r] = Tail(todo[r])
         /\ call'[r] = IF Tail(todo[r]) = <<>> THEN Idle ELSE c
  <1>1. Tail(todo[r]) \in Seq(Statements)
    BY Tails DEF RequestsTypeOK
  <1>2. CASE Tail(todo[r]) = <<>>
    BY <1>2, Quits DEF AdvanceWith
  <1>3. CASE Tail(todo[r]) # <<>>
    BY <1>1, <1>3 DEF AdvanceWith, RequestsTypeOK, OthersStay
  <1> QED BY <1>2, <1>3

-----------------------------------------------------------------------------
(* What a request may do to its own copy.                                  *)

\* The copy of a request that works on an account whose change held.
Faithful(r, c) ==
  \A u \in undisturbed : changed[u] # None /\ c.user = u => c.row.password = changed[u]

\* No row disappears, and no password that held is changed.
UsersKept ==
  /\ DOMAIN users \subseteq DOMAIN users'
  /\ \A u \in undisturbed : changed[u] # None => users'[u].password = users[u].password

\* A step of request r that issues no token.
Moved(r) ==
  /\ RequestsTypeOK' /\ OthersStay(r)
  /\ RequestOK(r)'
  /\ Loaded(r)' => Faithful(r, call'[r])
  /\ Holds(r)' => Holds(r)

LEMMA Reads ==
  ASSUME IInv, NEW r \in Requests
  PROVE  /\ RequestsTypeOK /\ RequestOK(r) /\ todo[r] \in Seq(Statements) /\ call[r] \in Call
         /\ Loaded(r) => Faithful(r, call[r])
         /\ \A u \in undisturbed : u \in DOMAIN users
         /\ \A u \in DOMAIN users : u \in Users /\ u # None /\ users[u] \in Row /\ ~users[u].email.capitals
  <1>1. RequestsTypeOK /\ RequestOK(r) /\ PasswordsOK /\ UsersOK
    BY DEF IInv, TypeOK, AccountsTypeOK, RequestsTypeOK
  <1>2. \A u \in DOMAIN users : u \in Users /\ u # None /\ users[u] \in Row
    BY AccountsAssumption DEF IInv, TypeOK, AccountsTypeOK
  <1> QED BY <1>1, <1>2 DEF RequestsTypeOK, PasswordsOK, Faithful, UsersOK

LEMMA QuitMoved ==
  ASSUME IInv, NEW r \in Requests, Quit(r)
  PROVE  Moved(r)
  <1>1. /\ RequestsTypeOK' /\ OthersStay(r) /\ todo'[r] = <<>> /\ call'[r] = Idle
    BY Reads, Quits
  <1>2. ~Loaded(r)' /\ ~Holds(r)'
    BY <1>1 DEF Loaded, Holds, Range
  <1>3. Ordered(<<>>)
    BY DEF Ordered
  <1>4. RequestOK(r)'
    <2>1. Ordered(todo'[r]) /\ call'[r].user = None
      BY <1>1, <1>3 DEF Idle
    <2> QED BY <1>1, <1>2, <2>1 DEF RequestOK, Ordered
  <1> QED BY <1>1, <1>2, <1>4 DEF Moved

\* A step of request r that leaves it with c for its locals, or done.
Stepped(r, c) ==
  /\ RequestsTypeOK' /\ OthersStay(r)
  /\ RequestOK(r)'
  /\ Loaded(r)' => call'[r] = c

LEMMA AdvanceStepped ==
  ASSUME IInv, NEW r \in Requests, NEW c \in Call, todo[r] # <<>>, AdvanceWith(r, c),
         c.row \in Row, ~c.row.email.capitals,
         c.user \in DOMAIN users' \cup {None},
         c.user = None => call[r].user = None /\ Head(todo[r]) # "insert"
  PROVE  Stepped(r, c) /\ (Holds(r)' => Holds(r) \/ Head(todo[r]) = "issue")
  <1>1. /\ RequestsTypeOK' /\ OthersStay(r) /\ todo'[r] = Tail(todo[r])
        /\ call'[r] = (IF Tail(todo[r]) = <<>> THEN Idle ELSE c)
    BY Reads, Advances
  <1>2. Ordered(Tail(todo[r]))
    BY Reads, OrderedTail DEF RequestOK
  <1>3. Range(todo[r]) = {Head(todo[r])} \cup Range(Tail(todo[r]))
    BY Reads, Tails
  <1>4. Holds(r)' => Holds(r) \/ Head(todo[r]) = "issue"
    BY <1>1, <1>3 DEF Holds, Range
  <1>5. CASE Tail(todo[r]) = <<>>
    <2>1. todo'[r] = <<>> /\ call'[r].user = None /\ ~Loaded(r)'
      BY <1>1, <1>5 DEF Idle, Loaded
    <2>2. RequestOK(r)'
      BY <1>2, <1>5, <2>1 DEF RequestOK, Ordered
    <2> QED BY <1>1, <1>4, <2>1, <2>2 DEF Stepped
  <1>6. CASE Tail(todo[r]) # <<>>
    <2>1. call'[r] = c
      BY <1>1, <1>6
    <2>2. c.user # None \/ "insert" \in Range(Tail(todo[r]))
      BY Reads, OrderedTail DEF RequestOK
    <2>3. RequestOK(r)'
      BY <1>1, <1>2, <2>1, <2>2 DEF RequestOK, Ordered
    <2> QED BY <1>1, <1>4, <2>1, <2>3 DEF Stepped
  <1> QED BY <1>5, <1>6

\* On to the next statement, with the same locals or others that are as good.
LEMMA AdvanceMoved ==
  ASSUME IInv, NEW r \in Requests, NEW c \in Call, todo[r] # <<>>, AdvanceWith(r, c),
         Head(todo[r]) # "issue",
         c.row \in Row, ~c.row.email.capitals, Faithful(r, c),
         c.user \in DOMAIN users' \cup {None},
         c.user = None => call[r].user = None /\ Head(todo[r]) # "insert"
  PROVE  Moved(r)
  BY AdvanceStepped DEF Stepped, Moved

LEMMA AdvancePlain ==
  ASSUME IInv, NEW r \in Requests, todo[r] # <<>>, Advance(r),
         Head(todo[r]) \notin {"issue", "insert", "loadUser"},
         DOMAIN users \subseteq DOMAIN users'
  PROVE  Moved(r)
  <1>1. /\ RequestOK(r) /\ call[r] \in Call /\ Faithful(r, call[r])
        /\ call[r].row \in Row /\ ~call[r].row.email.capitals
    BY Reads DEF RequestOK, Loaded
  <1> QED BY <1>1, AdvanceMoved DEF Advance, RequestOK

\* What a request sets out to do.
Plan(statements) ==
  /\ statements \in Seq(Statements)
  /\ statements # <<>>
  /\ Ordered(statements)
  /\ "enqueue" \in Range(statements) => "issue" \in Range(statements)

LEMMA EnterStepped ==
  ASSUME IInv, NEW r \in Requests, NEW op, NEW u, NEW row, NEW statements, Plan(statements),
         Enter(r, op, u, row, statements),
         DOMAIN users \subseteq DOMAIN users',
         u \in DOMAIN users \/ (u = None /\ "insert" \in Range(statements)),
         \/ row = None /\ Head(statements) = "loadUser"
         \/ row \in Row /\ ~row.email.capitals
  PROVE  Stepped(r, [user |-> u, row |-> row]) /\ todo'[r] = statements /\ ~Holds(r)'
  <1> DEFINE c == [user |-> u, row |-> row]
  <1>1. c \in Call /\ c.user = u /\ c.row = row
    BY Reads DEF Call
  <1>2. RequestsTypeOK' /\ OthersStay(r) /\ todo'[r] = statements /\ call'[r] = c
    BY <1>1, Reads, Enters DEF Plan
  <1> HIDE DEF c
  <1>3. u \in DOMAIN users => u # None
    BY Reads
  <1>4. Ordered(statements)
    BY DEF Plan
  <1>5. RequestOK(r)'
    BY <1>1, <1>2, <1>3, <1>4 DEF RequestOK, Ordered, Loaded
  <1>6. ~Holds(r)'
    BY <1>2 DEF Holds, Plan
  <1> QED BY <1>2, <1>5, <1>6 DEF Stepped, c

LEMMA EnterMoved ==
  ASSUME IInv, NEW r \in Requests, NEW op, NEW u, NEW row, NEW statements, Plan(statements),
         Enter(r, op, u, row, statements),
         DOMAIN users \subseteq DOMAIN users',
         u \in DOMAIN users \/ (u = None /\ "insert" \in Range(statements)),
         \/ row = None /\ Head(statements) = "loadUser"
         \/ /\ row \in Row /\ ~row.email.capitals
            /\ \A x \in undisturbed : changed[x] # None /\ u = x => row.password = changed[x]
  PROVE  Moved(r)
  <1>1. Stepped(r, [user |-> u, row |-> row]) /\ todo'[r] = statements /\ ~Holds(r)'
    BY EnterStepped
  <1>2. Loaded(r)' => Faithful(r, call'[r])
    BY <1>1 DEF Stepped, Faithful, Loaded
  <1> QED BY <1>1, <1>2 DEF Stepped, Moved

\* Every list of statements some request starts with.
LEMMA Plans ==
  /\ Plan(<<"email", "username", "insert">>)
  /\ Plan(<<"email", "username", "email", "insert">>)
  /\ Plan(<<"update">>) /\ Plan(<<"username", "update">>)
  /\ Plan(<<"email", "update">>) /\ Plan(<<"email", "username", "update">>)
  /\ Plan(<<"email", "otherUsername", "undelete">>)
  /\ Plan(<<"session", "writeBack">>) /\ Plan(<<"githubSession", "writeBack">>)
  /\ Plan(<<"insert", "githubSession", "writeBack">>)
  /\ Plan(<<"dropTokens", "issue", "enqueue">>)
  /\ Plan(<<"loadUser", "update", "markUsed", "revoke">>)
  /\ Plan(<<"update", "revoke">>) /\ Plan(<<"dropSessions">>)
  <1>1. ASSUME NEW a \in Statements
        PROVE  /\ <<a>> \in Seq(Statements) /\ <<a>> # <<>> /\ Head(<<a>>) = a
               /\ Range(<<a>>) = {a}
               /\ a # "insert" /\ a # "enqueue" => Ordered(<<a>>)
    BY <1>1 DEF Ordered, Range
  <1>2. Plan(<<"update">>) /\ Plan(<<"dropSessions">>)
    BY <1>1 DEF Plan, Statements
  <1>3. Plan(<<"email", "username", "insert">>)
    BY DEF Plan, Statements, Ordered, Range
  <1>4. Plan(<<"email", "username", "email", "insert">>)
    BY DEF Plan, Statements, Ordered, Range
  <1>5. Plan(<<"username", "update">>)
    BY DEF Plan, Statements, Ordered, Range
  <1>6. Plan(<<"email", "update">>)
    BY DEF Plan, Statements, Ordered, Range
  <1>7. Plan(<<"email", "username", "update">>)
    BY DEF Plan, Statements, Ordered, Range
  <1>8. Plan(<<"email", "otherUsername", "undelete">>)
    BY DEF Plan, Statements, Ordered, Range
  <1>9. Plan(<<"session", "writeBack">>)
    BY DEF Plan, Statements, Ordered, Range
  <1>10. Plan(<<"githubSession", "writeBack">>)
    BY DEF Plan, Statements, Ordered, Range
  <1>11. Plan(<<"insert", "githubSession", "writeBack">>)
    BY DEF Plan, Statements, Ordered, Range
  <1>12. Plan(<<"dropTokens", "issue", "enqueue">>)
    BY DEF Plan, Statements, Ordered, Range
  <1>13. Plan(<<"loadUser", "update", "markUsed", "revoke">>)
    BY DEF Plan, Statements, Ordered, Range
  <1>14. Plan(<<"update", "revoke">>)
    BY DEF Plan, Statements, Ordered, Range
  <1> QED BY <1>2, <1>3, <1>4, <1>5, <1>6, <1>7, <1>8, <1>9, <1>10, <1>11, <1>12, <1>13, <1>14

-----------------------------------------------------------------------------
(* The users table.                                                        *)

\* What a step may do to the users table.
TableMoves ==
  /\ DOMAIN users' \subseteq Users
  /\ users' \in [DOMAIN users' -> Row]
  /\ UsersOK'
  /\ UsersKept

LEMMA TableStays ==
  ASSUME IInv, UNCHANGED users
  PROVE  TableMoves
  BY DEF IInv, TypeOK, AccountsTypeOK, UsersOK, Indexed, TableMoves, UsersKept

LEMMA SoftDeleteStep ==
  ASSUME IInv, NEW u, SoftDelete(u)
  PROVE  TableMoves
  <1>1. /\ u \in DOMAIN users /\ UsersOK
        /\ DOMAIN users \subseteq Users /\ users \in [DOMAIN users -> Row]
    BY DEF IInv, TypeOK, AccountsTypeOK, SoftDelete, Live
  <1> DEFINE row == [users[u] EXCEPT !.deleted = TRUE]
  <1>2. /\ row \in Row /\ row.email = users[u].email /\ row.username = users[u].username
        /\ row.password = users[u].password /\ row.github = users[u].github /\ row.deleted
    BY <1>1 DEF Row
  <1>3. users' = [users EXCEPT ![u] = row]
    BY DEF SoftDelete
  <1> HIDE DEF row
  <1>4. DOMAIN users' = DOMAIN users /\ users' \in [DOMAIN users -> Row]
    BY <1>1, <1>2, <1>3
  <1>5. Indexed(users)'
    BY <1>1, <1>2, <1>3, <1>4 DEF UsersOK, Indexed
  <1>6. \A x \in DOMAIN users' : ~users'[x].email.capitals /\ users'[x].password = users[x].password
    BY <1>1, <1>2, <1>3, <1>4 DEF UsersOK
  <1>7. \A x \in undisturbed : x \in DOMAIN users
    BY DEF IInv, PasswordsOK
  <1> QED BY <1>1, <1>4, <1>5, <1>6, <1>7 DEF TableMoves, UsersOK, UsersKept

LEMMA UndeleteStep ==
  ASSUME IInv, NEW r \in Requests, Undelete(r)
  PROVE  TableMoves
  <1> DEFINE u == call[r].user
             row == [users[u] EXCEPT !.deleted = FALSE]
             table == [users EXCEPT ![u].deleted = FALSE]
  <1>1. CASE UNCHANGED users
    BY <1>1, TableStays
  <1>2. CASE u \notin DOMAIN users
    <2>1. table = users
      BY <1>2 DEF IInv, TypeOK, AccountsTypeOK
    <2> QED BY <2>1, TableStays DEF Undelete
  <1>3. CASE u \in DOMAIN users /\ users' = table /\ Indexed(table)
    <2>1. /\ UsersOK /\ DOMAIN users \subseteq Users /\ users \in [DOMAIN users -> Row]
      BY DEF IInv, TypeOK, AccountsTypeOK
    <2>2. /\ row \in Row /\ row.email = users[u].email /\ row.password = users[u].password
      BY <1>3, <2>1 DEF Row
    <2>3. users' = [users EXCEPT ![u] = row]
      BY <1>3
    <2> HIDE DEF row, table
    <2>4. DOMAIN users' = DOMAIN users /\ users' \in [DOMAIN users -> Row]
      BY <1>3, <2>1, <2>2, <2>3
    <2>5. Indexed(users)'
      BY <1>3 DEF Indexed
    <2>6. \A x \in DOMAIN users' : ~users'[x].email.capitals /\ users'[x].password = users[x].password
      BY <1>3, <2>1, <2>2, <2>3, <2>4 DEF UsersOK
    <2>7. \A x \in undisturbed : x \in DOMAIN users
      BY DEF IInv, PasswordsOK
    <2> QED BY <2>1, <2>4, <2>5, <2>6, <2>7 DEF TableMoves, UsersOK, UsersKept
  <1> QED BY <1>1, <1>2, <1>3 DEF Undelete

\* The copy that is written back has the password the row has.
LEMMA WriteStep ==
  ASSUME IInv, NEW r \in Requests, At(r, "update") \/ At(r, "writeBack"), Updates(r), users' = Written(r)
  PROVE  TableMoves
  <1> DEFINE u == call[r].user
             copy == call[r].row
             row == [users[u] EXCEPT !.email = copy.email, !.username = copy.username, !.password = copy.password]
  <1>1. /\ u \in DOMAIN users /\ UsersOK /\ Indexed(Written(r))
        /\ DOMAIN users \subseteq Users /\ users \in [DOMAIN users -> Row]
    BY DEF IInv, TypeOK, AccountsTypeOK, Updates, Live
  <1>2. Loaded(r)
    BY DEF At, Loaded
  <1>3. copy \in Row /\ ~copy.email.capitals /\ Faithful(r, call[r])
    BY <1>2, Reads DEF RequestOK
  <1>4. row \in Row /\ row.email = copy.email /\ row.password = copy.password
    BY <1>1, <1>3 DEF Row
  <1>5. users' = [users EXCEPT ![u] = row]
    BY DEF Written
  <1>6. \A x \in undisturbed : changed[x] # None => users[x].password = changed[x]
    BY DEF IInv, PasswordsOK
  <1>7. Indexed(users)'
    BY <1>1 DEF Indexed
  <1> HIDE DEF row, copy
  <1>8. DOMAIN users' = DOMAIN users /\ users' \in [DOMAIN users -> Row]
    BY <1>1, <1>4, <1>5
  <1>9. \A x \in DOMAIN users' : ~users'[x].email.capitals
    BY <1>1, <1>3, <1>4, <1>5, <1>8 DEF UsersOK
  <1>10. UsersKept
    <2>1. ASSUME NEW x \in undisturbed, changed[x] # None
          PROVE  users'[x].password = users[x].password
      <3>1. CASE x = u
        BY <1>1, <1>3, <1>4, <1>5, <1>6, <2>1, <3>1 DEF Faithful, copy
      <3>2. CASE x # u
        BY <1>5, <3>2
      <3> QED BY <3>1, <3>2
    <2> QED BY <1>8, <2>1 DEF UsersKept
  <1> QED BY <1>1, <1>7, <1>8, <1>9, <1>10 DEF TableMoves, UsersOK

LEMMA InsertStep ==
  ASSUME IInv, NEW r \in Requests, InsertUser(r)
  PROVE  TableMoves /\ Moved(r)
  <1>1. /\ todo[r] # <<>> /\ Head(todo[r]) = "insert" /\ Loaded(r)
        /\ call[r] \in Call /\ call[r].row \in Row /\ ~call[r].row.email.capitals
    BY Reads DEF InsertUser, At, Loaded, RequestOK
  <1>2. CASE Quit(r) /\ UNCHANGED users
    BY <1>2, TableStays, QuitMoved
  <1>3. ASSUME NEW u \in Users \ DOMAIN users,
               users' = [v \in DOMAIN users \cup {u} |-> IF v = u THEN call[r].row ELSE users[v]],
               Indexed(users'),
               AdvanceWith(r, [call[r] EXCEPT !.user = u])
        PROVE  TableMoves /\ Moved(r)
    <2> DEFINE c == [call[r] EXCEPT !.user = u]
    <2>1. /\ UsersOK /\ DOMAIN users \subseteq Users /\ users \in [DOMAIN users -> Row]
          /\ \A x \in undisturbed : x \in DOMAIN users
      BY DEF IInv, TypeOK, AccountsTypeOK, PasswordsOK
    <2>2. /\ DOMAIN users' = DOMAIN users \cup {u} /\ users'[u] = call[r].row
          /\ \A x \in DOMAIN users : x # u /\ users'[x] = users[x]
      BY <1>3
    <2>3. TableMoves
      <3>1. users' \in [DOMAIN users' -> Row]
        BY <1>1, <1>3, <2>1
      <3>2. UsersOK'
        BY <1>1, <1>3, <2>1, <2>2 DEF UsersOK, Indexed
      <3> QED BY <2>1, <2>2, <3>1, <3>2 DEF TableMoves, UsersKept
    <2>4. c \in Call /\ c.user = u /\ c.row = call[r].row
      BY <1>1 DEF Call
    <2>5. u # None
      BY AccountsAssumption
    <2>6. AdvanceWith(r, c)
      BY <1>3
    <2> HIDE DEF c
    <2>7. Faithful(r, c) /\ c.row \in Row /\ ~c.row.email.capitals
      BY <1>1, <2>1, <2>4 DEF Faithful
    <2>8. Moved(r)
      BY <1>1, <2>2, <2>4, <2>5, <2>6, <2>7, AdvanceMoved
    <2> QED BY <2>3, <2>8
  <1> QED BY <1>2, <1>3 DEF InsertUser

-----------------------------------------------------------------------------
(* Steps on accounts.                                                      *)

LEMMA NewRows ==
  ASSUME NEW e \in Email, NEW n \in Usernames, NEW p \in Passwords \cup {None}, NEW g \in GithubIds \cup {None}
  PROVE  NewRow(e, n, p, g) \in Row /\ ~NewRow(e, n, p, g).email.capitals
  <1>1. NormalizeEmail(e) \in Email /\ ~NormalizeEmail(e).capitals
    BY DEF NormalizeEmail, Email
  <1> QED BY <1>1 DEF NewRow, Row

\* The checks come before the UPDATE.
LEMMA UpdatePlans ==
  ASSUME NEW a \in {<<>>, <<"email">>}, NEW b \in {<<>>, <<"username">>}
  PROVE  Plan(a \o b \o <<"update">>) /\ Plan(b \o <<"update">>)
  <1>0. "email" \in Statements /\ "username" \in Statements /\ "update" \in Statements
    BY DEF Statements
  <1>1. <<>> \o <<"update">> = <<"update">> /\ <<"username">> \o <<"update">> = <<"username", "update">>
    BY <1>0, Joins
  <1>2. /\ <<>> \o <<>> = <<>> /\ <<>> \o <<"username">> = <<"username">>
        /\ <<"email">> \o <<>> = <<"email">> /\ <<"email">> \o <<"username">> = <<"email", "username">>
    BY <1>0, Joins
  <1>3. /\ <<"email">> \o <<"update">> = <<"email", "update">>
        /\ <<"email", "username">> \o <<"update">> = <<"email", "username", "update">>
    <2>1. <<"email">> \o <<"update">> = <<"email", "update">>
      BY <1>0, Joins
    <2>2. <<"email", "username">> \o <<"update">> = <<"email", "username", "update">>
      BY <1>0, Joins
    <2> QED BY <2>1, <2>2
  <1>4. CASE b = <<>>
    <2>1. CASE a = <<>>
      BY <1>1, <1>2, <1>4, <2>1, Plans
    <2>2. CASE a = <<"email">>
      BY <1>1, <1>2, <1>3, <1>4, <2>2, Plans
    <2> QED BY <2>1, <2>2
  <1>5. CASE b = <<"username">>
    <2>1. CASE a = <<>>
      BY <1>1, <1>2, <1>5, <2>1, Plans
    <2>2. CASE a = <<"email">>
      BY <1>1, <1>2, <1>3, <1>5, <2>2, Plans
    <2> QED BY <2>1, <2>2
  <1> QED BY <1>4, <1>5

\* A copy of a row, as it is, under another name, or with another address.
LEMMA Copies ==
  ASSUME IInv, NEW u \in DOMAIN users, NEW n \in Usernames, NEW e \in Email
  PROVE  LET held(row) == /\ row \in Row /\ ~row.email.capitals
                          /\ \A x \in undisturbed : changed[x] # None /\ u = x => row.password = changed[x]
         IN /\ held(users[u])
            /\ held([users[u] EXCEPT !.username = n])
            /\ held([users[u] EXCEPT !.email = NormalizeEmail(e), !.username = n])
  <1>1. users[u] \in Row /\ ~users[u].email.capitals
    BY DEF IInv, TypeOK, AccountsTypeOK, UsersOK
  <1>2. \A x \in undisturbed : changed[x] # None /\ u = x => users[u].password = changed[x]
    BY DEF IInv, PasswordsOK
  <1>3. NormalizeEmail(e) \in Email /\ ~NormalizeEmail(e).capitals
    BY DEF NormalizeEmail, Email
  <1> QED BY <1>1, <1>2, <1>3 DEF Row

LEMMA Starts ==
  ASSUME IInv, NEW r \in Requests,
         \/ \E e \in Email, n \in Usernames, p \in Passwords : Register(r, e, n, p) \/ CreateUser(r, e, n, p)
         \/ \E u \in Users, n \in Usernames :
              UpdateProfile(r, u, n) \/ \E e \in Email : UpdateUser(r, u, e, n)
         \/ \E u \in Users : UploadAvatar(r, u) \/ RestoreUser(r, u)
  PROVE  UNCHANGED users /\ Moved(r)
  <1>1. UNCHANGED users
    BY DEF Register, CreateUser, UpdateProfile, UpdateUser, UploadAvatar, RestoreUser
  <1>2. ASSUME NEW e \in Email, NEW n \in Usernames, NEW p \in Passwords,
               Register(r, e, n, p) \/ CreateUser(r, e, n, p)
        PROVE  Moved(r)
    <2>1. NewRow(e, n, p, None) \in Row /\ ~NewRow(e, n, p, None).email.capitals
      BY NewRows
    <2>2. None \notin undisturbed
      BY Reads
    <2>3. /\ "insert" \in Range(<<"email", "username", "insert">>)
          /\ "insert" \in Range(<<"email", "username", "email", "insert">>)
      BY DEF Range
    <2>4. CASE Register(r, e, n, p)
      <3>1. Enter(r, "register", None, NewRow(e, n, p, None), <<"email", "username", "insert">>)
        BY <2>4 DEF Register
      <3> QED BY <1>1, <2>1, <2>2, <2>3, <3>1, Plans, EnterMoved
    <2>5. CASE CreateUser(r, e, n, p)
      <3>1. Enter(r, "createUser", None, NewRow(e, n, p, None), <<"email", "username", "email", "insert">>)
        BY <2>5 DEF CreateUser
      <3> QED BY <1>1, <2>1, <2>2, <2>3, <3>1, Plans, EnterMoved
    <2> QED BY <1>2, <2>4, <2>5
  <1>3. ASSUME NEW u \in Users, NEW n \in Usernames, UpdateProfile(r, u, n)
        PROVE  Moved(r)
    <2>1. u \in DOMAIN users
      BY <1>3 DEF UpdateProfile, Live
    <2>2. PICK b \in {<<>>, <<"username">>} :
                 Enter(r, "profile", u, [users[u] EXCEPT !.username = n], b \o <<"update">>)
      BY <1>3 DEF UpdateProfile, ChecksOf
    <2>3. PICK e \in Email : TRUE
      BY <2>1, Reads DEF Row
    <2>4. Plan(b \o <<"update">>)
      BY UpdatePlans
    <2> QED BY <1>1, <2>1, <2>2, <2>3, <2>4, Copies, EnterMoved
  <1>4. ASSUME NEW u \in Users, NEW n \in Usernames, NEW e \in Email, UpdateUser(r, u, e, n)
        PROVE  Moved(r)
    <2>1. u \in DOMAIN users
      BY <1>4 DEF UpdateUser, Live
    <2> DEFINE row == [users[u] EXCEPT !.email = NormalizeEmail(e), !.username = n]
    <2>2. PICK a \in {<<>>, <<"email">>}, b \in {<<>>, <<"username">>} :
                 Enter(r, "updateUser", u, row, a \o b \o <<"update">>)
      BY <1>4 DEF UpdateUser, ChecksOf
    <2>3. Plan(a \o b \o <<"update">>)
      BY UpdatePlans
    <2>4. /\ row \in Row /\ ~row.email.capitals
          /\ \A x \in undisturbed : changed[x] # None /\ u = x => row.password = changed[x]
      <3>1. NormalizeEmail(e) \in Email /\ ~NormalizeEmail(e).capitals
        BY DEF NormalizeEmail, Email
      <3>2. users[u] \in Row
        BY <2>1, Reads
      <3>3. row \in Row /\ row.email = NormalizeEmail(e) /\ row.password = users[u].password
        BY <3>1, <3>2 DEF Row
      <3>4. \A x \in undisturbed : changed[x] # None /\ u = x => users[u].password = changed[x]
        BY DEF IInv, PasswordsOK
      <3> HIDE DEF row
      <3> QED BY <3>1, <3>3, <3>4
    <2> HIDE DEF row
    <2> DEFINE plan == a \o b \o <<"update">>
    <2>5. Plan(plan) /\ Enter(r, "updateUser", u, row, plan)
      BY <2>2, <2>3
    <2> HIDE DEF plan
    <2> QED BY <1>1, <2>1, <2>4, <2>5, EnterMoved
  <1>5. ASSUME NEW u \in Users, UploadAvatar(r, u) \/ RestoreUser(r, u)
        PROVE  Moved(r)
    <2>1. u \in DOMAIN users
      BY <1>5 DEF UploadAvatar, RestoreUser, Live
    <2>2. PICK e \in Email, n \in Usernames : TRUE
      BY <2>1, Reads DEF Row
    <2>3. PICK op, st : /\ st \in {<<"update">>, <<"email", "otherUsername", "undelete">>}
                        /\ Enter(r, op, u, users[u], st)
      BY <1>5 DEF UploadAvatar, RestoreUser
    <2> QED BY <1>1, <2>1, <2>2, <2>3, Copies, Plans, EnterMoved
  <1> QED BY <1>1, <1>2, <1>3, <1>4, <1>5

LEMMA AccountsMoved ==
  ASSUME IInv, NEW r \in Requests, AccountsStep(r)
  PROVE  TableMoves /\ Moved(r)
  <1>1. CASE CheckEmail(r) \/ CheckUsername(r) \/ CheckOtherUsername(r)
    <2>1. /\ UNCHANGED users
          /\ todo[r] # <<>> /\ Head(todo[r]) \notin {"issue", "insert", "loadUser"}
          /\ Quit(r) \/ Advance(r)
      BY <1>1 DEF CheckEmail, CheckUsername, CheckOtherUsername, At
    <2> QED BY <2>1, TableStays, QuitMoved, AdvancePlain
  <1>2. CASE Update(r)
    <2>1. /\ todo[r] # <<>> /\ Head(todo[r]) \notin {"issue", "insert", "loadUser"}
          /\ At(r, "update") \/ At(r, "writeBack")
          /\ Quit(r) \/ Advance(r)
          /\ UNCHANGED users \/ (Updates(r) /\ users' = Written(r))
      BY <1>2 DEF Update, At
    <2>2. TableMoves
      BY <2>1, TableStays, WriteStep
    <2> QED BY <2>1, <2>2, QuitMoved, AdvancePlain DEF TableMoves, UsersKept
  <1>3. CASE Undelete(r)
    <2>1. Quit(r)
      BY <1>3 DEF Undelete
    <2> QED BY <1>3, <2>1, UndeleteStep, QuitMoved
  <1>4. ASSUME NEW u \in Users, DeleteUser(r, u)
        PROVE  TableMoves /\ Moved(r)
    <2>1. TableMoves /\ UNCHANGED <<asks, todo, call>>
      BY <1>4, SoftDeleteStep DEF DeleteUser
    <2>2. RequestsTypeOK /\ RequestOK(r) /\ (Loaded(r) => Faithful(r, call[r]))
      BY Reads
    <2>3. DOMAIN users \subseteq DOMAIN users'
      BY <2>1 DEF TableMoves, UsersKept
    <2> QED BY <2>1, <2>2, <2>3 DEF Moved, RequestsTypeOK, OthersStay, RequestOK, Loaded, Ordered, Holds
  <1>5. CASE Fail(r)
    BY <1>5, TableStays, QuitMoved DEF Fail
  <1>6. CASE InsertUser(r)
    BY <1>6, InsertStep
  <1>7. CASE UNCHANGED users /\ Moved(r)
    BY <1>7, TableStays
  <1> QED BY <1>1, <1>2, <1>3, <1>4, <1>5, <1>6, <1>7, Starts DEF AccountsStep

-----------------------------------------------------------------------------
(* What a step of one request leaves of the invariant.                     *)

LEMMA CopiesStay ==
  ASSUME IInv, NEW r \in Requests, RequestsTypeOK', OthersStay(r), RequestOK(r)', TableMoves
  PROVE  /\ AccountsTypeOK' /\ UsersOK'
         /\ \A q \in Requests : RequestOK(q)'
  <1>1. ASSUME NEW q \in Requests \ {r}
        PROVE  RequestOK(q)'
    <2>1. RequestOK(q) /\ todo'[q] = todo[q] /\ call'[q] = call[q] /\ DOMAIN users \subseteq DOMAIN users'
      BY DEF IInv, OthersStay, TableMoves, UsersKept
    <2> QED BY <2>1 DEF RequestOK, Loaded, Ordered
  <1> QED BY <1>1 DEF TableMoves, AccountsTypeOK, RequestsTypeOK

\* Sessions that an account whose change held may have.
Allowed(s) == \A u \in undisturbed : changed[u] # None /\ s.user = u => s.password \in {changed[u], None}

LEMMA PasswordsStay ==
  ASSUME IInv, NEW r \in Requests, OthersStay(r), Loaded(r)' => Faithful(r, call'[r]),
         TableMoves, UNCHANGED history,
         \A s \in sessions' : s \in sessions \/ Allowed(s)
  PROVE  PasswordsOK'
  <1>1. PasswordsOK /\ UNCHANGED <<changed, undisturbed>>
    BY DEF IInv, history
  <1>2. \A s \in sessions : Allowed(s)
    BY <1>1 DEF PasswordsOK, SessionsOf, Allowed
  <1> SUFFICES ASSUME NEW u \in undisturbed
               PROVE  /\ u \in DOMAIN users'
                      /\ changed[u] # None =>
                           /\ users'[u].password = changed[u]
                           /\ \A s \in SessionsOf(u)' : s.password \in {changed[u], None}
                           /\ \A q \in Requests :
                                Loaded(q)' /\ call'[q].user = u => call'[q].row.password = changed[u]
    BY <1>1 DEF PasswordsOK
  <1>3. u \in DOMAIN users'
    BY <1>1 DEF PasswordsOK, TableMoves, UsersKept
  <1>4. changed[u] # None => users'[u].password = changed[u]
    BY <1>1 DEF PasswordsOK, TableMoves, UsersKept
  <1>5. changed[u] # None => \A s \in SessionsOf(u)' : s.password \in {changed[u], None}
    BY <1>2 DEF SessionsOf, Allowed
  <1>6. ASSUME changed[u] # None, NEW q \in Requests, Loaded(q)', call'[q].user = u
        PROVE  call'[q].row.password = changed[u]
    <2>1. CASE q = r
      BY <1>6, <2>1 DEF Faithful
    <2>2. CASE q # r
      BY <1>1, <1>6, <2>2 DEF OthersStay, Loaded, PasswordsOK
    <2> QED BY <2>1, <2>2
  <1> QED BY <1>3, <1>4, <1>5, <1>6

\* The request may let go of its token, but takes no other.
TokenKept(r) ==
  /\ token' \in [Requests -> Tokens \cup {None}]
  /\ \A q \in Requests \ {r} : token'[q] = token[q]
  /\ Holds(r)' => token'[r] = token[r]

LEMMA TokensStay ==
  ASSUME IInv, NEW r \in Requests, OthersStay(r), TokenKept(r), Holds(r)' => Holds(r),
         UNCHANGED accepted, DOMAIN tokens \subseteq DOMAIN tokens',
         \A t \in DOMAIN tokens' : tokens'[t].user \in DOMAIN users'
  PROVE  TokensOK'
  <1>1. \A q \in Requests : Holds(q)' => Holds(q) /\ token'[q] = token[q]
    BY DEF OthersStay, TokenKept, Holds
  <1> QED BY <1>1 DEF IInv, TokensOK

LEMMA QueueStays ==
  ASSUME IInv, UNCHANGED mailVars
  PROVE  Mail!MailTypeOK' /\ QueueOK' /\ UNCHANGED accepted
  BY DEF IInv, TypeOK, Mail!MailTypeOK, QueueOK, MailsAccountedFor, mailVars

\* Steps on accounts, sessions and used tokens.
LEMMA MovedStep ==
  ASSUME IInv, NEW r \in Requests, Moved(r), TableMoves, UNCHANGED <<mailVars, history>>, TokenKept(r),
         \A s \in sessions' : s \in sessions \/ (s \in Session /\ Allowed(s)),
         DOMAIN tokens' = DOMAIN tokens, tokens' \in [DOMAIN tokens -> Token],
         \A t \in DOMAIN tokens : tokens'[t].user = tokens[t].user
  PROVE  IInv'
  <1>1. RequestsTypeOK' /\ OthersStay(r) /\ RequestOK(r)' /\ (Holds(r)' => Holds(r))
    BY DEF Moved
  <1>2. AccountsTypeOK' /\ UsersOK' /\ \A q \in Requests : RequestOK(q)'
    BY <1>1, CopiesStay
  <1>3. PasswordsOK'
    BY PasswordsStay DEF Moved
  <1>4. Mail!MailTypeOK' /\ QueueOK' /\ UNCHANGED accepted
    BY QueueStays
  <1>5. TokensOK'
    <2>1. \A t \in DOMAIN tokens' : tokens'[t].user \in DOMAIN users'
      BY DEF IInv, TokensOK, TableMoves, UsersKept
    <2> QED BY <1>1, <1>4, <2>1, TokensStay
  <1>6. TypeOK'
    <2>1. /\ sessions \subseteq Session /\ DOMAIN tokens \subseteq Tokens
          /\ changed \in [Users -> Passwords \cup {None}] /\ undisturbed \subseteq Users
      BY DEF IInv, TypeOK
    <2> QED BY <1>2, <1>4, <2>1 DEF TypeOK, TokenKept, history
  <1> QED BY <1>2, <1>3, <1>4, <1>5, <1>6 DEF IInv

-----------------------------------------------------------------------------
(* Steps that open or end sessions, and tokens that are used.              *)

LEMMA AccountsOnlyStep ==
  ASSUME IInv, NEW r \in Requests, AccountsOnly(r)
  PROVE  IInv'
  <1>1. TableMoves /\ Moved(r)
    BY AccountsMoved DEF AccountsOnly
  <1>2. TokenKept(r)
    <2>1. token \in [Requests -> Tokens \cup {None}]
      BY DEF IInv, TypeOK
    <2>2. Holds(r)' => todo'[r] # <<>>
      BY DEF Holds, Range
    <2> QED BY <2>1, <2>2 DEF TokenKept, AccountsOnly
  <1>3. DOMAIN tokens' = DOMAIN tokens /\ tokens' \in [DOMAIN tokens -> Token]
    BY DEF IInv, TypeOK, AccountsOnly
  <1> QED BY <1>1, <1>2, <1>3, MovedStep DEF AccountsOnly

\* The step leaves tokens and sessions as they are, or is one of those below.
LEMMA Unchanged ==
  ASSUME IInv
  PROVE  /\ tokens \in [DOMAIN tokens -> Token]
         /\ token \in [Requests -> Tokens \cup {None}]
         /\ \A r \in Requests : UNCHANGED token => TokenKept(r)
  BY DEF IInv, TypeOK, TokenKept

LEMMA SignInSteps ==
  ASSUME IInv, NEW r \in Requests,
         \/ \E u \in Users : Login(r, u) \/ ForgotPassword(r, u)
         \/ \E g \in GithubIds, e \in Email, n \in Usernames : SignInWithGithub(r, g, e, n)
  PROVE  IInv'
  <1>1. UNCHANGED <<users, sessions, tokens, token, mailVars, history>>
    BY DEF Login, ForgotPassword, SignInWithGithub
  <1>2. TableMoves
    BY <1>1, TableStays
  <1>3. ASSUME NEW u \in DOMAIN users, NEW op,
               NEW st \in {<<"session", "writeBack">>, <<"githubSession", "writeBack">>,
                           <<"dropTokens", "issue", "enqueue">>},
               Enter(r, op, u, users[u], st)
        PROVE  Moved(r)
    <2>1. PICK e \in Email, n \in Usernames : TRUE
      BY Reads DEF Row
    <2>2. Plan(st)
      BY Plans
    <2> QED BY <1>1, <1>3, <2>1, <2>2, Copies, EnterMoved
  <1>4. ASSUME NEW u \in Users, Login(r, u) \/ ForgotPassword(r, u)
        PROVE  Moved(r)
    BY <1>3, <1>4 DEF Login, ForgotPassword, Live
  <1>5. ASSUME NEW g \in GithubIds, NEW e \in Email, NEW n \in Usernames, SignInWithGithub(r, g, e, n)
        PROVE  Moved(r)
    <2>1. CASE \E u \in DOMAIN users : Enter(r, "github", u, users[u], <<"githubSession", "writeBack">>)
      BY <1>3, <2>1
    <2> DEFINE row == NewRow(e, n, None, g)
    <2>2. CASE Enter(r, "github", None, row, <<"insert", "githubSession", "writeBack">>)
      <3>1. row \in Row /\ ~row.email.capitals
        BY NewRows
      <3>2. None \notin undisturbed
        BY Reads
      <3>3. "insert" \in Range(<<"insert", "githubSession", "writeBack">>)
        BY DEF Range
      <3> HIDE DEF row
      <3> QED BY <1>1, <2>2, <3>1, <3>2, <3>3, Plans, EnterMoved
    <2> QED BY <1>5, <2>1, <2>2 DEF SignInWithGithub
  <1>6. Moved(r)
    BY <1>4, <1>5
  <1> QED BY <1>1, <1>2, <1>6, Unchanged, MovedStep

LEMMA DeleteAccountStep ==
  ASSUME IInv, NEW r \in Requests, NEW u, DeleteAccount(r, u)
  PROVE  IInv'
  <1>1. TableMoves /\ u \in DOMAIN users
    BY SoftDeleteStep DEF DeleteAccount, SoftDelete, Live
  <1>2. Moved(r)
    <2>1. PICK e \in Email, n \in Usernames : TRUE
      BY <1>1, Reads DEF Row
    <2>2. Plan(<<"dropSessions">>)
      BY Plans
    <2> QED BY <1>1, <2>1, <2>2, Copies, EnterMoved DEF DeleteAccount, TableMoves, UsersKept
  <1>3. UNCHANGED <<sessions, tokens, token, mailVars, history>>
    BY DEF DeleteAccount
  <1> QED BY <1>1, <1>2, <1>3, Unchanged, MovedStep

LEMMA ResetPasswordStep ==
  ASSUME IInv, NEW r \in Requests, NEW t \in Tokens, ResetPassword(r, t)
  PROVE  IInv'
  <1> DEFINE plan == <<"loadUser", "update", "markUsed", "revoke">>
  <1>1. /\ UNCHANGED <<users, sessions, tokens, mailVars, history>>
        /\ Enter(r, "reset", tokens[t].user, None, plan)
        /\ t \in DOMAIN tokens /\ todo[r] = <<>> /\ token' = [token EXCEPT ![r] = t]
    BY DEF ResetPassword, Enter
  <1>2. TableMoves
    BY <1>1, TableStays
  <1>3. tokens[t].user \in DOMAIN users
    BY <1>1 DEF IInv, TokensOK
  <1>4. Moved(r)
    <2>1. Plan(plan) /\ Head(plan) = "loadUser"
      BY Plans
    <2> HIDE DEF plan
    <2> QED BY <1>1, <1>3, <2>1, EnterMoved
  <1>5. TokenKept(r)
    <2>1. ~Holds(r)
      BY <1>1 DEF Holds, Range
    <2> QED BY <1>1, <1>4, <2>1, Unchanged DEF TokenKept, Moved
  <1> QED BY <1>1, <1>2, <1>4, <1>5, Unchanged, MovedStep

LEMMA OpenSessionStep ==
  ASSUME IInv, NEW r \in Requests, OpenSession(r)
  PROVE  IInv'
  <1>1. /\ UNCHANGED <<users, tokens, token, mailVars, history>> /\ Advance(r)
        /\ todo[r] # <<>> /\ Head(todo[r]) \in {"session", "githubSession"}
    BY DEF OpenSession, At
  <1>2. TableMoves
    BY <1>1, TableStays
  <1>3. Moved(r)
    BY <1>1, AdvancePlain
  <1>4. Loaded(r) /\ call[r].row \in Row /\ Faithful(r, call[r]) /\ call[r].user \in Users
    <2>1. "insert" \notin Range(todo[r])
      BY <1>1, Reads, OrderedTail DEF RequestOK
    <2> QED BY <1>1, <2>1, Reads DEF Loaded, RequestOK
  <1>5. ASSUME NEW s \in sessions'
        PROVE  s \in sessions \/ (s \in Session /\ Allowed(s))
    <2>1. CASE s = [user |-> call[r].user, password |-> call[r].row.password]
      BY <1>4, <2>1 DEF Session, Row, Faithful, Allowed
    <2>2. CASE s = [user |-> call[r].user, password |-> None]
      BY <1>4, <2>2 DEF Session, Allowed
    <2> QED BY <2>1, <2>2 DEF OpenSession
  <1> QED BY <1>1, <1>2, <1>3, <1>5, Unchanged, MovedStep

LEMMA DropSteps ==
  ASSUME IInv, NEW r \in Requests, DropTokens(r) \/ DropSessions(r)
  PROVE  IInv'
  <1>1. /\ UNCHANGED <<users, token, mailVars, history>> /\ Advance(r)
        /\ todo[r] # <<>> /\ Head(todo[r]) \in {"dropTokens", "dropSessions"}
        /\ \A s \in sessions' : s \in sessions
    BY DEF DropTokens, DropSessions, At
  <1>2. TableMoves
    BY <1>1, TableStays
  <1>3. Moved(r)
    BY <1>1, AdvancePlain
  <1>4. /\ DOMAIN tokens' = DOMAIN tokens /\ tokens' \in [DOMAIN tokens -> Token]
        /\ \A t \in DOMAIN tokens : tokens'[t].user = tokens[t].user
    <2>1. CASE UNCHANGED tokens
      BY <2>1, Unchanged
    <2>2. CASE tokens' = [t \in DOMAIN tokens |->
                            IF tokens[t].user = call[r].user THEN [tokens[t] EXCEPT !.state = "deleted"]
                            ELSE tokens[t]]
      <3>1. \A t \in DOMAIN tokens : tokens[t] \in Token
        BY Unchanged
      <3>2. \A t \in DOMAIN tokens :
              LET new == [tokens[t] EXCEPT !.state = "deleted"]
              IN  new \in Token /\ new.user = tokens[t].user
        BY <3>1 DEF Token
      <3> QED BY <2>2, <3>1, <3>2
    <2> QED BY <2>1, <2>2 DEF DropTokens, DropSessions
  <1> QED BY <1>1, <1>2, <1>3, <1>4, Unchanged, MovedStep

LEMMA MarkUsedStep ==
  ASSUME IInv, NEW r \in Requests, MarkUsed(r)
  PROVE  IInv'
  <1>1. /\ UNCHANGED <<users, sessions, mailVars, history>> /\ Advance(r)
        /\ todo[r] # <<>> /\ Head(todo[r]) = "markUsed" /\ token' = [token EXCEPT ![r] = None]
    BY DEF MarkUsed, At
  <1>2. TableMoves
    BY <1>1, TableStays
  <1>3. Moved(r)
    BY <1>1, AdvancePlain
  <1>4. /\ DOMAIN tokens' = DOMAIN tokens /\ tokens' \in [DOMAIN tokens -> Token]
        /\ \A t \in DOMAIN tokens : tokens'[t].user = tokens[t].user
    <2>1. \A t \in DOMAIN tokens : tokens[t] \in Token
      BY Unchanged
    <2>2. \A t \in DOMAIN tokens, x \in {"used", "deleted"} :
            LET new == [tokens[t] EXCEPT !.state = x]
            IN  new \in Token /\ new.user = tokens[t].user
      BY <2>1 DEF Token
    <2>3. PICK x \in {"used", "deleted"} :
                 \/ UNCHANGED tokens
                 \/ tokens' = [tokens EXCEPT ![token[r]] = [tokens[token[r]] EXCEPT !.state = x]]
      BY DEF MarkUsed
    <2>4. CASE UNCHANGED tokens
      BY <2>4, Unchanged
    <2>5. CASE token[r] \notin DOMAIN tokens
      BY <2>3, <2>5, Unchanged
    <2>6. CASE /\ token[r] \in DOMAIN tokens
               /\ tokens' = [tokens EXCEPT ![token[r]] = [tokens[token[r]] EXCEPT !.state = x]]
      <3> DEFINE new == [tokens[token[r]] EXCEPT !.state = x]
      <3>1. new \in Token /\ new.user = tokens[token[r]].user
        BY <2>2, <2>6
      <3>2. tokens' = [tokens EXCEPT ![token[r]] = new]
        BY <2>6
      <3> HIDE DEF new
      <3> QED BY <2>6, <3>1, <3>2, Unchanged
    <2> QED BY <2>3, <2>4, <2>5, <2>6
  <1>5. TokenKept(r)
    <2>1. ~Holds(r)'
      <3>1. ~Holds(r)
        BY <1>1, Reads, OrderedTail DEF Holds, RequestOK
      <3> QED BY <1>3, <3>1 DEF Moved
    <2> QED BY <1>1, <2>1, Unchanged DEF TokenKept
  <1> QED BY <1>1, <1>2, <1>3, <1>4, <1>5, Unchanged, MovedStep

-----------------------------------------------------------------------------
(* The queue of mails.                                                     *)

InHand == {t \in Tokens : \E w \in Workers : worker[w] = t}

\* QueueOK with the workers' mails under a name.
QueueParts ==
  /\ Mail!MailTypeOK
  /\ accepted = Range(tasks) \cup InHand \cup tried
  /\ \A v, w \in Workers : v # w /\ worker[v] = worker[w] => worker[w] \notin Tokens
  /\ InHand \cap Range(tasks) = {} /\ InHand \cap tried = {} /\ tried \cap Range(tasks) = {}
  /\ \A i, j \in DOMAIN tasks : tasks[i] = tasks[j] => i = j
  /\ closed => \A w \in Workers : worker[w] = "gone"

LEMMA QueueFacts ==
  /\ Mail!MailTypeOK /\ QueueOK => QueueParts
  /\ QueueParts' => QueueOK' /\ Mail!MailTypeOK'
  <1>1. QueueParts' => (closed' => InHand' = {})
    BY CredentialsAssumption DEF QueueParts, InHand
  <1>2. QueueParts' => QueueOK' /\ Mail!MailTypeOK'
    BY <1>1 DEF QueueParts, QueueOK, MailsAccountedFor, InHand
  <1>3. Mail!MailTypeOK /\ QueueOK => QueueParts
    BY DEF QueueParts, QueueOK, MailsAccountedFor, InHand
  <1> QED BY <1>2, <1>3

LEMMA EnqueueStep ==
  ASSUME QueueParts, NEW t \in Tokens, t \notin accepted, Mail!Enqueue(t)
  PROVE  QueueParts' /\ accepted' \subseteq accepted \cup {t}
  <1>1. CASE UNCHANGED mailVars
    BY <1>1 DEF QueueParts, Mail!MailTypeOK, InHand, mailVars
  <1>2. CASE /\ Len(tasks) < QueueSize
             /\ tasks' = Append(tasks, t) /\ accepted' = accepted \cup {t}
             /\ UNCHANGED <<worker, closing, closed, tried>>
    <2>1. tasks \in Seq(Tokens) /\ Len(tasks) \in Nat /\ DOMAIN tasks = 1..Len(tasks)
      BY DEF QueueParts, Mail!MailTypeOK
    <2>2. /\ tasks' \in Seq(Tokens)
          /\ DOMAIN tasks' = 1..(Len(tasks) + 1) /\ Len(tasks') = Len(tasks) + 1
          /\ \A i \in 1..Len(tasks) : tasks'[i] = tasks[i]
          /\ tasks'[Len(tasks) + 1] = t
          /\ Range(tasks') = Range(tasks) \cup {t}
      BY <1>2, <2>1, Appends
    <2>3. InHand' = InHand
      BY <1>2 DEF InHand
    <2>4. t \notin Range(tasks) /\ t \notin InHand /\ t \notin tried
      BY DEF QueueParts
    <2>5. Mail!MailTypeOK'
      BY CredentialsAssumption, <1>2, <2>1, <2>2 DEF QueueParts, Mail!MailTypeOK
    <2>6. \A i, j \in DOMAIN tasks' : tasks'[i] = tasks'[j] => i = j
      <3>1. \A i \in 1..Len(tasks) : tasks[i] # t
        BY <2>1, <2>4 DEF Range
      <3>2. \A i \in DOMAIN tasks' : i \in 1..Len(tasks) \/ i = Len(tasks) + 1
        BY <2>1, <2>2
      <3> QED BY <2>1, <2>2, <3>1, <3>2 DEF QueueParts
    <2> QED BY <1>2, <2>2, <2>3, <2>4, <2>5, <2>6 DEF QueueParts
  <1> QED BY <1>1, <1>2 DEF Mail!Enqueue, mailVars

LEMMA TakeStep ==
  ASSUME QueueParts, NEW w \in Workers, Mail!Take(w)
  PROVE  QueueParts' /\ UNCHANGED accepted
  <1> DEFINE t == Head(tasks)
  <1>1. /\ tasks \in Seq(Tokens) /\ tasks # <<>>
        /\ worker \in [Workers -> {"idle", "gone"} \cup Tokens] /\ worker[w] = "idle"
        /\ worker' = [worker EXCEPT ![w] = t] /\ tasks' = Tail(tasks)
        /\ UNCHANGED <<closing, closed, accepted, tried>>
    BY DEF QueueParts, Mail!MailTypeOK, Mail!Take
  <1>2. /\ tasks' \in Seq(Tokens) /\ t \in Tokens /\ t = tasks[1] /\ 1 \in DOMAIN tasks
        /\ DOMAIN tasks = 1..Len(tasks) /\ Len(tasks) \in Nat /\ Len(tasks) > 0
        /\ DOMAIN tasks' = 1..(Len(tasks) - 1) /\ Len(tasks') = Len(tasks) - 1
        /\ \A i \in 1..(Len(tasks) - 1) : tasks'[i] = tasks[i + 1]
        /\ Range(tasks) = {t} \cup Range(tasks')
    BY <1>1, Tails
  <1> HIDE DEF t
  <1>3. t \notin Range(tasks')
    <2>1. ASSUME NEW i \in DOMAIN tasks', tasks'[i] = t
          PROVE  FALSE
      <3>1. i + 1 \in DOMAIN tasks /\ i + 1 # 1 /\ tasks[i + 1] = tasks[1]
        BY <1>2, <2>1
      <3> QED BY <1>2, <3>1 DEF QueueParts
    <2> QED BY <2>1 DEF Range
  <1>4. \A i, j \in DOMAIN tasks' : tasks'[i] = tasks'[j] => i = j
    <2>1. ASSUME NEW i \in DOMAIN tasks', NEW j \in DOMAIN tasks', tasks'[i] = tasks'[j]
          PROVE  i = j
      <3>1. i + 1 \in DOMAIN tasks /\ j + 1 \in DOMAIN tasks /\ tasks[i + 1] = tasks[j + 1]
        BY <1>2, <2>1
      <3>2. i + 1 = j + 1
        BY <3>1 DEF QueueParts
      <3> QED BY <1>2, <3>2
    <2> QED BY <2>1
  <1>5. InHand' = InHand \cup {t}
    BY CredentialsAssumption, <1>1, <1>2 DEF InHand
  <1>6. t \notin InHand /\ t \notin tried
    BY <1>2 DEF QueueParts
  <1>7. Mail!MailTypeOK'
    BY CredentialsAssumption, <1>1, <1>2 DEF QueueParts, Mail!MailTypeOK
  <1>8. \A v, x \in Workers : v # x /\ worker'[v] = worker'[x] => worker'[x] \notin Tokens
    BY <1>1, <1>2, <1>6 DEF QueueParts, InHand
  <1>9. ~closed
    BY <1>1 DEF QueueParts
  <1> QED BY <1>1, <1>2, <1>3, <1>4, <1>5, <1>6, <1>7, <1>8, <1>9 DEF QueueParts

LEMMA DoneStep ==
  ASSUME QueueParts, NEW w \in Workers, Mail!Done(w)
  PROVE  QueueParts' /\ UNCHANGED accepted
  <1> DEFINE t == worker[w]
  <1>1. /\ worker \in [Workers -> {"idle", "gone"} \cup Tokens] /\ t \in Tokens
        /\ worker' = [worker EXCEPT ![w] = "idle"] /\ tried' = tried \cup {t}
        /\ UNCHANGED <<tasks, closing, closed, accepted>>
    BY DEF QueueParts, Mail!MailTypeOK, Mail!Done
  <1>2. InHand' = InHand \ {t} /\ t \in InHand
    BY CredentialsAssumption, <1>1 DEF InHand, QueueParts
  <1>3. Mail!MailTypeOK'
    BY <1>1 DEF QueueParts, Mail!MailTypeOK
  <1>4. \A v, x \in Workers : v # x /\ worker'[v] = worker'[x] => worker'[x] \notin Tokens
    BY CredentialsAssumption, <1>1 DEF QueueParts
  <1>5. ~closed
    BY CredentialsAssumption, <1>1 DEF QueueParts
  <1> QED BY <1>1, <1>2, <1>3, <1>4, <1>5 DEF QueueParts

\* A worker stops, or the service does.
LEMMA ClosingSteps ==
  ASSUME QueueParts, (\E w \in Workers : Mail!Stop(w)) \/ Mail!Close \/ Mail!CloseReturns
  PROVE  QueueParts' /\ UNCHANGED accepted
  <1>1. ASSUME NEW w \in Workers, Mail!Stop(w)
        PROVE  QueueParts' /\ UNCHANGED accepted
    <2>1. /\ worker \in [Workers -> {"idle", "gone"} \cup Tokens] /\ worker[w] = "idle"
          /\ worker' = [worker EXCEPT ![w] = "gone"]
          /\ UNCHANGED <<tasks, closing, closed, accepted, tried>>
      BY <1>1 DEF QueueParts, Mail!MailTypeOK, Mail!Stop
    <2>2. InHand' = InHand
      BY CredentialsAssumption, <2>1 DEF InHand
    <2>3. Mail!MailTypeOK'
      BY <2>1 DEF QueueParts, Mail!MailTypeOK
    <2>4. \A v, x \in Workers : v # x /\ worker'[v] = worker'[x] => worker'[x] \notin Tokens
      BY CredentialsAssumption, <2>1 DEF QueueParts
    <2> QED BY <2>1, <2>2, <2>3, <2>4 DEF QueueParts
  <1>2. CASE Mail!Close \/ Mail!CloseReturns
    <2>1. /\ UNCHANGED <<tasks, worker, accepted, tried>>
          /\ closing' \in BOOLEAN /\ closed' \in BOOLEAN
          /\ closed' => closed \/ \A w \in Workers : worker[w] = "gone"
      <3>1. closing \in BOOLEAN /\ closed \in BOOLEAN
        BY DEF QueueParts, Mail!MailTypeOK
      <3>2. CASE Mail!Close
        BY <3>1, <3>2 DEF Mail!Close
      <3>3. CASE Mail!CloseReturns
        BY <3>1, <3>3 DEF Mail!CloseReturns
      <3> QED BY <1>2, <3>2, <3>3
    <2>2. InHand' = InHand
      BY <2>1 DEF InHand
    <2> QED BY <2>1, <2>2 DEF QueueParts, Mail!MailTypeOK
  <1> QED BY <1>1, <1>2

-----------------------------------------------------------------------------
(* Steps that hand tokens on.                                              *)

LEMMA IssueTokenStep ==
  ASSUME IInv, NEW r \in Requests, NEW t \in Tokens, IssueToken(r, t)
  PROVE  IInv'
  <1>1. /\ UNCHANGED <<users, sessions, mailVars, history>> /\ Advance(r)
        /\ todo[r] # <<>> /\ Head(todo[r]) = "issue"
        /\ t \notin DOMAIN tokens /\ token' = [token EXCEPT ![r] = t]
        /\ tokens' = [x \in DOMAIN tokens \cup {t} |->
                        IF x = t THEN [user |-> call[r].user, state |-> "good"] ELSE tokens[x]]
    BY DEF IssueToken, At
  <1>2. TableMoves
    BY <1>1, TableStays
  <1>3. /\ Loaded(r) /\ call[r] \in Call /\ call[r].row \in Row /\ ~call[r].row.email.capitals
        /\ Faithful(r, call[r]) /\ call[r].user \in DOMAIN users
    <2>1. "insert" \notin Range(todo[r])
      BY <1>1, Reads, OrderedTail DEF RequestOK
    <2> QED BY <1>1, <2>1, Reads DEF Loaded, RequestOK
  <1>4. Stepped(r, call[r])
    BY <1>1, <1>3, Reads, AdvanceStepped DEF Advance
  <1>5. AccountsTypeOK' /\ UsersOK' /\ \A q \in Requests : RequestOK(q)'
    BY <1>2, <1>4, CopiesStay DEF Stepped
  <1>6. PasswordsOK'
    BY <1>1, <1>2, <1>3, <1>4, PasswordsStay DEF Stepped
  <1>7. Mail!MailTypeOK' /\ QueueOK' /\ UNCHANGED accepted
    BY <1>1, QueueStays
  <1>8. TypeOK'
    <2>1. /\ sessions \subseteq Session /\ DOMAIN tokens \subseteq Tokens
          /\ tokens \in [DOMAIN tokens -> Token] /\ token \in [Requests -> Tokens \cup {None}]
          /\ changed \in [Users -> Passwords \cup {None}] /\ undisturbed \subseteq Users
      BY DEF IInv, TypeOK
    <2>2. [user |-> call[r].user, state |-> "good"] \in Token
      BY <1>3, Reads DEF Token
    <2>3. DOMAIN tokens' \subseteq Tokens /\ tokens' \in [DOMAIN tokens' -> Token]
      BY <1>1, <2>1, <2>2
    <2>4. token' \in [Requests -> Tokens \cup {None}]
      BY <1>1, <2>1
    <2> QED BY <1>1, <1>5, <1>7, <2>1, <2>3, <2>4 DEF TypeOK, history
  <1>9. TokensOK'
    <2>1. TokensOK /\ token \in [Requests -> Tokens \cup {None}]
      BY DEF IInv, TypeOK
    <2>2. \A q \in Requests \ {r} : (Holds(q)' <=> Holds(q)) /\ token'[q] = token[q]
      BY <1>1, <1>4, <2>1 DEF Stepped, OthersStay, Holds
    <2>3. token'[r] = t /\ t \notin accepted
      BY <1>1, <2>1 DEF TokensOK
    <2>4. DOMAIN tokens' = DOMAIN tokens \cup {t}
      BY <1>1
    <2>5. \A x \in DOMAIN tokens' : tokens'[x].user \in DOMAIN users'
      BY <1>1, <1>3, <2>1 DEF TokensOK
    <2>6. \A q \in Requests : Holds(q)' => token'[q] \in DOMAIN tokens' \ accepted'
      BY <1>7, <2>1, <2>2, <2>3, <2>4 DEF TokensOK
    <2>7. ASSUME NEW q \in Requests, NEW x \in Requests, Holds(q)', Holds(x)', token'[q] = token'[x]
          PROVE  q = x
      BY <1>1, <2>1, <2>2, <2>3, <2>7 DEF TokensOK
    <2>8. accepted' \subseteq DOMAIN tokens'
      BY <1>7, <2>1, <2>4 DEF TokensOK
    <2> QED BY <2>5, <2>6, <2>7, <2>8 DEF TokensOK
  <1> QED BY <1>5, <1>6, <1>7, <1>8, <1>9 DEF IInv

LEMMA EnqueueMailStep ==
  ASSUME IInv, NEW r \in Requests, EnqueueMail(r)
  PROVE  IInv'
  <1>1. /\ UNCHANGED <<users, sessions, tokens, history>> /\ Advance(r)
        /\ todo[r] # <<>> /\ Head(todo[r]) = "enqueue"
        /\ Mail!Enqueue(token[r]) /\ token' = [token EXCEPT ![r] = None]
    BY DEF EnqueueMail, At
  <1>2. TableMoves
    BY <1>1, TableStays
  <1>3. Moved(r)
    BY <1>1, AdvancePlain
  <1>4. Tail(todo[r]) = <<>> /\ Range(todo[r]) = {"enqueue"} \cup Range(Tail(todo[r]))
    <2>1. todo[r] \in Seq(Statements) /\ Ordered(todo[r])
      BY Reads DEF RequestOK
    <2> QED BY <1>1, <2>1, Tails, OrderedTail
  <1>5. Holds(r)
    <2>1. Range(<<>>) = {}
      BY DEF Range
    <2>2. Range(todo[r]) = {"enqueue"}
      BY <1>4, <2>1
    <2> QED BY <2>2 DEF Holds
  <1>6. token[r] \in Tokens /\ token[r] \notin accepted /\ token[r] \in DOMAIN tokens
    BY <1>5 DEF IInv, TypeOK, TokensOK
  <1>7. QueueParts
    BY QueueFacts DEF IInv, TypeOK
  <1>8. QueueParts' /\ accepted' \subseteq accepted \cup {token[r]}
    BY <1>1, <1>6, <1>7, EnqueueStep
  <1>9. AccountsTypeOK' /\ UsersOK' /\ \A q \in Requests : RequestOK(q)'
    BY <1>2, <1>3, CopiesStay DEF Moved
  <1>10. PasswordsOK'
    BY <1>1, <1>2, <1>3, PasswordsStay DEF Moved
  <1>11. Mail!MailTypeOK' /\ QueueOK'
    BY <1>8, QueueFacts
  <1>12. TypeOK'
    <2>1. /\ sessions \subseteq Session /\ DOMAIN tokens \subseteq Tokens
          /\ tokens \in [DOMAIN tokens -> Token] /\ token \in [Requests -> Tokens \cup {None}]
          /\ changed \in [Users -> Passwords \cup {None}] /\ undisturbed \subseteq Users
      BY DEF IInv, TypeOK
    <2>2. token' \in [Requests -> Tokens \cup {None}]
      BY <1>1, <2>1
    <2> QED BY <1>1, <1>9, <1>11, <2>1, <2>2 DEF TypeOK, history
  <1>13. TokensOK'
    <2>1. TokensOK /\ token \in [Requests -> Tokens \cup {None}]
      BY DEF IInv, TypeOK
    <2>2. \A q \in Requests \ {r} : (Holds(q)' <=> Holds(q)) /\ token'[q] = token[q]
      BY <1>1, <1>3, <2>1 DEF Moved, OthersStay, Holds
    <2>3. todo'[r] = <<>>
      BY <1>1, <1>4, Reads, Advances DEF Advance
    <2>4. ~Holds(r)'
      BY <2>3 DEF Holds, Range
    <2>5. \A q \in Requests \ {r} : Holds(q) => token[q] \in DOMAIN tokens \ accepted'
      BY <1>5, <1>8, <2>1 DEF TokensOK
    <2> QED BY <1>1, <1>6, <1>8, <2>1, <2>2, <2>4, <2>5 DEF TokensOK
  <1> QED BY <1>9, <1>10, <1>11, <1>12, <1>13 DEF IInv

-----------------------------------------------------------------------------
(* Changes of passwords.                                                   *)

\* A step that says which changes have held; the rest is as in MovedStep.
LEMMA HistoryStep ==
  ASSUME IInv, NEW r \in Requests, NEW c, Stepped(r, c), TableMoves,
         Holds(r)' => Holds(r), TokenKept(r), UNCHANGED <<tokens, mailVars>>,
         sessions' \subseteq sessions,
         changed' \in [Users -> Passwords \cup {None}], undisturbed' \subseteq Users,
         PasswordsOK'
  PROVE  IInv'
  <1>1. AccountsTypeOK' /\ UsersOK' /\ \A q \in Requests : RequestOK(q)'
    BY CopiesStay DEF Stepped
  <1>2. Mail!MailTypeOK' /\ QueueOK' /\ UNCHANGED accepted
    BY QueueStays
  <1>3. TokensOK'
    <2>1. \A t \in DOMAIN tokens' : tokens'[t].user \in DOMAIN users'
      BY DEF IInv, TokensOK, TableMoves, UsersKept
    <2> QED BY <1>2, <2>1, TokensStay DEF Stepped
  <1>4. TypeOK'
    <2>1. /\ sessions \subseteq Session /\ DOMAIN tokens \subseteq Tokens
          /\ tokens \in [DOMAIN tokens -> Token]
      BY DEF IInv, TypeOK
    <2> QED BY <1>1, <1>2, <2>1 DEF TypeOK, TokenKept
  <1> QED BY <1>1, <1>2, <1>3, <1>4 DEF IInv

\* The account is about to change.
LEMMA Reopened ==
  ASSUME IInv, NEW r \in Requests, NEW u, Reopen(u), OthersStay(r), UNCHANGED <<users, sessions>>,
         Loaded(r)' => call'[r].user = u
  PROVE  /\ PasswordsOK'
         /\ changed' \in [Users -> Passwords \cup {None}] /\ undisturbed' \subseteq Users
  <1>1. /\ PasswordsOK
        /\ changed \in [Users -> Passwords \cup {None}] /\ undisturbed \subseteq Users
    BY DEF IInv, TypeOK
  <1>2. \A x \in undisturbed' : x \in undisturbed /\ x # u /\ changed'[x] = changed[x]
    BY <1>1 DEF Reopen
  <1>3. ASSUME NEW x \in undisturbed', changed'[x] # None, NEW q \in Requests, Loaded(q)', call'[q].user = x
        PROVE  call'[q].row.password = changed'[x]
    <2>1. q # r
      BY <1>2, <1>3
    <2> QED BY <1>1, <1>2, <1>3, <2>1 DEF OthersStay, Loaded, PasswordsOK
  <1>4. \A x \in undisturbed' :
          /\ x \in DOMAIN users'
          /\ changed'[x] # None =>
               users'[x].password = changed'[x] /\ \A s \in SessionsOf(x)' : s.password \in {changed'[x], None}
    BY <1>1, <1>2 DEF PasswordsOK, SessionsOf
  <1>5. PasswordsOK'
    BY <1>3, <1>4 DEF PasswordsOK
  <1> QED BY <1>1, <1>5 DEF Reopen

LEMMA ChangePasswordStep ==
  ASSUME IInv, NEW r \in Requests, NEW u, NEW p \in Passwords, ChangePassword(r, u, p)
  PROVE  IInv'
  <1> DEFINE row == [users[u] EXCEPT !.password = p]
             c == [user |-> u, row |-> row]
  <1>1. /\ u \in DOMAIN users /\ Enter(r, "change", u, row, <<"update", "revoke">>) /\ Reopen(u)
        /\ UNCHANGED <<users, sessions, tokens, token, mailVars>>
    BY DEF ChangePassword, Live
  <1>2. TableMoves
    BY <1>1, TableStays
  <1>3. row \in Row /\ ~row.email.capitals
    BY <1>1, Reads DEF Row
  <1> HIDE DEF row
  <1>4. Stepped(r, c) /\ ~Holds(r)'
    BY <1>1, <1>3, Plans, EnterStepped
  <1>5. Loaded(r)' => call'[r].user = u
    BY <1>4 DEF Stepped
  <1> HIDE DEF c
  <1> QED BY <1>1, <1>2, <1>4, <1>5, Reopened, Unchanged, HistoryStep DEF Stepped

LEMMA LoadUserStep ==
  ASSUME IInv, NEW r \in Requests, NEW p \in Passwords, LoadUser(r, p)
  PROVE  IInv'
  <1> DEFINE u == call[r].user
             row == [users[u] EXCEPT !.password = p]
             c == [call[r] EXCEPT !.row = row]
  <1>1. /\ UNCHANGED <<users, sessions, tokens, mailVars>>
        /\ todo[r] # <<>> /\ Head(todo[r]) = "loadUser"
    BY DEF LoadUser, At
  <1>2. TableMoves
    BY <1>1, TableStays
  <1>3. CASE Live(u) /\ AdvanceWith(r, c) /\ Reopen(u) /\ UNCHANGED token
    <2>1. u \in DOMAIN users
      BY <1>3 DEF Live
    <2>2. row \in Row /\ ~row.email.capitals
      BY <2>1, Reads DEF Row
    <2> HIDE DEF row
    <2>3. c \in Call /\ c.user = u /\ c.row = row
      BY <2>2, Reads DEF Call
    <2>4. u # None /\ AdvanceWith(r, c)
      BY <1>3, <2>1, Reads
    <2> HIDE DEF c
    <2>5. Stepped(r, c) /\ (Holds(r)' => Holds(r))
      BY <1>1, <2>1, <2>2, <2>3, <2>4, AdvanceStepped
    <2>6. Loaded(r)' => call'[r].user = u
      BY <2>3, <2>5 DEF Stepped
    <2> HIDE DEF u
    <2> QED BY <1>1, <1>2, <1>3, <2>5, <2>6, Reopened, Unchanged, HistoryStep DEF Stepped
  <1>4. CASE Quit(r) /\ token' = [token EXCEPT ![r] = None] /\ UNCHANGED history
    <2>1. Moved(r) /\ todo'[r] = <<>>
      BY <1>4, Reads, Quits, QuitMoved
    <2>2. TokenKept(r)
      BY <1>4, <2>1, Unchanged DEF TokenKept, Holds, Range
    <2> QED BY <1>1, <1>2, <1>4, <2>1, <2>2, Unchanged, MovedStep
  <1> QED BY <1>3, <1>4 DEF LoadUser

\* The change is through, and nobody else is at the account.
LEMMA RevokeStep ==
  ASSUME IInv, NEW r \in Requests, Revoke(r)
  PROVE  IInv'
  <1>0. PICK u, p : u = call[r].user /\ p = call[r].row.password
    OBVIOUS
  <1>1. /\ UNCHANGED <<users, tokens, token, mailVars>> /\ Advance(r)
        /\ todo[r] # <<>> /\ Head(todo[r]) = "revoke"
    BY DEF Revoke, At
  <1>2. TableMoves
    BY <1>1, TableStays
  <1>3. Moved(r)
    BY <1>1, AdvancePlain
  <1>4. CASE UNCHANGED <<sessions, history>>
    BY <1>1, <1>2, <1>3, <1>4, Unchanged, MovedStep
  <1>5. CASE sessions' = sessions \ SessionsOf(u) /\ Settle(r, u)
    <2>1. /\ Loaded(r) /\ call[r] \in Call /\ call[r].row \in Row /\ ~call[r].row.email.capitals
          /\ u \in DOMAIN users
      <3>1. "insert" \notin Range(todo[r])
        BY <1>1, Reads, OrderedTail DEF RequestOK
      <3> QED BY <1>0, <1>1, <3>1, Reads DEF Loaded, RequestOK
    <2>2. Stepped(r, call[r]) /\ (Holds(r)' => Holds(r))
      <3>1. call[r].user # None /\ call[r].user \in DOMAIN users'
        BY <1>0, <1>1, <2>1, Reads
      <3>2. AdvanceWith(r, call[r])
        BY <1>1 DEF Advance
      <3>3. Stepped(r, call[r]) /\ (Holds(r)' => Holds(r) \/ Head(todo[r]) = "issue")
        BY <1>1, <2>1, <3>1, <3>2, AdvanceStepped
      <3> QED BY <1>1, <3>3
    <2>3. /\ PasswordsOK /\ DOMAIN users \subseteq Users
          /\ changed \in [Users -> Passwords \cup {None}] /\ undisturbed \subseteq Users
      BY DEF IInv, TypeOK, AccountsTypeOK
    <2>4. u \in Users /\ p \in Passwords \cup {None}
      BY <1>0, <2>1, <2>3 DEF Row
    <2>5. /\ \E v \in {p, None} : changed' = [changed EXCEPT ![u] = v]
          /\ u \in undisturbed' =>
               Others(r, u) = {} /\ users[u].password = p /\ changed' = [changed EXCEPT ![u] = p]
          /\ undisturbed' \subseteq undisturbed \cup {u}
      BY <1>0, <1>5 DEF Settle
    <2>6. changed' \in [Users -> Passwords \cup {None}] /\ undisturbed' \subseteq Users
      BY <2>3, <2>4, <2>5
    <2>7. \A x \in undisturbed' \ {u} : x \in undisturbed /\ changed'[x] = changed[x]
      BY <2>3, <2>5
    <2>8. ASSUME NEW x \in undisturbed' \ {u}
          PROVE  /\ x \in DOMAIN users'
                 /\ changed'[x] # None =>
                      /\ users'[x].password = changed'[x]
                      /\ \A s \in SessionsOf(x)' : s.password \in {changed'[x], None}
                      /\ \A q \in Requests :
                           Loaded(q)' /\ call'[q].user = x => call'[q].row.password = changed'[x]
      <3>1. /\ x \in DOMAIN users'
            /\ changed'[x] # None =>
                 users'[x].password = changed'[x] /\ \A s \in SessionsOf(x)' : s.password \in {changed'[x], None}
        BY <1>1, <1>5, <2>3, <2>7 DEF PasswordsOK, SessionsOf
      <3>2. ASSUME changed'[x] # None, NEW q \in Requests, Loaded(q)', call'[q].user = x
            PROVE  call'[q].row.password = changed'[x]
        <4>1. q # r
          BY <1>0, <2>2, <3>2 DEF Stepped
        <4> QED BY <2>2, <2>3, <2>7, <3>2, <4>1 DEF Stepped, OthersStay, Loaded, PasswordsOK
      <3> QED BY <3>1, <3>2
    <2>9. ASSUME u \in undisturbed'
          PROVE  /\ u \in DOMAIN users'
                 /\ changed'[u] # None =>
                      /\ users'[u].password = changed'[u]
                      /\ \A s \in SessionsOf(u)' : s.password \in {changed'[u], None}
                      /\ \A q \in Requests :
                           Loaded(q)' /\ call'[q].user = u => call'[q].row.password = changed'[u]
      <3>1. changed'[u] = p /\ users'[u].password = p /\ u \in DOMAIN users'
        BY <1>1, <2>1, <2>3, <2>4, <2>5, <2>9
      <3>2. SessionsOf(u)' = {}
        BY <1>5 DEF SessionsOf
      <3>3. ASSUME NEW q \in Requests, Loaded(q)', call'[q].user = u
            PROVE  call'[q].row.password = p
        <4>1. CASE q = r
          BY <1>0, <2>2, <3>3, <4>1 DEF Stepped
        <4>2. CASE q # r
          <5>1. todo[q] # <<>> /\ call[q].user = u
            BY <2>2, <3>3, <4>2 DEF Stepped, OthersStay, Loaded
          <5>2. q \in Others(r, u)
            BY <4>2, <5>1 DEF Others
          <5> QED BY <2>5, <2>9, <5>2
        <4> QED BY <4>1, <4>2
      <3> QED BY <3>1, <3>2, <3>3
    <2>10. PasswordsOK'
      BY <2>8, <2>9 DEF PasswordsOK
    <2> QED BY <1>1, <1>2, <1>5, <2>2, <2>6, <2>10, Unchanged, HistoryStep
  <1> QED BY <1>0, <1>4, <1>5 DEF Revoke

-----------------------------------------------------------------------------
(* Steps of no request.                                                    *)

\* Requests, accounts and changes are as they were.
LEMMA RequestsStay ==
  ASSUME IInv, UNCHANGED <<accountVars, token, history>>, sessions' \subseteq sessions,
         DOMAIN tokens' = DOMAIN tokens, tokens' \in [DOMAIN tokens -> Token],
         \A t \in DOMAIN tokens : tokens'[t].user = tokens[t].user,
         QueueParts', UNCHANGED accepted
  PROVE  IInv'
  <1>1. UNCHANGED <<asks, users, todo, call, changed, undisturbed>>
    BY DEF accountVars, history
  <1>2. Mail!MailTypeOK' /\ QueueOK'
    BY QueueFacts
  <1>3. /\ sessions \subseteq Session /\ DOMAIN tokens \subseteq Tokens
        /\ token \in [Requests -> Tokens \cup {None}]
        /\ changed \in [Users -> Passwords \cup {None}] /\ undisturbed \subseteq Users
        /\ AccountsTypeOK
    BY DEF IInv, TypeOK
  <1>4. AccountsTypeOK'
    BY <1>1, <1>3 DEF AccountsTypeOK
  <1>5. TypeOK'
    BY <1>1, <1>2, <1>3, <1>4 DEF TypeOK
  <1>6. UsersOK' /\ \A q \in Requests : RequestOK(q)'
    BY <1>1 DEF IInv, UsersOK, Indexed, RequestOK, Loaded, Ordered
  <1>7. PasswordsOK'
    BY <1>1 DEF IInv, PasswordsOK, SessionsOf, Loaded
  <1>8. TokensOK'
    BY <1>1 DEF IInv, TokensOK, Holds
  <1> QED BY <1>2, <1>5, <1>6, <1>7, <1>8 DEF IInv

LEMMA QueueKept ==
  ASSUME IInv, UNCHANGED mailVars
  PROVE  QueueParts' /\ UNCHANGED accepted
  BY QueueFacts DEF IInv, TypeOK, QueueParts, Mail!MailTypeOK, InHand, mailVars

LEMMA ExpireTokenStep ==
  ASSUME IInv, NEW t, ExpireToken(t)
  PROVE  IInv'
  <1> DEFINE new == [tokens[t] EXCEPT !.state = "expired"]
  <1>1. new \in Token /\ new.user = tokens[t].user /\ t \in DOMAIN tokens
    BY Unchanged DEF Token, ExpireToken
  <1>2. tokens' = [tokens EXCEPT ![t] = new]
    BY DEF ExpireToken
  <1>3. UNCHANGED <<accountVars, sessions, token, mailVars, history>>
    BY DEF ExpireToken
  <1> HIDE DEF new
  <1>4. /\ DOMAIN tokens' = DOMAIN tokens /\ tokens' \in [DOMAIN tokens -> Token]
        /\ \A x \in DOMAIN tokens : tokens'[x].user = tokens[x].user
    BY <1>1, <1>2, Unchanged
  <1> QED BY <1>3, <1>4, QueueKept, RequestsStay

LEMMA EndSessionStep ==
  ASSUME IInv, NEW s, EndSession(s)
  PROVE  IInv'
  <1>1. UNCHANGED <<accountVars, tokens, token, mailVars, history>> /\ sessions' \subseteq sessions
    BY DEF EndSession
  <1> QED BY <1>1, QueueKept, RequestsStay, Unchanged

LEMMA MailStepStep ==
  ASSUME IInv, MailStep
  PROVE  IInv'
  <1>1. QueueParts
    BY QueueFacts DEF IInv, TypeOK
  <1>2. QueueParts' /\ UNCHANGED accepted
    BY <1>1, TakeStep, DoneStep, ClosingSteps DEF MailStep, Mail!WorkerStep
  <1>3. UNCHANGED <<accountVars, sessions, tokens, token, history>>
    BY DEF MailStep
  <1> QED BY <1>2, <1>3, RequestsStay, Unchanged

-----------------------------------------------------------------------------
(* The theorems.                                                           *)

LEMMA InvariantInit == Init => IInv
  <1> SUFFICES ASSUME Init PROVE IInv
    OBVIOUS
  <1>1. AccountsTypeOK
    BY AccountsAssumption DEF Init, AccountsInit, AccountsTypeOK, Idle, Call
  <1>2. QueueParts
    <2>1. /\ tasks = <<>> /\ worker = [w \in Workers |-> "idle"] /\ closing = FALSE /\ closed = FALSE
          /\ accepted = {} /\ tried = {}
      BY DEF Init, Mail!MailInit
    <2>2. Range(tasks) = {} /\ InHand = {} /\ DOMAIN tasks = {}
      BY CredentialsAssumption, <2>1 DEF Range, InHand
    <2>3. Mail!MailTypeOK
      <3>1. tasks \in Seq(Tokens) /\ Len(tasks) = 0
        BY <2>1
      <3>2. worker \in [Workers -> {"idle", "gone"} \cup Tokens]
        BY <2>1
      <3>3. Len(tasks) <= QueueSize
        BY CredentialsAssumption, <3>1
      <3> QED BY <2>1, <3>1, <3>2, <3>3 DEF Mail!MailTypeOK
    <2>4. \A w \in Workers : worker[w] \notin Tokens
      BY CredentialsAssumption, <2>1
    <2> QED BY <2>1, <2>2, <2>3, <2>4 DEF QueueParts
  <1>3. Mail!MailTypeOK /\ QueueOK
    <2>1. ~closed
      BY DEF Init, Mail!MailInit
    <2> QED BY <1>2, <2>1 DEF QueueParts, QueueOK, MailsAccountedFor, InHand
  <1>4. TypeOK
    BY <1>1, <1>3 DEF Init, TypeOK
  <1>5. \A r \in Requests : RequestOK(r)
    BY DEF Init, AccountsInit, RequestOK, Ordered, Loaded, Idle
  <1>6. UsersOK /\ PasswordsOK
    BY DEF Init, AccountsInit, UsersOK, Indexed, PasswordsOK
  <1>7. TokensOK
    BY DEF Init, AccountsInit, Mail!MailInit, TokensOK, Holds, Range
  <1> QED BY <1>3, <1>4, <1>5, <1>6, <1>7 DEF IInv

LEMMA InvariantStep == IInv /\ [Next]_vars => IInv'
  <1> SUFFICES ASSUME IInv, [Next]_vars PROVE IInv'
    OBVIOUS
  <1>1. CASE UNCHANGED vars
    BY <1>1, QueueKept, RequestsStay, Unchanged DEF vars
  <1>2. ASSUME NEW r \in Requests, RequestStep(r)
        PROVE  IInv'
    BY <1>2, AccountsOnlyStep, SignInSteps, DeleteAccountStep, ChangePasswordStep, IssueTokenStep,
       ResetPasswordStep, LoadUserStep, OpenSessionStep, DropSteps, EnqueueMailStep, MarkUsedStep,
       RevokeStep DEF RequestStep
  <1> QED BY <1>1, <1>2, EndSessionStep, ExpireTokenStep, MailStepStep DEF Next

\* The inductive invariant holds however registrations, renames, sign-ins,
\* changes, resets, deletions and mails interleave (auth_service.go,
\* user_service.go, internal/platform/email).
THEOREM CredentialsInvariance == Spec => []IInv
  BY InvariantInit, InvariantStep, PTL DEF Spec

\* Every variable keeps its type; the channel of the mail service never holds
\* more than it has room for (Enqueue of the mail service).
THEOREM CredentialsTypeCorrect == Spec => []TypeOK
  <1>1. IInv => TypeOK
    BY DEF IInv
  <1> QED BY CredentialsInvariance, <1>1, PTL

\* An e-mail address in any spelling, a username or a GitHub account means at
\* most one account in use (the unique indexes, and NormalizeEmail at every
\* write).
THEOREM IdentitiesStayUnique == Spec => []UniqueIdentities
  <1>1. ASSUME IInv PROVE UniqueIdentities
    <2>1. ASSUME NEW u \in DOMAIN users, NEW v \in DOMAIN users, users[u].email # users[v].email
          PROVE  users[u].email.address # users[v].email.address
      <3>1. /\ users[u].email \in Email /\ users[v].email \in Email
            /\ ~users[u].email.capitals /\ ~users[v].email.capitals
        BY <1>1 DEF IInv, TypeOK, AccountsTypeOK, UsersOK, Row
      <3> QED BY <2>1, <3>1 DEF Email
    <2> QED BY <1>1, <2>1 DEF IInv, UsersOK, Indexed, UniqueIdentities, Live
  <1> QED BY CredentialsInvariance, <1>1, PTL

\* A change of password that nothing overlapped holds until the next one starts
\* (ChangePassword, ResetPassword against every write-back of a stale copy).
THEOREM ChangesHold == Spec => []ChangedForGood
  <1>1. IInv => ChangedForGood
    BY DEF IInv, PasswordsOK, ChangedForGood
  <1> QED BY CredentialsInvariance, <1>1, PTL

\* An accepted mail is in the queue, with one worker or done with, and no worker
\* has one when Close has returned (the mail service).
THEOREM NoMailIsLost == Spec => []MailsAccountedFor
  <1>1. IInv => MailsAccountedFor
    BY DEF IInv, QueueOK
  <1> QED BY CredentialsInvariance, <1>1, PTL

-----------------------------------------------------------------------------
(* Deleted accounts.                                                       *)

\* Deleted rows stay as they are in this step.
Untouched ==
  \A u \in DOMAIN users : users[u].deleted /\ users'[u].deleted => users'[u] = users[u]

LEMMA WhoWrites ==
  ASSUME IInv, Next
  PROVE  \/ UNCHANGED users
         \/ \E u \in Users : SoftDelete(u)
         \/ \E r \in Requests : InsertUser(r) \/ Update(r) \/ Undelete(r)
  <1>1. ASSUME NEW r \in Requests, RequestStep(r)
        PROVE  \/ UNCHANGED users
               \/ \E u \in Users : SoftDelete(u)
               \/ InsertUser(r) \/ Update(r) \/ Undelete(r)
    <2>1. CASE AccountsOnly(r)
      <3>1. CASE \/ \E e \in Email, n \in Usernames, p \in Passwords :
                      Register(r, e, n, p) \/ CreateUser(r, e, n, p)
                 \/ \E u \in Users, n \in Usernames :
                      UpdateProfile(r, u, n) \/ \E e \in Email : UpdateUser(r, u, e, n)
        BY <3>1 DEF Register, CreateUser, UpdateProfile, UpdateUser
      <3>2. CASE \E u \in Users : UploadAvatar(r, u) \/ DeleteUser(r, u) \/ RestoreUser(r, u)
        BY <3>2 DEF UploadAvatar, DeleteUser, RestoreUser
      <3>3. CASE CheckEmail(r) \/ CheckUsername(r) \/ CheckOtherUsername(r) \/ Fail(r)
        BY <3>3 DEF CheckEmail, CheckUsername, CheckOtherUsername, Fail
      <3> QED BY <2>1, <3>1, <3>2, <3>3 DEF AccountsOnly, AccountsStep
    <2>2. CASE \E u \in Users : DeleteAccount(r, u)
      BY <2>2 DEF DeleteAccount
    <2>3. CASE \E u \in Users :
                 Login(r, u) \/ ForgotPassword(r, u) \/ \E p \in Passwords : ChangePassword(r, u, p)
      BY <2>3 DEF Login, ForgotPassword, ChangePassword
    <2>4. CASE \/ \E g \in GithubIds, e \in Email, n \in Usernames : SignInWithGithub(r, g, e, n)
               \/ \E t \in Tokens : IssueToken(r, t) \/ ResetPassword(r, t)
               \/ \E p \in Passwords : LoadUser(r, p)
      BY <2>4 DEF SignInWithGithub, IssueToken, ResetPassword, LoadUser
    <2>5. CASE \/ OpenSession(r) \/ DropTokens(r) \/ EnqueueMail(r) \/ MarkUsed(r)
               \/ Revoke(r) \/ DropSessions(r)
      BY <2>5 DEF OpenSession, DropTokens, EnqueueMail, MarkUsed, Revoke, DropSessions
    <2> QED BY <1>1, <2>1, <2>2, <2>3, <2>4, <2>5 DEF RequestStep
  <1>2. ASSUME \/ \E s \in Session : EndSession(s)
               \/ \E t \in Tokens : ExpireToken(t)
               \/ MailStep
        PROVE  UNCHANGED users
    BY <1>2 DEF EndSession, ExpireToken, MailStep, accountVars
  <1> QED BY <1>1, <1>2 DEF Next

LEMMA UntouchedStep ==
  ASSUME IInv, Next
  PROVE  Untouched
  <1>1. users \in [DOMAIN users -> Row]
    BY DEF IInv, TypeOK, AccountsTypeOK
  <1>2. CASE UNCHANGED users
    BY <1>2 DEF Untouched
  <1>3. ASSUME NEW u \in Users, SoftDelete(u) PROVE Untouched
    BY <1>1, <1>3 DEF Untouched, SoftDelete, Live
  <1>4. ASSUME NEW r \in Requests, InsertUser(r) PROVE Untouched
    BY <1>4 DEF Untouched, InsertUser
  <1>5. ASSUME NEW r \in Requests, Update(r) PROVE Untouched
    BY <1>1, <1>5 DEF Untouched, Update, Updates, Written, Live
  <1>6. ASSUME NEW r \in Requests, Undelete(r) PROVE Untouched
    <2> DEFINE table == [users EXCEPT ![call[r].user].deleted = FALSE]
    <2>1. \A u \in DOMAIN users : table[u].deleted => table[u] = users[u]
      BY <1>1 DEF Row
    <2>2. users' = table \/ users' = users
      BY <1>6 DEF Undelete
    <2> QED BY <2>1, <2>2 DEF Untouched
  <1> QED BY <1>2, <1>3, <1>4, <1>5, <1>6, WhoWrites

\* While an account is deleted no request changes its row, whichever copy of it
\* it holds (the UPDATE of user_repository.go finds only rows not deleted).
THEOREM DeletedStaysUntouched == Spec => DeletedUntouched
  <1>1. IInv /\ [Next]_vars => [Untouched]_accountVars
    <2> SUFFICES ASSUME IInv, [Next]_vars PROVE [Untouched]_accountVars
      OBVIOUS
    <2>1. CASE UNCHANGED vars
      BY <2>1 DEF vars, accountVars
    <2> QED BY <2>1, UntouchedStep
  <1>2. Spec => [][Untouched]_accountVars
    BY CredentialsInvariance, <1>1, PTL DEF Spec
  <1> QED BY <1>2 DEF DeletedUntouched, Untouched
=============================================================================
