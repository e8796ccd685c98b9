-------------------------------- MODULE Posts --------------------------------
(***************************************************************************)
(* The posts table and the decisions of moderators about posts             *)
(* (internal/repository/post_repository.go, post_report_repository.go and  *)
(* the migrations that define the tables).                                 *)
(*                                                                         *)
(* A post row holds its author, whether a moderator has hidden it, and the *)
(* three counters the database triggers keep.  Its text and the published  *)
(* flag guard nothing modelled here.                                       *)
(***************************************************************************)
EXTENDS HttpRequests, Integers, FiniteSets

CONSTANTS
  Users,
  Post,         \* ids of posts; each is given out once
  MaxPosts(_),  \* bound on the posts there are under a workload
  MaxDecisions  \* bound on the moderation log

ASSUME PostsAssumption ==
  /\ \A w \in Workloads : MaxPosts(w) \in Nat
  /\ MaxDecisions \in Nat
  /\ None \notin Users \cup Post

VARIABLES
  posts,      \* the posts table
  decisions,  \* the post_moderation_actions table, in the order of the commits
  gone        \* history: ids of rows that have been deleted (no id is given out twice)

postVars == <<posts, decisions, gone>>

PostRow == [author : Users, hidden : BOOLEAN, likes : Int, views : Int, bookmarks : Int]

Kinds == {"hide", "unhide", "dismiss"}

Decision == [post : Post \cup {None}, kind : Kinds]

PostsTypeOK ==
  /\ DOMAIN posts \subseteq Post
  /\ posts \in [DOMAIN posts -> PostRow]
  /\ decisions \in Seq(Decision)

NewPost(u) == [author |-> u, hidden |-> FALSE, likes |-> 0, views |-> 0, bookmarks |-> 0]

PostsInit ==
  /\ posts = [p \in {} |-> None]
  /\ decisions = <<>>
  /\ gone = {}

-----------------------------------------------------------------------------

\* Mistake: the row is read without a lock.
NeverLocked(p) == FALSE

\* A decision about the post has locked its row (SELECT ... FOR UPDATE) and not
\* committed: everything that writes the row, or refers to it, waits.
Locked(p) == \E r \in Requests : At(r, "decide") /\ call[r].post = p

Exists(p) == p \in DOMAIN posts

\* The row of a child table may be inserted: the foreign key holds.
MayRefer(p) == Exists(p) /\ ~Locked(p)

\* What a request about post p by user u starts with.  It remembers how many
\* decisions had been taken by then.
About(u, p) == [user |-> u, post |-> p, began |-> Len(decisions)]

\* GetPostByID: whoever asks, hidden or not.
FindPost(r) ==
  /\ At(r, "findPost")
  /\ Check(r, Exists(call[r].post))
  /\ UNCHANGED postVars

\* Mistake: no ensurePostInteractable.
FindAnyPost(r) ==
  /\ At(r, "findOpenPost")
  /\ Check(r, Exists(call[r].post))
  /\ UNCHANGED postVars

\* GetPostByID and ensurePostInteractable.
FindOpenPost(r) ==
  LET p == call[r].post IN
  /\ At(r, "findOpenPost")
  /\ Check(r, Exists(p) /\ ~posts[p].hidden)
  /\ UNCHANGED postVars

-----------------------------------------------------------------------------

\* The table with one more row.
With(table, key, row) == [k \in DOMAIN table \cup {key} |-> IF k = key THEN row ELSE table[k]]

\* The table without some rows.
Without(table, keys) == [k \in DOMAIN table \ keys |-> table[k]]

\* Ids a new row may get.
Fresh(ids, table) == ids \ (DOMAIN table \cup gone)

\* A row is added.
InsertPost(p, u) ==
  /\ p \in Fresh(Post, posts)
  /\ Cardinality(Post \ Fresh(Post, posts)) < MaxPosts(asks)
  /\ posts' = With(posts, p, NewPost(u))
  /\ UNCHANGED <<decisions, gone>>

\* DELETE FROM posts: the rows of its children go with it; the log keeps its
\* entries and forgets the post.
DeletePost(p, children) ==
  /\ MayRefer(p)
  /\ posts' = Without(posts, {p})
  /\ decisions' = [i \in DOMAIN decisions |->
                     IF decisions[i].post = p THEN [decisions[i] EXCEPT !.post = None] ELSE decisions[i]]
  /\ gone' = gone \cup {p} \cup children

\* Indices of the decisions that hid or unhid the post.
Switches(p) == {i \in DOMAIN decisions : decisions[i].post = p /\ decisions[i].kind # "dismiss"}

\* The last hide or unhide of p among the first n decisions.
LastSwitch(p, n) ==
  LET S == {i \in Switches(p) : i <= n} IN
  IF S = {} THEN "unhide" ELSE decisions[CHOOSE i \in S : \A j \in S : j <= i].kind

\* The post has been open at some moment since there were n decisions.
OpenSince(p, n) ==
  \/ LastSwitch(p, n) = "unhide"
  \/ \E i \in Switches(p) : i > n /\ decisions[i].kind = "unhide"

-----------------------------------------------------------------------------
(* Properties.                                                             *)

\* The log tells the story of the post: its hides and unhides alternate,
\* beginning with a hide, and the post is hidden now if the last one hid it,
\* whatever moderators acted at once.
LogTellsState ==
  \A p \in DOMAIN posts \ gone :
    /\ posts[p].hidden <=> LastSwitch(p, Len(decisions)) = "hide"
    /\ \A i \in Switches(p) :
         decisions[i].kind = IF LastSwitch(p, i - 1) = "hide" THEN "unhide" ELSE "hide"
=============================================================================
