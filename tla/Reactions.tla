------------------------------ MODULE Reactions ------------------------------
(***************************************************************************)
(* Likes, views and comments (internal/service/post_like_service.go,       *)
(* post_view_service.go, comment_service.go and their repositories), with  *)
(* the triggers that count likes and views in the row of the post.         *)
(***************************************************************************)
EXTENDS Notifications

CONSTANTS Comment  \* ids of comments; each is given out once

VARIABLES
  likes,     \* the post_likes table
  views,     \* the post_views table, of users who are signed in
  markers,   \* the "has viewed" markers in Redis
  comments   \* the post_comments table, soft-deleted rows included

reactionVars == <<likes, views, markers, comments>>

CommentRow == [post : Post, author : Users, deleted : BOOLEAN]

ReactionsTypeOK ==
  /\ likes \subseteq (DOMAIN posts) \X Users
  /\ views \subseteq (DOMAIN posts) \X Users
  /\ markers \subseteq Post \X Users
  /\ DOMAIN comments \subseteq Comment
  /\ comments \in [DOMAIN comments -> CommentRow]

ReactionsInit ==
  /\ likes = {} /\ views = {} /\ markers = {}
  /\ comments = [c \in {} |-> None]

Mine(r) == <<call[r].post, call[r].user>>

-----------------------------------------------------------------------------
(* Likes.                                                                  *)

LikePost(r, u, p) ==
  /\ Enter(r, "like", About(u, p), <<"findOpenPost", "notLiked", "insertLike">>)
  /\ UNCHANGED <<postVars, notices, reactionVars>>

UnlikePost(r, u, p) ==
  /\ Enter(r, "like", About(u, p), <<"findPost", "liked", "deleteLike">>)
  /\ UNCHANGED <<postVars, notices, reactionVars>>

\* HasUserLikedPost.
CheckLike(r) ==
  /\ \/ At(r, "notLiked") /\ Check(r, Mine(r) \notin likes)
     \/ At(r, "liked") /\ Check(r, Mine(r) \in likes)
  /\ UNCHANGED <<postVars, notices, reactionVars>>

\* Mistake: the application counts as well, whether or not the row was there.
InsertLikeAndCount(r) ==
  LET p == call[r].post IN
  /\ At(r, "insertLike")
  /\ ~Locked(p)
  /\ likes' = IF Exists(p) THEN likes \cup {Mine(r)} ELSE likes
  /\ posts' = IF Exists(p) THEN [posts EXCEPT ![p].likes = @ + 1] ELSE posts
  /\ Quit(r)
  /\ UNCHANGED <<decisions, gone, notices, views, markers, comments>>

\* CreateLike; the unique index refuses a second row.
InsertLike(r) ==
  LET p == call[r].post IN
  /\ At(r, "insertLike")
  /\ ~Locked(p)
  /\ IF Exists(p) /\ Mine(r) \notin likes
     THEN /\ likes' = likes \cup {Mine(r)}
          /\ posts' = [posts EXCEPT ![p].likes = @ + 1]
     ELSE UNCHANGED <<posts, likes>>
  /\ Quit(r)
  /\ UNCHANGED <<decisions, gone, notices, views, markers, comments>>

\* DeleteLike removes what there is.
DeleteLike(r) ==
  LET p == call[r].post IN
  /\ At(r, "deleteLike")
  /\ ~Locked(p)
  /\ IF Mine(r) \in likes
     THEN /\ likes' = likes \ {Mine(r)}
          /\ posts' = [posts EXCEPT ![p].likes = @ - 1]
     ELSE UNCHANGED <<posts, likes>>
  /\ Quit(r)
  /\ UNCHANGED <<decisions, gone, notices, views, markers, comments>>

-----------------------------------------------------------------------------
(* Views.                                                                  *)

\* RecordView has nothing to do for who is marked.
RecordView(r, u, p) ==
  /\ <<p, u>> \notin markers
  /\ Enter(r, "view", About(u, p), <<"findOpenPost", "findView", "insertView", "mark">>)
  /\ UNCHANGED <<postVars, notices, reactionVars>>

FindView(r) ==
  /\ At(r, "findView")
  /\ IF Mine(r) \in views THEN Go(r, <<"mark">>, call[r]) ELSE Advance(r)
  /\ UNCHANGED <<postVars, notices, reactionVars>>

InsertView(r) ==
  LET p == call[r].post IN
  /\ At(r, "insertView")
  /\ ~Locked(p)
  /\ IF Exists(p) /\ Mine(r) \notin views
     THEN /\ views' = views \cup {Mine(r)}
          /\ posts' = [posts EXCEPT ![p].views = @ + 1]
          /\ Advance(r)
     ELSE Quit(r) /\ UNCHANGED <<posts, views>>
  /\ UNCHANGED <<decisions, gone, notices, likes, markers, comments>>

\* A failure does not matter.
MarkViewed(r) ==
  /\ At(r, "mark")
  /\ markers' \in {markers, markers \cup {Mine(r)}}
  /\ Quit(r)
  /\ UNCHANGED <<postVars, notices, likes, views, comments>>

ExpireMarker(m) ==
  /\ m \in markers
  /\ markers' = markers \ {m}
  /\ UNCHANGED <<requestVars, postVars, notices, likes, views, comments>>

-----------------------------------------------------------------------------
(* Comments.                                                               *)

CreateComment(r, u, p) ==
  /\ Enter(r, "comment", Telling(u, p), <<"findOpenPost", "insertComment", "notify">>)
  /\ UNCHANGED <<postVars, notices, reactionVars>>

\* The author of the post is to be told.
InsertComment(r) ==
  LET p == call[r].post IN
  /\ At(r, "insertComment")
  /\ ~Locked(p)
  /\ IF Exists(p)
     THEN /\ \E c \in Fresh(Comment, comments) :
               comments' = With(comments, c, [post |-> p, author |-> call[r].user, deleted |-> FALSE])
          /\ AdvanceWith(r, [call[r] EXCEPT !.tell = posts[p].author])
     ELSE Quit(r) /\ UNCHANGED comments
  /\ UNCHANGED <<postVars, notices, likes, views, markers>>

There(c) == c \in DOMAIN comments /\ ~comments[c].deleted

\* Who may: the author, and when it is deleted an administrator too.
Editing(u, c) == [user |-> u, post |-> None, began |-> Len(decisions), comment |-> c, row |-> None]

EditComment(r, u, c) ==
  /\ Enter(r, "edit", Editing(u, c), <<"ownComment", "saveComment">>)
  /\ UNCHANGED <<postVars, notices, reactionVars>>

RemoveComment(r, u, c) ==
  /\ Enter(r, "edit", Editing(u, c), <<"ownComment", "deleteComment">>)
  /\ UNCHANGED <<postVars, notices, reactionVars>>

ModerateComment(r, u, c) ==
  /\ Enter(r, "edit", Editing(u, c), <<"anyComment", "deleteComment">>)
  /\ UNCHANGED <<postVars, notices, reactionVars>>

\* GetCommentByPostAndID, and whose it is.
FindComment(r) ==
  LET c == call[r].comment IN
  /\ At(r, "ownComment") \/ At(r, "anyComment")
  /\ IF There(c) /\ (At(r, "ownComment") => comments[c].author = call[r].user)
     THEN AdvanceWith(r, [call[r] EXCEPT !.row = comments[c]])
     ELSE Quit(r)
  /\ UNCHANGED <<postVars, notices, reactionVars>>

\* Save updates the row; if the row is not there any more it inserts its copy,
\* over a soft-deleted row too.
SaveComment(r) ==
  LET c == call[r].comment
      p == call[r].row.post
  IN
  /\ At(r, "saveComment")
  /\ ~Locked(p)
  /\ comments' = IF Exists(p) THEN With(comments, c, call[r].row) ELSE comments
  /\ Quit(r)
  /\ UNCHANGED <<postVars, notices, likes, views, markers>>

DeleteComment(r) ==
  LET c == call[r].comment IN
  /\ At(r, "deleteComment")
  /\ comments' = IF There(c) THEN [comments EXCEPT ![c].deleted = TRUE] ELSE comments
  /\ Quit(r)
  /\ UNCHANGED <<postVars, notices, likes, views, markers>>

CommentsOf(p) == {c \in DOMAIN comments : comments[c].post = p}

CascadeReactions(p) ==
  /\ likes' = {x \in likes : x[1] # p}
  /\ views' = {x \in views : x[1] # p}
  /\ comments' = Without(comments, CommentsOf(p))
  /\ UNCHANGED markers

ReactionsStart(r) ==
  \/ \E u \in Users, p \in Post :
       LikePost(r, u, p) \/ UnlikePost(r, u, p) \/ RecordView(r, u, p) \/ CreateComment(r, u, p)
  \/ \E u \in Users, c \in Comment : EditComment(r, u, c) \/ RemoveComment(r, u, c) \/ ModerateComment(r, u, c)

ReactionsStep(r) ==
  \/ CheckLike(r) \/ InsertLike(r) \/ DeleteLike(r)
  \/ FindView(r) \/ InsertView(r) \/ MarkViewed(r)
  \/ InsertComment(r) \/ FindComment(r) \/ SaveComment(r) \/ DeleteComment(r)
=============================================================================
