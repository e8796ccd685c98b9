------------------------------ MODULE MCContent ------------------------------
(***************************************************************************)
(* Model-checking instance of Content.  Each workload sets two requests    *)
(* against each other; an instance explores all of them.                   *)
(***************************************************************************)
EXTENDS ContentInvariant, TLC

CONSTANTS r1, r2

MCRequests == {r1, r2}

Against(a, b) == [r \in MCRequests |-> IF r = r1 THEN a ELSE b]

\* Several posts: reported and moderated, kept in lists, tagged at the same time.
PostsWork ==
  { Against({"create", "report", "moderate"}, {"report", "moderate"}),
    Against({"create", "moderate"}, {"list", "deletePost"}),
    Against({"createTagged"}, {"createTagged"}),
    Against({"create", "bookmark"}, {"mark", "deletePost"}) }

\* One post, reported and moderated until it is deleted.
ModerationWork == { Against({"create", "moderate", "deletePost"}, {"report", "moderate"}) }

\* One post, tagged by two requests at once; tags that change by themselves.
TagWork ==
  { Against({"create", "update"}, {"update"}),
    Against({"createTagged"}, {"update", "deletePost"}),
    Against({"createTagged", "update"}, {"tags"}) }

\* Reactions, twice at once, while the post is hidden or deleted.
ReactionWork ==
  { Against({"create", "like", "view"}, {"like", "view", "deletePost"}),
    Against({"create", "like", "view"}, {"moderate"}),
    Against({"create", "comment", "edit"}, {"edit", "deletePost"}),
    Against({"create", "comment", "edit"}, {"moderate"}) }

\* Bookmarks, toggled and moved while they or their folders go.
BookmarkWork ==
  { Against({"create", "bookmark", "mark"}, {"folder"}),
    Against({"create", "bookmark"}, {"folder", "deletePost"}),
    Against({"create", "bookmark"}, {"mark", "moderate"}) }

\* Users follow each other and are told.
FollowWork == { Against({"follow"}, {"follow", "notices"}) }

MCWorkloads == PostsWork \cup ModerationWork \cup TagWork \cup ReactionWork \cup BookmarkWork \cup FollowWork

MCMaxPosts(w) == IF w \in PostsWork THEN 2 ELSE 1

Symmetry == Permutations(Users) \cup Permutations(Post) \cup Permutations(Tags)
              \cup Permutations(Bookmark)
=============================================================================
