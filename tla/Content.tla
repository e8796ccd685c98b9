------------------------------- MODULE Content -------------------------------
(***************************************************************************)
(* What users write, and what others make of it: the requests of Posts,    *)
(* PostTags, Moderation, Reactions, Bookmarks, Notifications and Follows   *)
(* side by side on one database, and the deletion of posts, which concerns *)
(* them all.                                                               *)
(***************************************************************************)
EXTENDS Moderation, PostTags, Reactions, Bookmarks, Follows

vars == << requestVars, postVars, reports, tagVars, reactionVars, bookmarkVars,
           notices, followVars >>

Init ==
  /\ RequestsInit /\ PostsInit /\ ModerationInit /\ PostTagsInit /\ ReactionsInit
  /\ BookmarksInit /\ NotificationsInit /\ FollowsInit

\* DeletePost by an administrator or DeleteMyPost by the author, with all that
\* the foreign keys delete.  The database does not keep it.
RemovePost(r, u, p) ==
  /\ AtOnce(r, "deletePost")
  /\ Exists(p) /\ u \in {None, posts[p].author}
  /\ DeletePost(p, CommentsOf(p) \cup MarksOf(p, Users))
  /\ CascadeReports(p) /\ CascadeTagged(p) /\ CascadeReactions(p) /\ CascadeBookmarks(p)
  /\ UNCHANGED <<notices, followVars>>

\* The checks several operations begin with, and failures anywhere.
Common(r) ==
  /\ FindPost(r) \/ FindOpenPost(r) \/ (Fail(r) /\ UNCHANGED postVars)
  /\ UNCHANGED <<reports, tagVars, reactionVars, bookmarkVars, notices, followVars>>

\* A request arrives, and is carried out at once or begins.
Arrive(r) ==
  \/ \E u \in Users \cup {None}, p \in Post : RemovePost(r, u, p)
  \/ ModerationStart(r) /\ UNCHANGED <<tagVars, reactionVars, bookmarkVars, notices, followVars>>
  \/ PostTagsStart(r) /\ UNCHANGED <<reports, reactionVars, bookmarkVars, notices, followVars>>
  \/ ReactionsStart(r) /\ UNCHANGED <<reports, tagVars, bookmarkVars, followVars>>
  \/ BookmarksStart(r) /\ UNCHANGED <<reports, tagVars, reactionVars, notices, followVars>>
  \/ NotificationsStart(r) /\ UNCHANGED <<reports, tagVars, reactionVars, bookmarkVars, followVars>>
  \/ FollowsStart(r) /\ UNCHANGED <<reports, tagVars, reactionVars, bookmarkVars>>

\* It executes its next statement.
Proceed(r) ==
  \/ Common(r)
  \/ ModerationStep(r) /\ UNCHANGED <<tagVars, reactionVars, bookmarkVars, notices, followVars>>
  \/ PostTagsStep(r) /\ UNCHANGED <<reports, reactionVars, bookmarkVars, notices, followVars>>
  \/ ReactionsStep(r) /\ UNCHANGED <<reports, tagVars, bookmarkVars, followVars>>
  \/ BookmarksStep(r) /\ UNCHANGED <<reports, tagVars, reactionVars, notices, followVars>>
  \/ Notify(r) /\ UNCHANGED <<reports, tagVars, reactionVars, bookmarkVars, followVars>>
  \/ FollowsStep(r) /\ UNCHANGED <<reports, tagVars, reactionVars, bookmarkVars>>

Request(r) == IF todo[r] = <<>> THEN Arrive(r) ELSE Proceed(r)

\* Redis forgets.
Expire ==
  /\ \/ \E kind \in Lists : ExpireList(kind) /\ UNCHANGED <<notices, reactionVars>>
     \/ \E m \in markers : ExpireMarker(m) /\ UNCHANGED tagVars
  /\ UNCHANGED <<reports, bookmarkVars, followVars>>

Next == Expire \/ \E r \in Requests : Request(r)

Spec == Init /\ [][Next]_vars

-----------------------------------------------------------------------------
(* Properties.                                                             *)

\* Rows have the columns they should have, and refer to rows that are there:
\* what goes with a post goes, whatever a late Save brings back.
TypeOK ==
  /\ PostsTypeOK /\ ModerationTypeOK /\ PostTagsTypeOK /\ ReactionsTypeOK
  /\ BookmarksTypeOK /\ NotificationsTypeOK /\ FollowsTypeOK
  /\ \A x \in reports : Exists(x.post)
  /\ \A c \in DOMAIN comments : Exists(comments[c].post)
  /\ \A b \in DOMAIN bookmarks : Exists(bookmarks[b].post)
  /\ BookmarksInOrder

\* The counters of a post, and those of a user, say how many rows there are,
\* though the service checks for a row in one statement and inserts or deletes
\* it in another.  A post that was deleted and came back with a bookmark is out
\* of it: it comes back with the counts it had and none of the rows.
CountsMatchRows ==
  /\ \A p \in DOMAIN posts \ gone :
       /\ posts[p].likes = Cardinality({x \in likes : x[1] = p})
       /\ posts[p].views = Cardinality({x \in views : x[1] = p})
       /\ posts[p].bookmarks = Cardinality(MarksOf(p, Users))
  /\ \A u \in Users :
       /\ following[u] = Cardinality({x \in follows : x[1] = u})
       /\ followers[u] = Cardinality({x \in follows : x[2] = u})

\* Post p has been hidden since before request r began.
HiddenFrom(r, p) ==
  /\ p \in DOMAIN posts \ gone
  /\ ~OpenSince(p, call[r].began)

\* Nothing new refers to the post.
NothingNew(p) ==
  /\ {x \in likes' \cup views' : x[1] = p} \subseteq likes \cup views
  /\ \A x \in reports' : x.post = p =>
       \E y \in reports : y.post = p /\ y.reporter = x.reporter /\ y.made = x.made
  /\ {c \in DOMAIN comments' : comments'[c].post = p} \subseteq DOMAIN comments
  /\ MarksOf(p, Users)' \subseteq MarksOf(p, Users)

\* A request that begins after a moderator has hidden a post, and ends before
\* it is open again, neither likes, views, reports, bookmarks nor comments on it,
\* and keeps no list that shows it: whatever the request read, it read after the
\* decision.  (One that began before it may do all of that.)
HiddenLeftAlone ==
  [][ \A r \in Requests : call[r] # None /\ todo[r] # todo'[r] =>
        /\ \A p \in {call[r].post} \cap Post : HiddenFrom(r, p) => NothingNew(p)
        /\ \A k \in Lists : lists'[k] \notin {None, lists[k]} =>
             \A p \in lists'[k].shows : ~HiddenFrom(r, p) ]_vars
=============================================================================
