------------------------------- MODULE Follows -------------------------------
(***************************************************************************)
(* Who follows whom (internal/service/user_follow_service.go and its       *)
(* repository), with the triggers that count followers in the rows of both *)
(* users.  A trigger locks the two rows one after the other: two users who *)
(* follow each other at once can block each other, and the database then   *)
(* fails one of the two statements as a whole.  That accounts come and go  *)
(* is another module's subject (Accounts).                                 *)
(***************************************************************************)
EXTENDS Notifications

VARIABLES
  follows,    \* the live rows of user_follows: <<follower, followed>>
  followers,  \* users.followers_count
  following   \* users.following_count

followVars == <<follows, followers, following>>

FollowsTypeOK ==
  /\ follows \subseteq Users \X Users
  /\ followers \in [Users -> Nat] /\ following \in [Users -> Nat]

FollowsInit ==
  /\ follows = {}
  /\ followers = [u \in Users |-> 0] /\ following = [u \in Users |-> 0]

Pair(r) == <<call[r].user, call[r].tell>>

FollowUser(r, u, v) ==
  /\ Enter(r, "follow", [Telling(u, None) EXCEPT !.tell = v], <<"notFollowing", "insertFollow", "notify">>)
  /\ UNCHANGED <<postVars, notices, followVars>>

UnfollowUser(r, u, v) ==
  /\ Enter(r, "follow", [Telling(u, None) EXCEPT !.tell = v], <<"following", "deleteFollow">>)
  /\ UNCHANGED <<postVars, notices, followVars>>

\* IsFollowing; and nobody follows themselves.
CheckFollow(r) ==
  /\ \/ At(r, "notFollowing") /\ Check(r, Pair(r) \notin follows /\ call[r].user # call[r].tell)
     \/ At(r, "following") /\ Check(r, Pair(r) \in follows)
  /\ UNCHANGED <<postVars, notices, followVars>>

\* The trigger: n is 1 for a row that is inserted, -1 for one that is soft-deleted.
CountFollow(pair, n) ==
  /\ following' = [following EXCEPT ![pair[1]] = @ + n]
  /\ followers' = [followers EXCEPT ![pair[2]] = @ + n]

\* The partial unique index refuses a second live row.
InsertFollow(r) ==
  /\ At(r, "insertFollow")
  /\ IF Pair(r) \in follows
     THEN Quit(r) /\ UNCHANGED followVars
     ELSE /\ follows' = follows \cup {Pair(r)}
          /\ CountFollow(Pair(r), 1)
          /\ Advance(r)
  /\ UNCHANGED <<postVars, notices>>

\* The soft delete touches a live row, if there is one.
DeleteFollow(r) ==
  /\ At(r, "deleteFollow")
  /\ IF Pair(r) \in follows
     THEN follows' = follows \ {Pair(r)} /\ CountFollow(Pair(r), -1)
     ELSE UNCHANGED followVars
  /\ Quit(r)
  /\ UNCHANGED <<postVars, notices>>

FollowsStart(r) == \E u, v \in Users : FollowUser(r, u, v) \/ UnfollowUser(r, u, v)

FollowsStep(r) == CheckFollow(r) \/ InsertFollow(r) \/ DeleteFollow(r)
=============================================================================
