---------------------------- MODULE Notifications ----------------------------
(***************************************************************************)
(* Notifications (internal/service/notification_service.go and its         *)
(* repository): a user is told of a new follower, or of a comment on a     *)
(* post.  Nothing ever removes one.                                        *)
(***************************************************************************)
EXTENDS Posts

CONSTANTS Notice  \* ids of notifications; each is given out once

VARIABLES notices  \* the notifications table

NoticeRow == [user : Users, from : Users, read : BOOLEAN]

NotificationsTypeOK ==
  /\ DOMAIN notices \subseteq Notice
  /\ notices \in [DOMAIN notices -> NoticeRow]

NotificationsInit == notices = [n \in {} |-> None]

\* What a request of user u, who is to cause a notification, starts with.
Telling(u, p) == [user |-> u, post |-> p, began |-> Len(decisions), tell |-> None]

\* CreateNotification, as the last thing a request does: nobody is told of what
\* they did themselves, and a failure does not matter.
Notify(r) ==
  /\ At(r, "notify")
  /\ \/ UNCHANGED notices
     \/ /\ call[r].tell # call[r].user
        /\ \E n \in Notice \ DOMAIN notices :
             notices' = With(notices, n, [user |-> call[r].tell, from |-> call[r].user, read |-> FALSE])
  /\ Quit(r)
  /\ UNCHANGED postVars

\* MarkAsRead reads the row and writes it back; no other column of it, and
\* nothing but this one, ever changes.
MarkAsRead(r, u, n) ==
  /\ AtOnce(r, "notices")
  /\ n \in DOMAIN notices /\ notices[n].user = u
  /\ notices' = [notices EXCEPT ![n].read = TRUE]
  /\ UNCHANGED postVars

MarkAllAsRead(r, u) ==
  /\ AtOnce(r, "notices")
  /\ notices' = [n \in DOMAIN notices |-> [notices[n] EXCEPT !.read = @ \/ notices[n].user = u]]
  /\ UNCHANGED postVars

NotificationsStart(r) ==
  \E u \in Users : MarkAllAsRead(r, u) \/ \E n \in Notice : MarkAsRead(r, u, n)
=============================================================================
