----------------------------- MODULE Moderation -----------------------------
(***************************************************************************)
(* Reports of posts and what moderators do about them                      *)
(* (internal/service/post_report_service.go, post_report_repository.go).   *)
(***************************************************************************)
EXTENDS Posts

VARIABLE reports  \* the post_reports table

\* by: the number of the decision that closed the report; made: how many
\* decisions there were when it was filed.
Report == [ post : Post, reporter : Users, status : {"pending", "resolved", "dismissed"},
            by : Nat, made : Nat ]

ModerationTypeOK == reports \subseteq Report

ModerationInit == reports = {}

Pending(p) == {x \in reports : x.post = p /\ x.status = "pending"}

-----------------------------------------------------------------------------
(* Reports.                                                                *)

ReportPost(r, u, p) ==
  /\ Enter(r, "report", About(u, p), <<"findReported", "insertReport">>)
  /\ UNCHANGED <<postVars, reports>>

\* GetPostByID, ensurePostInteractable; and nobody reports a post of their own.
FindReported(r) ==
  LET p == call[r].post IN
  /\ At(r, "findReported")
  /\ Check(r, Exists(p) /\ ~posts[p].hidden /\ posts[p].author # call[r].user)
  /\ UNCHANGED <<postVars, reports>>

NewReport(r) == [ post |-> call[r].post, reporter |-> call[r].user, status |-> "pending",
                  by |-> 0, made |-> Len(decisions) ]

\* Create: a second pending report of one user is ignored.
InsertReport(r) ==
  LET p == call[r].post IN
  /\ At(r, "insertReport")
  /\ ~Locked(p)
  /\ reports' = IF Exists(p) /\ \A x \in Pending(p) : x.reporter # call[r].user
                THEN reports \cup {NewReport(r)} ELSE reports
  /\ Quit(r)
  /\ UNCHANGED postVars

\* The reports of a deleted post go with it.
CascadeReports(p) == reports' = {x \in reports : x.post # p}

-----------------------------------------------------------------------------
(* Decisions.                                                              *)

ModeratePost(r, u, p, kind) ==
  /\ Len(decisions) < MaxDecisions
  /\ Enter(r, "moderate", [user |-> u, post |-> p, began |-> Len(decisions), kind |-> kind],
           <<"lockPost", "decide">>)
  /\ UNCHANGED <<postVars, reports>>

\* The decision makes sense for the state the post is in.
Applies(p, kind) ==
  CASE kind = "hide"    -> ~posts[p].hidden
    [] kind = "unhide"  -> posts[p].hidden
    [] kind = "dismiss" -> Pending(p) # {}

\* The transaction begins: it locks the row, and checks.
LockPost(r) ==
  LET p == call[r].post IN
  /\ At(r, "lockPost")
  /\ ~Locked(p)
  /\ Check(r, Exists(p) /\ Applies(p, call[r].kind))
  /\ UNCHANGED <<postVars, reports>>

\* closePending by the decision about to be logged.
ClosePending(p, status) ==
  reports' = (reports \ Pending(p))
               \cup {[x EXCEPT !.status = status, !.by = Len(decisions) + 1] : x \in Pending(p)}

\* It writes its record, the post and the reports, and commits.
Decide(r) ==
  LET p == call[r].post
      kind == call[r].kind
  IN
  /\ At(r, "decide")
  /\ Len(decisions) < MaxDecisions
  /\ decisions' = Append(decisions, [post |-> p, kind |-> kind])
  /\ CASE kind = "hide"    -> ClosePending(p, "resolved")
       [] kind = "unhide"  -> UNCHANGED reports
       [] kind = "dismiss" -> ClosePending(p, "dismissed")
  /\ posts' = IF kind = "dismiss" THEN posts ELSE [posts EXCEPT ![p].hidden = (kind = "hide")]
  /\ Quit(r)
  /\ UNCHANGED gone

ModerationStart(r) == \E u \in Users, p \in Post :
  ReportPost(r, u, p) \/ \E kind \in Kinds : ModeratePost(r, u, p, kind)

ModerationStep(r) ==
  \/ FindReported(r) \/ InsertReport(r) \/ LockPost(r) \/ Decide(r)

-----------------------------------------------------------------------------
(* Properties.                                                             *)

\* Every closed report names the decision that closed it: one about its own
\* post, taken after it was filed, a hide if it is resolved and a dismissal if
\* it is dismissed.  A dismissal closed something.  A report still pending was
\* filed after the last hide and the last dismissal of its post: no decision
\* leaves a report behind.  And nobody has two pending reports of one post.
ReportsAnswered ==
  /\ \A x \in reports : x.post \notin gone =>
       IF x.status = "pending"
       THEN \A i \in DOMAIN decisions :
              decisions[i].post = x.post /\ decisions[i].kind # "unhide" => i <= x.made
       ELSE /\ x.by \in DOMAIN decisions /\ x.made < x.by
            /\ decisions[x.by].post = x.post
            /\ decisions[x.by].kind = IF x.status = "resolved" THEN "hide" ELSE "dismiss"
  /\ \A i \in DOMAIN decisions :
       decisions[i].kind = "dismiss" /\ decisions[i].post \in Post \ gone
         => \E x \in reports : x.by = i
  /\ \A x, y \in reports :
       x.post = y.post /\ x.reporter = y.reporter /\ x.status = "pending" /\ y.status = "pending"
         => x = y

\* The moderation log accounts for the post and for its reports.
LogAccounts == LogTellsState /\ ReportsAnswered
=============================================================================
