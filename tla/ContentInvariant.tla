-------------------------- MODULE ContentInvariant --------------------------
(***************************************************************************)
(* An inductive invariant of Content: where a request may be and what it   *)
(* then knows, whatever other requests have done since it read it.         *)
(***************************************************************************)
EXTENDS Content

-----------------------------------------------------------------------------
(* Where a request may be: the statements t it has yet to execute, with    *)
(* the locals c, operation by operation.                                   *)

Locals == [user : Users, post : Post, began : Nat]

Reporting(t, c) ==
  c \in Locals /\ t \in {<<"findReported", "insertReport">>, <<"insertReport">>}

ModerateLocals == [user : Users, post : Post, began : Nat, kind : Kinds]

Moderating(t, c) ==
  c \in ModerateLocals /\ t \in {<<"lockPost", "decide">>, <<"decide">>}

Liking(t, c) ==
  /\ c \in Locals
  /\ t \in {<<"findOpenPost", "notLiked", "insertLike">>, <<"notLiked", "insertLike">>, <<"insertLike">>,
            <<"findPost", "liked", "deleteLike">>, <<"liked", "deleteLike">>, <<"deleteLike">>}

Viewing(t, c) ==
  /\ c \in Locals
  /\ t \in {<<"findOpenPost", "findView", "insertView", "mark">>, <<"findView", "insertView", "mark">>,
            <<"insertView", "mark">>, <<"mark">>}

TellLocals == [user : Users, post : Post \cup {None}, began : Nat, tell : Users \cup {None}]

Commenting(t, c) ==
  /\ c \in TellLocals
  /\ c.post \in Post
  /\ t \in {<<"findOpenPost", "insertComment", "notify">>, <<"insertComment", "notify">>}

Following(t, c) ==
  /\ c \in TellLocals
  /\ c.post = None /\ c.tell \in Users
  /\ t \in {<<"notFollowing", "insertFollow", "notify">>, <<"insertFollow", "notify">>,
            <<"following", "deleteFollow">>, <<"deleteFollow">>}

\* Commenting or following is done; somebody is to be told.
Notifying(t, c) == c \in TellLocals /\ c.tell \in Users /\ t = <<"notify">>

EditLocals == [user : Users, post : {None}, began : Nat, comment : Comment, row : CommentRow \cup {None}]

EditingOne(t, c) ==
  /\ c \in EditLocals
  /\ \/ t \in {<<"ownComment", "saveComment">>, <<"ownComment", "deleteComment">>,
               <<"anyComment", "deleteComment">>}
     \/ c.row \in CommentRow /\ t \in {<<"saveComment">>, <<"deleteComment">>}

WriteLocals ==
  [user : Users \cup {None}, post : Post \cup {None}, began : Nat, wants : SUBSET TagNames,
   names : SUBSET TagNames, tag : TagNames \cup {None}, found : SUBSET [id : Tags, name : TagNames]]

CreatingPost(t, c) ==
  /\ c \in WriteLocals
  /\ c.user \in Users /\ c.post = None
  /\ \/ c.names = {} /\ t = <<"insertPost">>
     \/ c.names # {} /\ t = <<"findTag", "insertPost">>
     \/ c.tag \in c.names /\ t \in {<<"insertTag", "insertPost">>, <<"findTagAgain", "insertPost">>}

UpdatingPost(t, c) ==
  /\ c \in WriteLocals
  /\ c.post \in Post
  /\ \/ c.names = {} /\ t \in {<<"findOwn", "attach", "detach">>, <<"attach", "detach">>, <<"detach">>}
     \/ c.names # {} /\ t = <<"findTag", "findOwn", "attach", "detach">>
     \/ c.tag \in c.names /\ t \in {<<"insertTag", "findOwn", "attach", "detach">>,
                                    <<"findTagAgain", "findOwn", "attach", "detach">>}

ListLocals == [user : {None}, post : {None}, began : Nat, kind : Lists, shows : SUBSET Post]

Listing(t, c) ==
  c \in ListLocals /\ t \in {<<"lookUp", "query", "store">>, <<"query", "store">>, <<"store">>}

ToggleLocals ==
  [user : Users, post : Post, began : Nat, folder : Folder \cup {None}, hidden : BOOLEAN,
   mark : Bookmark \cup {None}]

Toggling(t, c) ==
  /\ c \in ToggleLocals
  /\ \/ t \in {<<"findToggled", "findMark">>, <<"findMark">>, <<"insertMark">>}
     \/ c.folder \in Folder /\ t = <<"findFolder", "insertMark">>
     \/ c.mark \in Bookmark /\ t = <<"deleteMark">>

MarkRow == [was : Folder \cup {None}, folder : Folder \cup {None}, post : Post, user : Users]

MarkLocals ==
  [user : Users, post : {None}, began : Nat, mark : Bookmark, folder : Folder \cup {None},
   row : MarkRow \cup {None}, copy : PostRow \cup {None}]

\* The request has read the bookmark.
Loaded(t, c) ==
  /\ c \in MarkLocals
  /\ c.row \in MarkRow /\ c.row.user = c.user /\ c.copy \in PostRow
  /\ \/ t \in {<<"moveMark", "saveMark">>, <<"saveMark">>, <<"putMark">>}
     \/ c.folder \in Folder /\ t = <<"findFolder", "moveMark", "saveMark">>

Changes(t, c) ==
  \/ /\ c \in MarkLocals
     /\ \/ t = <<"loadMark", "saveMark">>
        \/ c.folder = None /\ t = <<"loadMark", "moveMark", "saveMark">>
        \/ c.folder \in Folder /\ t = <<"loadMark", "findFolder", "moveMark", "saveMark">>
  \/ Loaded(t, c)

\* What was in a folder when it was read.
Copies == UNION {[S -> BookmarkRow] : S \in SUBSET Bookmark}

FolderLocals == [user : Users, post : {None}, began : Nat, folder : Folder, copies : Copies \cup {None}]

Foldering(t, c) ==
  /\ c \in FolderLocals
  /\ \/ t = <<"loadFolder", "saveFolder">>
     \/ c.copies \in Copies /\ t = <<"saveFolder">>

Shape(t, c) ==
  \/ t = <<>> /\ c = None
  \/ Reporting(t, c) \/ Moderating(t, c) \/ Liking(t, c) \/ Viewing(t, c)
  \/ Commenting(t, c) \/ Following(t, c) \/ Notifying(t, c) \/ EditingOne(t, c)
  \/ CreatingPost(t, c) \/ UpdatingPost(t, c) \/ Listing(t, c)
  \/ Toggling(t, c) \/ Changes(t, c) \/ Foldering(t, c)

RequestsOK ==
  /\ todo = [r \in Requests |-> todo[r]]
  /\ call = [r \in Requests |-> call[r]]
  /\ \A r \in Requests : Shape(todo[r], call[r])

-----------------------------------------------------------------------------
(* The tables, apart from what bookmarks and counters promise.             *)

\* A folder's copies are bookmarks of its owner in it, of one post each.
CopiesOK(c) ==
  /\ IsFiniteSet(DOMAIN c.copies)
  /\ \A b \in DOMAIN c.copies : c.copies[b].user = c.user /\ c.copies[b].folder = c.folder
  /\ \A a, b \in DOMAIN c.copies : c.copies[a].post = c.copies[b].post => a = b

FollowsCounted ==
  /\ IsFiniteSet(follows)
  /\ \A u \in Users :
       /\ following[u] = Cardinality({x \in follows : x[1] = u})
       /\ followers[u] = Cardinality({x \in follows : x[2] = u})

ReportsFit == ModerationTypeOK /\ \A x \in reports : Exists(x.post)

TagsFit == PostTagsTypeOK /\ DOMAIN lists = Lists /\ DOMAIN asked = Post

ReactionsFit ==
  /\ ReactionsTypeOK
  /\ \A c \in DOMAIN comments : Exists(comments[c].post)
  /\ IsFiniteSet(likes) /\ IsFiniteSet(views)

MarksFit ==
  /\ BookmarksTypeOK
  /\ \A b \in DOMAIN bookmarks : Exists(bookmarks[b].post)
  /\ IsFiniteSet(DOMAIN bookmarks)

RowsOK ==
  /\ PostsTypeOK /\ ReportsFit /\ TagsFit /\ ReactionsFit /\ MarksFit
  /\ NotificationsTypeOK /\ FollowsTypeOK

-----------------------------------------------------------------------------
(* The moderation log.                                                     *)

\* Who holds the lock of a post's row is alone, and what it checked still holds.
LocksHold ==
  /\ \A r \in Requests : At(r, "decide") => Exists(call[r].post) /\ Applies(call[r].post, call[r].kind)
  /\ \A q, r \in Requests : At(q, "decide") /\ At(r, "decide") /\ call[q].post = call[r].post => q = r

\* The log knows no post but those that are there, no report is ahead of it, and
\* it knows the post of a report it closed, even one that came back.
LogBehind ==
  /\ \A i \in DOMAIN decisions : Exists(decisions[i].post) \/ decisions[i].post = None
  /\ \A x \in reports :
       /\ x.made <= Len(decisions)
       /\ IF x.status = "pending" THEN x.by = 0
          ELSE x.by \in DOMAIN decisions /\ decisions[x.by].post = x.post

-----------------------------------------------------------------------------
(* An id is given out once: all who hold it mean the same row by it.       *)

\* The bookmarks a request has read and may write back: id, post and user.
HeldMarks(r) ==
  IF Loaded(todo[r], call[r]) THEN {<<call[r].mark, call[r].row.post, call[r].row.user>>}
  ELSE IF At(r, "saveFolder")
  THEN {<<b, call[r].copies[b].post, call[r].copies[b].user>> : b \in DOMAIN call[r].copies}
  ELSE {}

Marks == {<<b, bookmarks[b].post, bookmarks[b].user>> : b \in DOMAIN bookmarks}

KnownMarks == Marks \cup UNION {HeldMarks(r) : r \in Requests}

MarksAgree ==
  /\ \A x, y \in KnownMarks : x[1] = y[1] => x = y
  /\ \A x \in KnownMarks : x[1] \in DOMAIN bookmarks \cup gone /\ x[2] \in DOMAIN posts \cup gone

\* The folders a request takes for its user's own: id and owner.
HeldFolders(r) ==
  LET mine(f) == {<<f, call[r].user>>} \ {<<None, call[r].user>>} IN
  IF Loaded(todo[r], call[r])
  THEN mine(call[r].row.was) \cup mine(call[r].row.folder)
         \cup (IF todo[r] = <<"moveMark", "saveMark">> THEN mine(call[r].folder) ELSE {})
  ELSE IF At(r, "insertMark") THEN mine(call[r].folder)
  ELSE IF At(r, "saveFolder") THEN mine(call[r].folder)
  ELSE {}

KnownFolders == {<<f, folders[f]>> : f \in DOMAIN folders} \cup UNION {HeldFolders(r) : r \in Requests}

FoldersAgree ==
  /\ \A x, y \in KnownFolders : x[1] = y[1] => x = y
  /\ \A x \in KnownFolders : x[1] \in DOMAIN folders \cup gone

CopiesAgree == \A r \in Requests : At(r, "saveFolder") => CopiesOK(call[r])

BookmarksOK == MarksAgree /\ FoldersAgree /\ CopiesAgree /\ BookmarksInOrder

-----------------------------------------------------------------------------
(* Tags.                                                                   *)

\* The request has found the tags of all names but those it has yet to look up.
FoundOK(c) == c.names \subseteq c.wants /\ {x.name : x \in c.found} = c.wants \ c.names

Writing(t, c) == CreatingPost(t, c) \/ UpdatingPost(t, c)

\* A request whose tags are attached undisturbed has all of them on the post.
TagsOK ==
  /\ \A r \in Requests : Writing(todo[r], call[r]) => FoundOK(call[r])
  /\ \A r \in Requests : At(r, "detach") /\ asked[call[r].post] = r =>
       {call[r].post} \X Ids(r) \subseteq tagged
  /\ TagsAsAsked

-----------------------------------------------------------------------------
(* Hidden posts.                                                           *)

\* The post was open at some moment since the request began, or is gone by now.
Seen(r, p) == p \in gone \/ OpenSince(p, call[r].began)

PastOpenPost == {<<"insertReport">>, <<"notLiked", "insertLike">>, <<"insertLike">>,
                 <<"findView", "insertView", "mark">>, <<"insertView", "mark">>,
                 <<"insertComment", "notify">>, <<"findFolder", "insertMark">>, <<"insertMark">>}

SeenOpen ==
  \A r \in Requests :
    /\ todo[r] # <<>> => call[r].began <= Len(decisions)
    /\ todo[r] \in PastOpenPost => Seen(r, call[r].post)
    /\ todo[r] = <<"findMark">> /\ ~call[r].hidden => Seen(r, call[r].post)
    /\ todo[r] = <<"store">> => \A p \in call[r].shows : Seen(r, p)

-----------------------------------------------------------------------------

IInv ==
  /\ RequestsOK /\ RowsOK /\ FollowsCounted
  /\ LocksHold /\ LogBehind /\ LogAccounts
  /\ BookmarksOK /\ CountsMatchRows
  /\ TagsOK /\ SeenOpen
=============================================================================
