------------------------------ MODULE Bookmarks ------------------------------
(***************************************************************************)
(* Bookmarks and the folders they are kept in                              *)
(* (internal/service/bookmark_service.go, bookmark_repository.go), with    *)
(* the trigger that counts the bookmarks of a post in its row.             *)
(*                                                                         *)
(* Changes of a bookmark or a folder are made with GORM's Save on a record *)
(* that was read before, together with the records preloaded with it.      *)
(* Save inserts those that are gone by now: a post or a folder with a      *)
(* bookmark, the bookmarks with a folder.                                  *)
(***************************************************************************)
EXTENDS Posts

CONSTANTS
  Bookmark,  \* ids of bookmarks; each is given out once
  Folder     \* ids of folders; each is given out once

ASSUME BookmarksAssumption == None \notin Bookmark \cup Folder

VARIABLES
  bookmarks,  \* the post_bookmarks table
  folders     \* the bookmark_folders table: the owner of each folder

bookmarkVars == <<bookmarks, folders>>

BookmarkRow == [post : Post, user : Users, folder : Folder \cup {None}]

BookmarksTypeOK ==
  /\ DOMAIN bookmarks \subseteq Bookmark
  /\ bookmarks \in [DOMAIN bookmarks -> BookmarkRow]
  /\ DOMAIN folders \subseteq Folder
  /\ folders \in [DOMAIN folders -> Users]

BookmarksInit ==
  /\ bookmarks = [b \in {} |-> None]
  /\ folders = [f \in {} |-> None]

\* The bookmarks of a post, of one user or of all.
MarksOf(p, us) == {b \in DOMAIN bookmarks : bookmarks[b].post = p /\ bookmarks[b].user \in us}

\* The posts table after n more of p's bookmarks.
Counted(table, p, n) == [table EXCEPT ![p].bookmarks = @ + n]

-----------------------------------------------------------------------------
(* Toggling.                                                               *)

ToggleBookmark(r, u, p, f) ==
  /\ Enter(r, "bookmark", [user |-> u, post |-> p, began |-> Len(decisions),
                          folder |-> f, hidden |-> FALSE, mark |-> None],
           <<"findToggled", "findMark">>)
  /\ UNCHANGED <<postVars, bookmarkVars>>

\* GetPostByID: the row is looked at later.
FindToggled(r) ==
  LET p == call[r].post IN
  /\ At(r, "findToggled")
  /\ IF Exists(p) THEN AdvanceWith(r, [call[r] EXCEPT !.hidden = posts[p].hidden]) ELSE Quit(r)
  /\ UNCHANGED <<postVars, bookmarkVars>>

\* A bookmark that is there goes, whatever the post; a hidden post gets no new one.
FindMark(r) ==
  LET mine == MarksOf(call[r].post, {call[r].user}) IN
  /\ At(r, "findMark")
  /\ IF mine # {} THEN \E b \in mine : Go(r, <<"deleteMark">>, [call[r] EXCEPT !.mark = b])
     ELSE IF call[r].hidden THEN Quit(r)
     ELSE Go(r, IF call[r].folder = None THEN <<"insertMark">> ELSE <<"findFolder", "insertMark">>, call[r])
  /\ UNCHANGED <<postVars, bookmarkVars>>

DeleteMark(r) ==
  LET b == call[r].mark IN
  /\ At(r, "deleteMark")
  /\ ~Locked(call[r].post)
  /\ IF b \in DOMAIN bookmarks
     THEN /\ bookmarks' = Without(bookmarks, {b})
          /\ posts' = Counted(posts, bookmarks[b].post, -1)
          /\ gone' = gone \cup {b}
     ELSE UNCHANGED <<bookmarks, posts, gone>>
  /\ Quit(r)
  /\ UNCHANGED <<decisions, folders>>

\* Mistake: whose folder it is does not matter.
FindAnyFolder(r) ==
  /\ At(r, "findFolder")
  /\ Check(r, call[r].folder \in DOMAIN folders)
  /\ UNCHANGED <<postVars, bookmarkVars>>

\* FindFolderByID: a folder of the user's own.
FindFolder(r) ==
  LET f == call[r].folder IN
  /\ At(r, "findFolder")
  /\ Check(r, f \in DOMAIN folders /\ folders[f] = call[r].user)
  /\ UNCHANGED <<postVars, bookmarkVars>>

\* CreateBookmark; foreign keys and the unique index may refuse it.
InsertMark(r) ==
  LET row == [post |-> call[r].post, user |-> call[r].user, folder |-> call[r].folder] IN
  /\ At(r, "insertMark")
  /\ ~Locked(row.post)
  /\ IF Exists(row.post) /\ MarksOf(row.post, {row.user}) = {} /\ row.folder \in {None} \cup DOMAIN folders
     THEN /\ \E b \in Fresh(Bookmark, bookmarks) : bookmarks' = With(bookmarks, b, row)
          /\ posts' = Counted(posts, row.post, 1)
     ELSE UNCHANGED <<bookmarks, posts>>
  /\ Quit(r)
  /\ UNCHANGED <<decisions, gone, folders>>

-----------------------------------------------------------------------------
(* Changing.                                                               *)

Changing(u, b, f) ==
  [user |-> u, post |-> None, began |-> Len(decisions), mark |-> b, folder |-> f, row |-> None, copy |-> None]

UpdateBookmark(r, u, b) ==
  /\ Enter(r, "mark", Changing(u, b, None), <<"loadMark", "saveMark">>)
  /\ UNCHANGED <<postVars, bookmarkVars>>

\* To folder f, or out of any.
MoveBookmark(r, u, b, f) ==
  /\ Enter(r, "mark", Changing(u, b, f),
           IF f = None THEN <<"loadMark", "moveMark", "saveMark">>
           ELSE <<"loadMark", "findFolder", "moveMark", "saveMark">>)
  /\ UNCHANGED <<postVars, bookmarkVars>>

\* The bookmark, and the folder it was in when it was read.
Preloaded(b) ==
  [was |-> bookmarks[b].folder, folder |-> bookmarks[b].folder,
   post |-> bookmarks[b].post, user |-> bookmarks[b].user]

\* FindBookmarkByID preloads the post and the folder.  A preload that finds them
\* gone leads to a Save that fails.
LoadMark(r) ==
  LET b == call[r].mark IN
  /\ At(r, "loadMark")
  /\ IF b \in DOMAIN bookmarks /\ bookmarks[b].user = call[r].user
     THEN AdvanceWith(r, [call[r] EXCEPT !.row = Preloaded(b),
                                         !.copy = posts[bookmarks[b].post]])
     ELSE Quit(r)
  /\ UNCHANGED <<postVars, bookmarkVars>>

MoveMark(r) ==
  /\ At(r, "moveMark")
  /\ AdvanceWith(r, [call[r] EXCEPT !.row.folder = call[r].folder])
  /\ UNCHANGED <<postVars, bookmarkVars>>

\* Save first inserts the preloaded post and folder, if they are gone ...
PostsSaved(r) == IF Exists(call[r].row.post) THEN posts ELSE With(posts, call[r].row.post, call[r].copy)

FoldersSaved(r) ==
  LET was == call[r].row.was IN
  IF was \in {None} \cup DOMAIN folders THEN folders ELSE With(folders, was, call[r].user)

\* ... and takes the folder's id from the preloaded folder, if there is one.
RowSaved(r) ==
  LET row == call[r].row IN
  [post |-> row.post, user |-> row.user, folder |-> IF row.was = None THEN row.folder ELSE row.was]

\* The foreign key of the row's folder holds.
FolderHolds(r) == RowSaved(r).folder \in {None} \cup DOMAIN FoldersSaved(r)

\* The UPDATE.  If it meets no row it is committed all the same.
SaveMark(r) ==
  LET b == call[r].mark IN
  /\ At(r, "saveMark")
  /\ IF b \notin DOMAIN bookmarks \/ FolderHolds(r)
     THEN posts' = PostsSaved(r) /\ folders' = FoldersSaved(r)
     ELSE UNCHANGED <<posts, folders>>
  /\ IF b \in DOMAIN bookmarks
     THEN /\ bookmarks' = IF FolderHolds(r) THEN [bookmarks EXCEPT ![b] = RowSaved(r)] ELSE bookmarks
          /\ Quit(r)
     ELSE /\ Go(r, <<"putMark">>, call[r])
          /\ UNCHANGED bookmarks
  /\ UNCHANGED <<decisions, gone>>

\* Then Save inserts the row.
PutMark(r) ==
  LET b == call[r].mark
      row == RowSaved(r)
  IN
  /\ At(r, "putMark")
  /\ ~Locked(row.post)
  /\ IF FolderHolds(r) /\ MarksOf(row.post, {row.user}) \subseteq {b}
     THEN /\ posts' = IF b \in DOMAIN bookmarks THEN PostsSaved(r) ELSE Counted(PostsSaved(r), row.post, 1)
          /\ folders' = FoldersSaved(r)
          /\ bookmarks' = With(bookmarks, b, row)
     ELSE UNCHANGED <<posts, bookmarkVars>>
  /\ Quit(r)
  /\ UNCHANGED <<decisions, gone>>

-----------------------------------------------------------------------------
(* Folders.                                                                *)

CreateFolder(r, u) ==
  /\ AtOnce(r, "folder")
  /\ \E f \in Fresh(Folder, folders) : folders' = With(folders, f, u)
  /\ UNCHANGED <<postVars, bookmarks>>

UpdateFolder(r, u, f) ==
  /\ Enter(r, "folder", [user |-> u, post |-> None, began |-> Len(decisions), folder |-> f, copies |-> None],
           <<"loadFolder", "saveFolder">>)
  /\ UNCHANGED <<postVars, bookmarkVars>>

\* FindFolderByID preloads the bookmarks of the folder.
LoadFolder(r) ==
  LET f == call[r].folder IN
  /\ At(r, "loadFolder")
  /\ IF f \in DOMAIN folders /\ folders[f] = call[r].user
     THEN AdvanceWith(r, [call[r] EXCEPT !.copies =
            [b \in {b \in DOMAIN bookmarks : bookmarks[b].folder = f} |-> bookmarks[b]]])
     ELSE Quit(r)
  /\ UNCHANGED <<postVars, bookmarkVars>>

\* The bookmarks Save inserts again.
Lost(r) == DOMAIN call[r].copies \ DOMAIN bookmarks

\* Foreign keys and the unique index let it.
MayReturn(r) ==
  \A b \in Lost(r) : LET row == call[r].copies[b] IN
    Exists(row.post) /\ MarksOf(row.post, {row.user}) = {}

\* Save: the UPDATE of the folder and its bookmarks are one transaction.  An
\* UPDATE that meets no row inserts the folder, if it was empty.
SaveFolder(r) ==
  LET f == call[r].folder
      copies == call[r].copies
      back == [p \in DOMAIN posts |-> Cardinality({b \in Lost(r) : copies[b].post = p})]
  IN
  /\ At(r, "saveFolder")
  /\ \A b \in Lost(r) : ~Locked(copies[b].post)
  /\ IF f \in DOMAIN folders /\ MayReturn(r)
     THEN /\ bookmarks' = [b \in DOMAIN bookmarks \cup DOMAIN copies |->
                             IF b \in Lost(r) THEN copies[b]
                             ELSE IF b \in DOMAIN copies THEN [bookmarks[b] EXCEPT !.folder = f]
                             ELSE bookmarks[b]]
          /\ posts' = [p \in DOMAIN posts |-> [posts[p] EXCEPT !.bookmarks = @ + back[p]]]
     ELSE UNCHANGED <<bookmarks, posts>>
  /\ folders' = IF f \notin DOMAIN folders /\ DOMAIN copies = {} THEN With(folders, f, call[r].user) ELSE folders
  /\ Quit(r)
  /\ UNCHANGED <<decisions, gone>>

\* ON DELETE SET NULL takes the bookmarks out of it.
DeleteFolder(r, u, f) ==
  /\ AtOnce(r, "folder")
  /\ f \in DOMAIN folders /\ folders[f] = u
  /\ folders' = Without(folders, {f})
  /\ bookmarks' = [b \in DOMAIN bookmarks |->
                     IF bookmarks[b].folder = f THEN [bookmarks[b] EXCEPT !.folder = None] ELSE bookmarks[b]]
  /\ gone' = gone \cup {f}
  /\ UNCHANGED <<posts, decisions>>

\* The bookmarks of a deleted post go with it.
CascadeBookmarks(p) ==
  /\ bookmarks' = Without(bookmarks, MarksOf(p, Users))
  /\ UNCHANGED folders

BookmarksStart(r) ==
  \/ \E u \in Users, f \in Folder \cup {None} :
       \/ \E p \in Post : ToggleBookmark(r, u, p, f)
       \/ \E b \in Bookmark : MoveBookmark(r, u, b, f)
  \/ \E u \in Users, b \in Bookmark : UpdateBookmark(r, u, b)
  \/ \E u \in Users : CreateFolder(r, u)
  \/ \E u \in Users, f \in Folder : UpdateFolder(r, u, f) \/ DeleteFolder(r, u, f)

BookmarksStep(r) ==
  \/ FindToggled(r) \/ FindMark(r) \/ DeleteMark(r) \/ FindFolder(r) \/ InsertMark(r)
  \/ LoadMark(r) \/ MoveMark(r) \/ SaveMark(r) \/ PutMark(r) \/ LoadFolder(r) \/ SaveFolder(r)

-----------------------------------------------------------------------------
(* Properties.                                                             *)

\* Users keep their bookmarks in folders of their own, and have one bookmark of
\* a post, though Save brings back rows that others removed meanwhile.
BookmarksInOrder ==
  \A b \in DOMAIN bookmarks :
    /\ MarksOf(bookmarks[b].post, {bookmarks[b].user}) = {b}
    /\ bookmarks[b].folder # None => bookmarks[b].folder \in DOMAIN folders /\ folders[bookmarks[b].folder] = bookmarks[b].user
=============================================================================
