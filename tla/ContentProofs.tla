---------------------------- MODULE ContentProofs ----------------------------
(***************************************************************************)
(* Theorems on posts and what hangs on them, for any number of requests,   *)
(* users, posts, tags, bookmarks and folders.                              *)
(***************************************************************************)
EXTENDS ContentInvariant, FiniteSetTheorems, SequenceTheorems, WellFoundedInduction, TLAPS

-----------------------------------------------------------------------------
(* Where a request is, by its next statement.                              *)

LEMMA AtCommon ==
  ASSUME RequestsOK, NEW r \in Requests
  PROVE  /\ At(r, "findPost") => call[r] \in Locals /\ todo[r] = <<"findPost", "liked", "deleteLike">>
         /\ At(r, "findOpenPost") =>
              \/ /\ call[r] \in Locals
                 /\ todo[r] \in {<<"findOpenPost", "notLiked", "insertLike">>,
                                 <<"findOpenPost", "findView", "insertView", "mark">>}
              \/ /\ call[r] \in TellLocals /\ call[r].post \in Post
                 /\ todo[r] = <<"findOpenPost", "insertComment", "notify">>
         /\ At(r, "notify") => call[r] \in TellLocals /\ call[r].tell \in Users /\ todo[r] = <<"notify">>
  BY DEF RequestsOK, At, Shape, Reporting, Moderating, Liking, Viewing, Commenting, Following, Notifying,
         EditingOne, CreatingPost, UpdatingPost, Listing, Toggling, Changes, Loaded, Foldering

LEMMA AtModeration ==
  ASSUME RequestsOK, NEW r \in Requests
  PROVE  /\ At(r, "findReported") => call[r] \in Locals /\ todo[r] = <<"findReported", "insertReport">>
         /\ At(r, "insertReport") => call[r] \in Locals /\ todo[r] = <<"insertReport">>
         /\ At(r, "lockPost") => call[r] \in ModerateLocals /\ todo[r] = <<"lockPost", "decide">>
         /\ At(r, "decide") => call[r] \in ModerateLocals /\ todo[r] = <<"decide">>
  BY DEF RequestsOK, At, Shape, Reporting, Moderating, Liking, Viewing, Commenting, Following, Notifying,
         EditingOne, CreatingPost, UpdatingPost, Listing, Toggling, Changes, Loaded, Foldering

LEMMA AtReactions ==
  ASSUME RequestsOK, NEW r \in Requests
  PROVE  /\ At(r, "notLiked") => call[r] \in Locals /\ todo[r] = <<"notLiked", "insertLike">>
         /\ At(r, "insertLike") => call[r] \in Locals /\ todo[r] = <<"insertLike">>
         /\ At(r, "liked") => call[r] \in Locals /\ todo[r] = <<"liked", "deleteLike">>
         /\ At(r, "deleteLike") => call[r] \in Locals /\ todo[r] = <<"deleteLike">>
         /\ At(r, "findView") => call[r] \in Locals /\ todo[r] = <<"findView", "insertView", "mark">>
         /\ At(r, "insertView") => call[r] \in Locals /\ todo[r] = <<"insertView", "mark">>
         /\ At(r, "mark") => call[r] \in Locals /\ todo[r] = <<"mark">>
         /\ At(r, "insertComment") =>
              call[r] \in TellLocals /\ call[r].post \in Post /\ todo[r] = <<"insertComment", "notify">>
         /\ At(r, "ownComment") =>
              /\ call[r] \in EditLocals
              /\ todo[r] \in {<<"ownComment", "saveComment">>, <<"ownComment", "deleteComment">>}
         /\ At(r, "anyComment") => call[r] \in EditLocals /\ todo[r] = <<"anyComment", "deleteComment">>
         /\ At(r, "saveComment") =>
              call[r] \in EditLocals /\ call[r].row \in CommentRow /\ todo[r] = <<"saveComment">>
         /\ At(r, "deleteComment") =>
              call[r] \in EditLocals /\ call[r].row \in CommentRow /\ todo[r] = <<"deleteComment">>
  BY DEF RequestsOK, At, Shape, Reporting, Moderating, Liking, Viewing, Commenting, Following, Notifying,
         EditingOne, CreatingPost, UpdatingPost, Listing, Toggling, Changes, Loaded, Foldering

LEMMA AtTags ==
  ASSUME RequestsOK, NEW r \in Requests
  PROVE  /\ At(r, "findTag") =>
              /\ Writing(todo[r], call[r]) /\ call[r].names # {}
              /\ todo[r] \in {<<"findTag", "insertPost">>, <<"findTag", "findOwn", "attach", "detach">>}
         /\ At(r, "insertTag") =>
              /\ Writing(todo[r], call[r]) /\ call[r].tag \in call[r].names
              /\ todo[r] \in {<<"insertTag", "insertPost">>, <<"insertTag", "findOwn", "attach", "detach">>}
         /\ At(r, "findTagAgain") =>
              /\ Writing(todo[r], call[r]) /\ call[r].tag \in call[r].names
              /\ todo[r] \in {<<"findTagAgain", "insertPost">>, <<"findTagAgain", "findOwn", "attach", "detach">>}
         /\ At(r, "insertPost") =>
              CreatingPost(todo[r], call[r]) /\ call[r].names = {} /\ todo[r] = <<"insertPost">>
         /\ At(r, "findOwn") =>
              UpdatingPost(todo[r], call[r]) /\ call[r].names = {} /\ todo[r] = <<"findOwn", "attach", "detach">>
         /\ At(r, "attach") =>
              UpdatingPost(todo[r], call[r]) /\ call[r].names = {} /\ todo[r] = <<"attach", "detach">>
         /\ At(r, "detach") =>
              UpdatingPost(todo[r], call[r]) /\ call[r].names = {} /\ todo[r] = <<"detach">>
         /\ At(r, "lookUp") => call[r] \in ListLocals /\ todo[r] = <<"lookUp", "query", "store">>
         /\ At(r, "query") => call[r] \in ListLocals /\ todo[r] = <<"query", "store">>
         /\ At(r, "store") => call[r] \in ListLocals /\ todo[r] = <<"store">>
  <1>1. At(r, "findTag") \/ At(r, "insertTag") \/ At(r, "findTagAgain") \/ At(r, "insertPost")
          \/ At(r, "findOwn") \/ At(r, "attach") \/ At(r, "detach")
        => CreatingPost(todo[r], call[r]) \/ UpdatingPost(todo[r], call[r])
    BY DEF RequestsOK, At, Shape, Reporting, Moderating, Liking, Viewing, Commenting, Following, Notifying,
           EditingOne, Listing, Toggling, Changes, Loaded, Foldering
  <1>2. ASSUME At(r, "findTag"), CreatingPost(todo[r], call[r])
        PROVE  call[r].names # {} /\ todo[r] = <<"findTag", "insertPost">>
    BY <1>2 DEF At, CreatingPost
  <1>3. ASSUME At(r, "findTag"), UpdatingPost(todo[r], call[r])
        PROVE  call[r].names # {} /\ todo[r] = <<"findTag", "findOwn", "attach", "detach">>
    BY <1>3 DEF At, UpdatingPost
  <1>4. At(r, "insertTag") =>
           /\ call[r].tag \in call[r].names
           /\ todo[r] \in {<<"insertTag", "insertPost">>, <<"insertTag", "findOwn", "attach", "detach">>}
    BY <1>1 DEF At, CreatingPost, UpdatingPost
  <1>5. At(r, "findTagAgain") =>
           /\ call[r].tag \in call[r].names
           /\ todo[r] \in {<<"findTagAgain", "insertPost">>, <<"findTagAgain", "findOwn", "attach", "detach">>}
    BY <1>1 DEF At, CreatingPost, UpdatingPost
  <1>6. At(r, "insertPost") =>
           CreatingPost(todo[r], call[r]) /\ call[r].names = {} /\ todo[r] = <<"insertPost">>
    BY <1>1 DEF At, CreatingPost, UpdatingPost
  <1>7. At(r, "findOwn") \/ At(r, "attach") \/ At(r, "detach") =>
           UpdatingPost(todo[r], call[r]) /\ call[r].names = {}
    BY <1>1 DEF At, CreatingPost, UpdatingPost
  <1>8. /\ At(r, "findOwn") => todo[r] = <<"findOwn", "attach", "detach">>
        /\ At(r, "attach") => todo[r] = <<"attach", "detach">>
        /\ At(r, "detach") => todo[r] = <<"detach">>
    BY <1>1 DEF At, CreatingPost, UpdatingPost
  <1>9. /\ At(r, "lookUp") => call[r] \in ListLocals /\ todo[r] = <<"lookUp", "query", "store">>
        /\ At(r, "query") => call[r] \in ListLocals /\ todo[r] = <<"query", "store">>
        /\ At(r, "store") => call[r] \in ListLocals /\ todo[r] = <<"store">>
    BY DEF RequestsOK, At, Shape, Reporting, Moderating, Liking, Viewing, Commenting, Following, Notifying,
           EditingOne, CreatingPost, UpdatingPost, Listing, Toggling, Changes, Loaded, Foldering
  <1> QED BY <1>1, <1>2, <1>3, <1>4, <1>5, <1>6, <1>7, <1>8, <1>9 DEF Writing

LEMMA AtBookmarks ==
  ASSUME RequestsOK, NEW r \in Requests
  PROVE  /\ At(r, "findToggled") => call[r] \in ToggleLocals /\ todo[r] = <<"findToggled", "findMark">>
         /\ At(r, "findMark") => call[r] \in ToggleLocals /\ todo[r] = <<"findMark">>
         /\ At(r, "insertMark") => call[r] \in ToggleLocals /\ todo[r] = <<"insertMark">>
         /\ At(r, "deleteMark") => call[r] \in ToggleLocals /\ todo[r] = <<"deleteMark">>
         /\ At(r, "findFolder") =>
              \/ call[r] \in ToggleLocals /\ call[r].folder \in Folder /\ todo[r] = <<"findFolder", "insertMark">>
              \/ /\ Loaded(todo[r], call[r]) /\ call[r].folder \in Folder
                 /\ todo[r] = <<"findFolder", "moveMark", "saveMark">>
         /\ At(r, "loadMark") =>
              /\ call[r] \in MarkLocals
              /\ \/ todo[r] = <<"loadMark", "saveMark">>
                 \/ call[r].folder = None /\ todo[r] = <<"loadMark", "moveMark", "saveMark">>
                 \/ call[r].folder \in Folder /\ todo[r] = <<"loadMark", "findFolder", "moveMark", "saveMark">>
         /\ At(r, "moveMark") => Loaded(todo[r], call[r]) /\ todo[r] = <<"moveMark", "saveMark">>
         /\ At(r, "saveMark") => Loaded(todo[r], call[r]) /\ todo[r] = <<"saveMark">>
         /\ At(r, "putMark") => Loaded(todo[r], call[r]) /\ todo[r] = <<"putMark">>
         /\ At(r, "loadFolder") => call[r] \in FolderLocals /\ todo[r] = <<"loadFolder", "saveFolder">>
         /\ At(r, "saveFolder") =>
              call[r] \in FolderLocals /\ call[r].copies \in Copies /\ todo[r] = <<"saveFolder">>
  BY DEF RequestsOK, At, Shape, Reporting, Moderating, Liking, Viewing, Commenting, Following, Notifying,
         EditingOne, CreatingPost, UpdatingPost, Writing, Listing, Toggling, Changes, Loaded, Foldering

LEMMA AtFollows ==
  ASSUME RequestsOK, NEW r \in Requests
  PROVE  \A s \in {"notFollowing", "insertFollow", "following", "deleteFollow"} : At(r, s) =>
           /\ call[r] \in TellLocals /\ call[r].post = None /\ call[r].tell \in Users
           /\ todo[r] = CASE s = "notFollowing" -> <<"notFollowing", "insertFollow", "notify">>
                          [] s = "insertFollow" -> <<"insertFollow", "notify">>
                          [] s = "following" -> <<"following", "deleteFollow">>
                          [] s = "deleteFollow" -> <<"deleteFollow">>
  BY DEF RequestsOK, At, Shape, Reporting, Moderating, Liking, Viewing, Commenting, Following, Notifying,
         EditingOne, CreatingPost, UpdatingPost, Writing, Listing, Toggling, Changes, Loaded, Foldering

-----------------------------------------------------------------------------
(* How a request moves.                                                    *)

\* The request moves to statements it may come to, with fitting locals; no
\* other does.
Moved(r) ==
  /\ todo' = [todo EXCEPT ![r] = todo'[r]] /\ call' = [call EXCEPT ![r] = call'[r]]
  /\ Shape(todo'[r], call'[r])

LEMMA MoveOn ==
  ASSUME RequestsOK, NEW r \in Requests, NEW t, NEW c, Go(r, t, c), t # <<>> => Shape(t, c)
  PROVE  /\ Moved(r)
         /\ t # <<>> => todo'[r] = t /\ call'[r] = c
         /\ t = <<>> => todo'[r] = <<>> /\ call'[r] = None
  BY DEF Go, Quit, RequestsOK, Moved, Shape

LEMMA MoveOut ==
  ASSUME RequestsOK, NEW r \in Requests, Quit(r)
  PROVE  Moved(r) /\ todo'[r] = <<>> /\ call'[r] = None
  BY DEF Quit, RequestsOK, Moved, Shape

LEMMA MoveIn ==
  ASSUME RequestsOK, NEW r \in Requests, NEW op, NEW t, NEW c, Enter(r, op, c, t), Shape(t, c)
  PROVE  Moved(r) /\ todo'[r] = t /\ call'[r] = c
  BY DEF Enter, RequestsOK, Moved, Shape

LEMMA MoveNot ==
  ASSUME RequestsOK, NEW r \in Requests, UNCHANGED <<todo, call>>
  PROVE  Moved(r)
  BY DEF RequestsOK, Moved

LEMMA Alone ==
  ASSUME RequestsOK, NEW r \in Requests, Moved(r)
  PROVE  /\ RequestsOK'
         /\ \A q \in Requests : q # r => todo'[q] = todo[q] /\ call'[q] = call[q]
  BY DEF RequestsOK, Moved

LEMMA Tail1 == ASSUME NEW t, NEW a, t = <<a>> PROVE Tail(t) = <<>>
  OBVIOUS

LEMMA Tail2 == ASSUME NEW t, NEW a, NEW b, t = <<a, b>> PROVE Tail(t) = <<b>>
  OBVIOUS

LEMMA Tail3 == ASSUME NEW t, NEW a, NEW b, NEW c, t = <<a, b, c>> PROVE Tail(t) = <<b, c>>
  OBVIOUS

LEMMA Tail4 == ASSUME NEW t, NEW a, NEW b, NEW c, NEW d, t = <<a, b, c, d>> PROVE Tail(t) = <<b, c, d>>
  OBVIOUS

\* Most statements leave the locals alone, and the rest of the handler follows.
Reads == {"insertComment", "ownComment", "anyComment", "findTag", "insertTag", "findTagAgain",
          "findMark", "loadMark", "loadFolder"}

LEMMA Suffix ==
  ASSUME NEW t, NEW c, Shape(t, c), t # <<>>, Tail(t) # <<>>, Head(t) \notin Reads
  PROVE  Shape(Tail(t), c)
  <1> USE DEF Reads
  <1>1. CASE Reporting(t, c)
    BY <1>1, Tail1, Tail2, Tail3, Tail4 DEF Reporting, Shape
  <1>2. CASE Moderating(t, c)
    BY <1>2, Tail1, Tail2, Tail3, Tail4 DEF Moderating, Shape
  <1>3. CASE Liking(t, c)
    BY <1>3, Tail1, Tail2, Tail3, Tail4 DEF Liking, Shape
  <1>4. CASE Viewing(t, c)
    BY <1>4, Tail1, Tail2, Tail3, Tail4 DEF Viewing, Shape
  <1>5. CASE Commenting(t, c)
    BY <1>5, Tail1, Tail2, Tail3, Tail4 DEF Commenting, Shape
  <1>6. CASE Following(t, c)
    BY <1>6, Tail1, Tail2, Tail3, Tail4 DEF Following, Notifying, Shape
  <1>7. CASE Notifying(t, c) \/ EditingOne(t, c)
    BY <1>7, Tail1, Tail2, Tail3, Tail4 DEF Notifying, EditingOne, Shape
  <1>8. CASE CreatingPost(t, c)
    BY <1>8, Tail1, Tail2, Tail3, Tail4 DEF CreatingPost, Shape
  <1>9. CASE UpdatingPost(t, c)
    BY <1>9, Tail1, Tail2, Tail3, Tail4 DEF UpdatingPost, Shape
  <1>10. CASE Listing(t, c)
    BY <1>10, Tail1, Tail2, Tail3, Tail4 DEF Listing, Shape
  <1>11. CASE Toggling(t, c)
    BY <1>11, Tail1, Tail2, Tail3, Tail4 DEF Toggling, Shape
  <1>12. CASE Changes(t, c)
    BY <1>12, Tail1, Tail2, Tail3, Tail4 DEF Changes, Loaded, Shape
  <1>13. CASE Foldering(t, c)
    BY <1>13, Tail1, Tail2, Tail3, Tail4 DEF Foldering, Shape
  <1> QED BY <1>1, <1>2, <1>3, <1>4, <1>5, <1>6, <1>7, <1>8, <1>9, <1>10, <1>11, <1>12, <1>13 DEF Shape

LEMMA MoveAlong ==
  ASSUME RequestsOK, NEW r \in Requests, todo[r] # <<>>, Head(todo[r]) \notin Reads, Advance(r) \/ Quit(r)
  PROVE  /\ Moved(r)
         /\ todo'[r] \in {<<>>, Tail(todo[r])}
         /\ call'[r] \in {None, call[r]}
  <1>1. Tail(todo[r]) # <<>> => Shape(Tail(todo[r]), call[r])
    BY Suffix DEF RequestsOK
  <1> QED BY <1>1, MoveOn, MoveOut DEF Advance, AdvanceWith

LEMMA CommonMoves ==
  ASSUME RequestsOK, NEW r \in Requests, Common(r)
  PROVE  /\ Moved(r)
         /\ todo'[r] \in {<<>>, <<"liked", "deleteLike">>, <<"notLiked", "insertLike">>,
                           <<"findView", "insertView", "mark">>, <<"insertComment", "notify">>}
  <1>1. CASE FindPost(r)
    <2>1. Moved(r) /\ todo'[r] \in {<<>>, Tail(todo[r])}
      BY <1>1, MoveAlong DEF FindPost, Check, At, Reads
    <2>2. todo[r] = <<"findPost", "liked", "deleteLike">>
      BY <1>1, AtCommon DEF FindPost
    <2> QED BY <2>1, <2>2
  <1>2. CASE FindOpenPost(r)
    <2>1. Moved(r) /\ todo'[r] \in {<<>>, Tail(todo[r])}
      BY <1>2, MoveAlong DEF FindOpenPost, Check, At, Reads
    <2> QED BY <1>2, <2>1, AtCommon, Tail3, Tail4 DEF FindOpenPost
  <1>3. CASE Fail(r)
    BY <1>3, MoveOut DEF Fail
  <1> QED BY <1>1, <1>2, <1>3 DEF Common

LEMMA ModerationMoves ==
  ASSUME RequestsOK, NEW r \in Requests, ModerationStep(r)
  PROVE  Moved(r) /\ todo'[r] \in {<<>>, <<"insertReport">>, <<"decide">>}
  <1>1. CASE FindReported(r)
    <2>1. Moved(r) /\ todo'[r] \in {<<>>, Tail(todo[r])}
      BY <1>1, MoveAlong DEF FindReported, Check, At, Reads
    <2>2. todo[r] = <<"findReported", "insertReport">>
      BY <1>1, AtModeration DEF FindReported
    <2> QED BY <2>1, <2>2
  <1>2. CASE LockPost(r)
    <2>1. Moved(r) /\ todo'[r] \in {<<>>, Tail(todo[r])}
      BY <1>2, MoveAlong DEF LockPost, Check, At, Reads
    <2>2. todo[r] = <<"lockPost", "decide">>
      BY <1>2, AtModeration DEF LockPost
    <2> QED BY <2>1, <2>2
  <1>3. CASE InsertReport(r) \/ Decide(r)
    BY <1>3, MoveOut DEF InsertReport, Decide
  <1> QED BY <1>1, <1>2, <1>3 DEF ModerationStep

LEMMA ReactionsMoves ==
  ASSUME RequestsOK, RowsOK, NEW r \in Requests, ReactionsStep(r)
  PROVE  /\ Moved(r)
         /\ todo'[r] \in {<<>>, <<"insertLike">>, <<"deleteLike">>, <<"insertView", "mark">>, <<"mark">>,
                           <<"notify">>, <<"saveComment">>, <<"deleteComment">>}
  <1>1. CASE CheckLike(r) /\ At(r, "notLiked")
    <2>1. Moved(r) /\ todo'[r] \in {<<>>, Tail(todo[r])}
      BY <1>1, MoveAlong DEF CheckLike, Check, At, Reads
    <2>2. todo[r] = <<"notLiked", "insertLike">>
      BY <1>1, AtReactions
    <2> QED BY <2>1, <2>2
  <1>2. CASE CheckLike(r) /\ At(r, "liked")
    <2>1. Moved(r) /\ todo'[r] \in {<<>>, Tail(todo[r])}
      BY <1>2, MoveAlong DEF CheckLike, Check, At, Reads
    <2>2. todo[r] = <<"liked", "deleteLike">>
      BY <1>2, AtReactions
    <2> QED BY <2>1, <2>2
  <1>3. CASE FindView(r)
    <2>1. todo[r] = <<"findView", "insertView", "mark">> /\ call[r] \in Locals
      BY <1>3, AtReactions DEF FindView
    <2>2. CASE Advance(r)
      <3>1. Moved(r) /\ todo'[r] \in {<<>>, Tail(todo[r])}
        BY <1>3, <2>2, MoveAlong DEF FindView, At, Reads
      <3> QED BY <2>1, <3>1
    <2>3. CASE Go(r, <<"mark">>, call[r])
      <3>1. Shape(<<"mark">>, call[r])
        BY <2>1 DEF Shape, Viewing
      <3>2. <<"mark">> # <<>>
        OBVIOUS
      <3> QED BY <2>3, <3>1, <3>2, MoveOn
    <2> QED BY <1>3, <2>2, <2>3 DEF FindView
  <1>4. CASE InsertView(r)
    <2>1. Moved(r) /\ todo'[r] \in {<<>>, Tail(todo[r])}
      BY <1>4, MoveAlong DEF InsertView, At, Reads
    <2>2. todo[r] = <<"insertView", "mark">>
      BY <1>4, AtReactions DEF InsertView
    <2> QED BY <2>1, <2>2
  <1>5. CASE InsertComment(r)
    <2>1. todo[r] = <<"insertComment", "notify">> /\ call[r] \in TellLocals /\ call[r].post \in Post
      BY <1>5, AtReactions DEF InsertComment
    <2>2. CASE Quit(r)
      BY <2>2, MoveOut
    <2>3. CASE Exists(call[r].post) /\ Go(r, <<"notify">>, [call[r] EXCEPT !.tell = posts[call[r].post].author])
      <3>1. posts[call[r].post].author \in Users
        BY <2>3 DEF Exists, RowsOK, PostsTypeOK, PostRow
      <3>2. Shape(<<"notify">>, [call[r] EXCEPT !.tell = posts[call[r].post].author])
        BY <2>1, <3>1 DEF Shape, Notifying, TellLocals
      <3> QED BY <2>3, <3>2, MoveOn
    <2> QED BY <1>5, <2>1, <2>2, <2>3 DEF InsertComment, AdvanceWith
  <1>6. CASE FindComment(r)
    <2>1. CASE Quit(r)
      BY <2>1, MoveOut
    <2>2. CASE /\ call[r].comment \in DOMAIN comments
               /\ Go(r, Tail(todo[r]), [call[r] EXCEPT !.row = comments[call[r].comment]])
      <3>1. /\ call[r] \in EditLocals
            /\ todo[r] \in {<<"ownComment", "saveComment">>, <<"ownComment", "deleteComment">>,
                            <<"anyComment", "deleteComment">>}
        BY <1>6, AtReactions DEF FindComment
      <3>2. Tail(todo[r]) \in {<<"saveComment">>, <<"deleteComment">>}
        BY <3>1, Tail2
      <3>3. comments[call[r].comment] \in CommentRow
        BY <2>2 DEF RowsOK, ReactionsFit, ReactionsTypeOK
      <3>4. Shape(Tail(todo[r]), [call[r] EXCEPT !.row = comments[call[r].comment]])
        BY <3>1, <3>2, <3>3 DEF Shape, EditingOne, EditLocals
      <3> QED BY <2>2, <3>2, <3>4, MoveOn
    <2> QED BY <1>6, <2>1, <2>2 DEF FindComment, AdvanceWith, There
  <1>7. CASE InsertLike(r) \/ DeleteLike(r) \/ MarkViewed(r) \/ SaveComment(r) \/ DeleteComment(r)
    BY <1>7, MoveOut DEF InsertLike, DeleteLike, MarkViewed, SaveComment, DeleteComment
  <1> QED BY <1>1, <1>2, <1>3, <1>4, <1>5, <1>6, <1>7 DEF ReactionsStep, CheckLike

LEMMA Prepend ==
  ASSUME NEW x
  PROVE  /\ <<x>> \o <<"insertPost">> = <<x, "insertPost">>
         /\ <<x>> \o <<"findOwn", "attach", "detach">> = <<x, "findOwn", "attach", "detach">>
  <1>1. <<x>> \o <<"insertPost">> = <<x, "insertPost">>
    <2> DEFINE S == {x, "insertPost"}
               u == <<x>> \o <<"insertPost">>
               v == <<x, "insertPost">>
    <2>1. <<x>> \in Seq(S) /\ <<"insertPost">> \in Seq(S) /\ v \in Seq(S)
      OBVIOUS
    <2>2. Len(<<x>>) = 1 /\ Len(<<"insertPost">>) = 1 /\ Len(v) = 2
      OBVIOUS
    <2> HIDE DEF S
    <2>3. /\ u \in Seq(S) /\ Len(u) = 2
          /\ \A i \in 1..2 : u[i] = IF i <= 1 THEN <<x>>[i] ELSE <<"insertPost">>[i - 1]
      BY <2>1, <2>2, ConcatProperties
    <2>4. u[1] = v[1] /\ u[2] = v[2]
      BY <2>3
    <2> HIDE DEF u, v
    <2>5. \A i \in 1..2 : u[i] = v[i]
      BY <2>4
    <2>6. u = v
      BY <2>1, <2>2, <2>3, <2>5, SeqEqual
    <2> QED BY <2>6 DEF u, v
  <1>2. <<x>> \o <<"findOwn", "attach", "detach">> = <<x, "findOwn", "attach", "detach">>
    <2> DEFINE S == {x, "findOwn", "attach", "detach"}
               u == <<x>> \o <<"findOwn", "attach", "detach">>
               v == <<x, "findOwn", "attach", "detach">>
    <2>1. <<x>> \in Seq(S) /\ <<"findOwn", "attach", "detach">> \in Seq(S) /\ v \in Seq(S)
      OBVIOUS
    <2>2. Len(<<x>>) = 1 /\ Len(<<"findOwn", "attach", "detach">>) = 3 /\ Len(v) = 4
      OBVIOUS
    <2> HIDE DEF S
    <2>3. /\ u \in Seq(S) /\ Len(u) = 4
          /\ \A i \in 1..4 : u[i] = IF i <= 1 THEN <<x>>[i] ELSE <<"findOwn", "attach", "detach">>[i - 1]
      BY <2>1, <2>2, ConcatProperties
    <2>4. u[1] = v[1] /\ u[2] = v[2] /\ u[3] = v[3] /\ u[4] = v[4]
      BY <2>3
    <2> HIDE DEF u, v
    <2>5. \A i \in 1..4 : u[i] = v[i]
      BY <2>4
    <2>6. u = v
      BY <2>1, <2>2, <2>3, <2>5, SeqEqual
    <2> QED BY <2>6 DEF u, v
  <1> QED BY <1>1, <1>2

\* What follows the loop over names.
Rests == {<<"insertPost">>, <<"findOwn", "attach", "detach">>}

\* A request that has found what it has, and has yet to look up the names it has.
WriteOK(rest, c) ==
  /\ c \in WriteLocals
  /\ IF rest = <<"insertPost">> THEN c.user \in Users /\ c.post = None
     ELSE rest = <<"findOwn", "attach", "detach">> /\ c.post \in Post

LEMMA AtName ==
  ASSUME RequestsOK, NEW r \in Requests, At(r, "findTag") \/ At(r, "insertTag") \/ At(r, "findTagAgain")
  PROVE  Tail(todo[r]) \in Rests /\ WriteOK(Tail(todo[r]), call[r])
  <1>1. /\ Writing(todo[r], call[r])
        /\ \E s \in {"findTag", "insertTag", "findTagAgain"} :
              todo[r] \in {<<s, "insertPost">>, <<s, "findOwn", "attach", "detach">>}
    BY AtTags
  <1>2. CASE CreatingPost(todo[r], call[r])
    <2>1. Tail(todo[r]) = <<"insertPost">>
      BY <1>1, <1>2, Tail2 DEF CreatingPost
    <2> QED BY <1>2, <2>1 DEF CreatingPost, WriteOK, Rests
  <1>3. CASE UpdatingPost(todo[r], call[r])
    <2>1. PICK s \in {"findTag", "insertTag", "findTagAgain"} :
            todo[r] \in {<<s, "insertPost">>, <<s, "findOwn", "attach", "detach">>}
      BY <1>1
    <2>2. <<"findOwn", "attach", "detach">> # <<"insertPost">>
      OBVIOUS
    <2>3. todo[r] # <<s, "insertPost">>
      BY <1>3 DEF UpdatingPost
    <2>4. todo[r] = <<s, "findOwn", "attach", "detach">>
      BY <2>1, <2>3
    <2>5. Tail(todo[r]) = <<"findOwn", "attach", "detach">>
      BY <2>4, Tail4
    <2> QED BY <1>3, <2>5, <2>2 DEF UpdatingPost, WriteOK, Rests
  <1> QED BY <1>1, <1>2, <1>3 DEF Writing

\* The statements of those who write posts or read lists.
TagLands ==
  {<<>>, <<"insertPost">>, <<"findOwn", "attach", "detach">>,
   <<"findTag", "insertPost">>, <<"findTag", "findOwn", "attach", "detach">>,
   <<"insertTag", "insertPost">>, <<"insertTag", "findOwn", "attach", "detach">>,
   <<"findTagAgain", "insertPost">>, <<"findTagAgain", "findOwn", "attach", "detach">>,
   <<"attach", "detach">>, <<"detach">>, <<"query", "store">>, <<"store">>}

LEMMA WriteShape ==
  ASSUME NEW rest \in Rests, NEW c, WriteOK(rest, c)
  PROVE  /\ c.names = {} => Shape(rest, c)
         /\ c.names # {} => Shape(<<"findTag">> \o rest, c)
         /\ c.tag \in c.names =>
              Shape(<<"insertTag">> \o rest, c) /\ Shape(<<"findTagAgain">> \o rest, c)
         /\ rest \in TagLands /\ rest \notin {<<>>, <<"detach">>}
         /\ \A s \in {"findTag", "insertTag", "findTagAgain"} :
              <<s>> \o rest \in TagLands /\ <<s>> \o rest \notin {<<>>, <<"detach">>}
  <1>1. CASE rest = <<"insertPost">>
    <2>1. \A s \in {"findTag", "insertTag", "findTagAgain"} : <<s>> \o rest = <<s, "insertPost">>
      BY <1>1, Prepend
    <2>2. c \in WriteLocals /\ c.user \in Users /\ c.post = None
      BY <1>1 DEF WriteOK
    <2>3. c.names = {} => Shape(rest, c)
      BY <1>1, <2>2 DEF Shape, CreatingPost
    <2>4. c.names # {} => Shape(<<"findTag">> \o rest, c)
      BY <2>1, <2>2 DEF Shape, CreatingPost
    <2>5. c.tag \in c.names =>
            Shape(<<"insertTag">> \o rest, c) /\ Shape(<<"findTagAgain">> \o rest, c)
      BY <2>1, <2>2 DEF Shape, CreatingPost
    <2> QED BY <1>1, <2>1, <2>3, <2>4, <2>5 DEF TagLands
  <1>2. CASE rest = <<"findOwn", "attach", "detach">>
    <2>1. \A s \in {"findTag", "insertTag", "findTagAgain"} : <<s>> \o rest = <<s, "findOwn", "attach", "detach">>
      BY <1>2, Prepend
    <2>2. c \in WriteLocals /\ c.post \in Post
      BY <1>2 DEF WriteOK
    <2>3. c.names = {} => Shape(rest, c)
      BY <1>2, <2>2 DEF Shape, UpdatingPost
    <2>4. c.names # {} => Shape(<<"findTag">> \o rest, c)
      BY <2>1, <2>2 DEF Shape, UpdatingPost
    <2>5. c.tag \in c.names =>
            Shape(<<"insertTag">> \o rest, c) /\ Shape(<<"findTagAgain">> \o rest, c)
      BY <2>1, <2>2 DEF Shape, UpdatingPost
    <2> QED BY <1>2, <2>1, <2>3, <2>4, <2>5 DEF TagLands
  <1> QED BY <1>1, <1>2 DEF Rests

LEMMA NextNameMoves ==
  ASSUME RequestsOK, NEW r \in Requests, NEW c, Tail(todo[r]) \in Rests, WriteOK(Tail(todo[r]), c),
         NextName(r, c)
  PROVE  Moved(r) /\ todo'[r] \in TagLands /\ todo'[r] # <<"detach">> /\ call'[r] = c
  <1>1. CASE c.names = {}
    <2>1. Go(r, Tail(todo[r]), c)
      BY <1>1 DEF NextName, Loop
    <2> QED BY <1>1, <2>1, WriteShape, MoveOn
  <1>2. CASE c.names # {}
    <2>1. Go(r, <<"findTag">> \o Tail(todo[r]), c)
      BY <1>2 DEF NextName, Loop
    <2> QED BY <1>2, <2>1, WriteShape, MoveOn
  <1> QED BY <1>1, <1>2

\* A tag is found.
LEMMA TagRemembered ==
  ASSUME NEW rest \in Rests, NEW r, WriteOK(rest, call[r]), NEW t \in Tags, NEW n \in TagNames
  PROVE  /\ WriteOK(rest, Remember(r, t, n))
         /\ Remember(r, t, n).names = call[r].names \ {n}
         /\ Remember(r, t, n).found = call[r].found \cup {[id |-> t, name |-> n]}
         /\ Remember(r, t, n).wants = call[r].wants
  <1> DEFINE c == call[r]
             found == c.found \cup {[id |-> t, name |-> n]}
             names == c.names \ {n}
  <1>1. c \in WriteLocals
    BY DEF WriteOK
  <1>2. found \in SUBSET [id : Tags, name : TagNames]
    <2>1. [id |-> t, name |-> n] \in [id : Tags, name : TagNames]
      OBVIOUS
    <2> QED BY <1>1, <2>1 DEF WriteLocals
  <1>3. names \in SUBSET TagNames
    BY <1>1 DEF WriteLocals
  <1>4. Remember(r, t, n) = [c EXCEPT !.names = names, !.tag = None, !.found = found]
    BY DEF Remember
  <1> HIDE DEF found, names
  <1>5. [c EXCEPT !.names = names, !.tag = None, !.found = found] \in WriteLocals
    BY <1>1, <1>2, <1>3 DEF WriteLocals
  <1>6. /\ Remember(r, t, n).names = names /\ Remember(r, t, n).found = found
        /\ Remember(r, t, n).wants = c.wants /\ Remember(r, t, n).user = c.user
        /\ Remember(r, t, n).post = c.post
    BY <1>1, <1>4 DEF WriteLocals
  <1> QED BY <1>4, <1>5, <1>6 DEF WriteOK, found, names

LEMMA PostTagsMoves ==
  ASSUME RequestsOK, RowsOK, NEW r \in Requests, PostTagsStep(r)
  PROVE  Moved(r) /\ todo'[r] \in TagLands
  <1>1. TagNamed(call[r].tag) \subseteq Tags /\ \A n : TagNamed(n) \subseteq Tags
    BY DEF TagNamed, RowsOK, TagsFit, PostTagsTypeOK
  <1>2. CASE FindTag(r)
    <2>1. Tail(todo[r]) \in Rests /\ WriteOK(Tail(todo[r]), call[r])
      BY <1>2, AtName DEF FindTag
    <2>2. PICK n \in call[r].names :
            IF TagNamed(n) # {} THEN \E t \in TagNamed(n) : NextName(r, Remember(r, t, n))
            ELSE Go(r, <<"insertTag">> \o Tail(todo[r]), [call[r] EXCEPT !.tag = n])
      BY <1>2 DEF FindTag
    <2>3. n \in TagNames
      BY <2>1, <2>2 DEF WriteOK, WriteLocals
    <2>4. CASE TagNamed(n) # {}
      <3>1. PICK t \in TagNamed(n) : NextName(r, Remember(r, t, n))
        BY <2>2, <2>4
      <3> QED BY <1>1, <2>1, <2>3, <3>1, TagRemembered, NextNameMoves
    <2>5. CASE TagNamed(n) = {}
      <3> DEFINE c == [call[r] EXCEPT !.tag = n]
      <3>1. WriteOK(Tail(todo[r]), c) /\ c.tag = n /\ c.names = call[r].names
        BY <2>1, <2>3 DEF WriteOK, WriteLocals
      <3>2. Go(r, <<"insertTag">> \o Tail(todo[r]), c)
        BY <2>2, <2>5
      <3> HIDE DEF c
      <3> QED BY <2>1, <2>2, <3>1, <3>2, WriteShape, MoveOn
    <2> QED BY <2>4, <2>5
  <1>3. CASE InsertTag(r) \/ FindTagAgain(r)
    <2>1. Tail(todo[r]) \in Rests /\ WriteOK(Tail(todo[r]), call[r])
      BY <1>3, AtName DEF InsertTag, FindTagAgain
    <2>2. call[r].tag \in call[r].names
      BY <1>3, AtTags DEF InsertTag, FindTagAgain
    <2>3. call[r].tag \in TagNames
      BY <2>1, <2>2 DEF WriteOK, WriteLocals
    <2>4. \/ \E t \in Tags : NextName(r, Remember(r, t, call[r].tag))
          \/ Go(r, <<"findTagAgain">> \o Tail(todo[r]), call[r])
          \/ Quit(r)
      BY <1>1, <1>3 DEF InsertTag, FindTagAgain, Fresh
    <2>5. CASE \E t \in Tags : NextName(r, Remember(r, t, call[r].tag))
      BY <2>1, <2>3, <2>5, TagRemembered, NextNameMoves
    <2>6. CASE Go(r, <<"findTagAgain">> \o Tail(todo[r]), call[r])
      BY <2>1, <2>2, <2>6, WriteShape, MoveOn
    <2>7. CASE Quit(r)
      BY <2>7, MoveOut DEF TagLands
    <2> QED BY <2>4, <2>5, <2>6, <2>7
  <1>4. CASE FindOwn(r)
    <2>1. Moved(r) /\ todo'[r] \in {<<>>, Tail(todo[r])}
      BY <1>4, MoveAlong DEF FindOwn, Check, At, Reads
    <2>2. todo[r] = <<"findOwn", "attach", "detach">>
      BY <1>4, AtTags DEF FindOwn
    <2> QED BY <2>1, <2>2 DEF TagLands
  <1>5. CASE Attach(r)
    <2>1. Moved(r) /\ todo'[r] \in {<<>>, Tail(todo[r])}
      BY <1>5, MoveAlong DEF Attach, At, Reads
    <2>2. todo[r] = <<"attach", "detach">>
      BY <1>5, AtTags DEF Attach
    <2> QED BY <2>1, <2>2 DEF TagLands
  <1>6. CASE LookUp(r)
    <2>1. Moved(r) /\ todo'[r] \in {<<>>, Tail(todo[r])}
      BY <1>6, MoveAlong DEF LookUp, Check, At, Reads
    <2>2. todo[r] = <<"lookUp", "query", "store">>
      BY <1>6, AtTags DEF LookUp
    <2> QED BY <2>1, <2>2 DEF TagLands
  <1>7. CASE Query(r)
    <2>1. todo[r] = <<"query", "store">> /\ call[r] \in ListLocals
      BY <1>7, AtTags DEF Query
    <2>2. PICK S \in SUBSET OpenPosts : Go(r, <<"store">>, [call[r] EXCEPT !.shows = S])
      BY <1>7, <2>1 DEF Query, AdvanceWith
    <2>3. S \in SUBSET Post
      BY DEF OpenPosts, RowsOK, PostsTypeOK
    <2>4. Shape(<<"store">>, [call[r] EXCEPT !.shows = S])
      BY <2>1, <2>3 DEF Shape, Listing, ListLocals
    <2> QED BY <2>2, <2>4, MoveOn DEF TagLands
  <1>8. CASE InsertTaggedPost(r) \/ Detach(r) \/ Store(r)
    BY <1>8, MoveOut DEF InsertTaggedPost, Detach, Store, TagLands
  <1> QED BY <1>2, <1>3, <1>4, <1>5, <1>6, <1>7, <1>8 DEF PostTagsStep

LEMMA NotifyMoves ==
  ASSUME RequestsOK, NEW r \in Requests, Notify(r)
  PROVE  Moved(r) /\ todo'[r] = <<>>
  BY MoveOut DEF Notify

LEMMA FollowsMoves ==
  ASSUME RequestsOK, NEW r \in Requests, FollowsStep(r)
  PROVE  Moved(r) /\ todo'[r] \in {<<>>, <<"insertFollow", "notify">>, <<"deleteFollow">>, <<"notify">>}
  <1>1. CASE CheckFollow(r) /\ At(r, "notFollowing")
    <2>1. Moved(r) /\ todo'[r] \in {<<>>, Tail(todo[r])}
      BY <1>1, MoveAlong DEF CheckFollow, Check, At, Reads
    <2>2. todo[r] = <<"notFollowing", "insertFollow", "notify">>
      BY <1>1, AtFollows
    <2> QED BY <2>1, <2>2
  <1>2. CASE CheckFollow(r) /\ At(r, "following")
    <2>1. Moved(r) /\ todo'[r] \in {<<>>, Tail(todo[r])}
      BY <1>2, MoveAlong DEF CheckFollow, Check, At, Reads
    <2>2. todo[r] = <<"following", "deleteFollow">>
      BY <1>2, AtFollows
    <2> QED BY <2>1, <2>2
  <1>3. CASE InsertFollow(r)
    <2>1. Moved(r) /\ todo'[r] \in {<<>>, Tail(todo[r])}
      BY <1>3, MoveAlong DEF InsertFollow, At, Reads
    <2>2. todo[r] = <<"insertFollow", "notify">>
      BY <1>3, AtFollows DEF InsertFollow
    <2> QED BY <2>1, <2>2
  <1>4. CASE DeleteFollow(r)
    BY <1>4, MoveOut DEF DeleteFollow
  <1> QED BY <1>1, <1>2, <1>3, <1>4 DEF FollowsStep, CheckFollow

\* The statements of those who keep bookmarks.
MarkLands ==
  {<<>>, <<"findMark">>, <<"deleteMark">>, <<"insertMark">>, <<"findFolder", "insertMark">>,
   <<"findFolder", "moveMark", "saveMark">>, <<"moveMark", "saveMark">>, <<"saveMark">>, <<"putMark">>,
   <<"saveFolder">>}

LEMMA LoadMarkMoves ==
  ASSUME RequestsOK, RowsOK, NEW r \in Requests, LoadMark(r)
  PROVE  /\ Moved(r) /\ todo'[r] \in MarkLands
         /\ todo'[r] # <<>> =>
              /\ call[r].mark \in DOMAIN bookmarks /\ bookmarks[call[r].mark].user = call[r].user
              /\ call'[r] = [call[r] EXCEPT !.row = Preloaded(call[r].mark),
                                            !.copy = posts[bookmarks[call[r].mark].post]]
              /\ todo'[r] = <<"moveMark", "saveMark">> => call[r].folder = None
              /\ Loaded(todo'[r], call'[r])
  <1> DEFINE b == call[r].mark
             c == [call[r] EXCEPT !.row = Preloaded(b), !.copy = posts[bookmarks[b].post]]
  <1>1. /\ call[r] \in MarkLocals
        /\ \/ todo[r] = <<"loadMark", "saveMark">>
           \/ call[r].folder = None /\ todo[r] = <<"loadMark", "moveMark", "saveMark">>
           \/ call[r].folder \in Folder /\ todo[r] = <<"loadMark", "findFolder", "moveMark", "saveMark">>
    BY AtBookmarks DEF LoadMark
  <1>2. CASE Quit(r)
    BY <1>2, MoveOut DEF MarkLands
  <1>3. CASE b \in DOMAIN bookmarks /\ bookmarks[b].user = call[r].user /\ Go(r, Tail(todo[r]), c)
    <2>1. bookmarks[b] \in BookmarkRow /\ posts[bookmarks[b].post] \in PostRow
      BY <1>3 DEF RowsOK, MarksFit, BookmarksTypeOK, PostsTypeOK, Exists
    <2>2. Preloaded(b) \in MarkRow /\ Preloaded(b).user = call[r].user
      BY <1>3, <2>1 DEF Preloaded, MarkRow, BookmarkRow
    <2>3. /\ c \in MarkLocals /\ c.row = Preloaded(b) /\ c.user = call[r].user
          /\ c.copy = posts[bookmarks[b].post] /\ c.folder = call[r].folder
      BY <1>1, <2>1, <2>2 DEF MarkLocals
    <2> HIDE DEF c
    <2>4. c.row \in MarkRow /\ c.row.user = c.user /\ c.copy \in PostRow
      BY <2>1, <2>2, <2>3
    <2>5. CASE todo[r] = <<"loadMark", "saveMark">>
      <3>1. Loaded(<<"saveMark">>, c)
        BY <2>3, <2>4 DEF Loaded
      <3>2. Shape(<<"saveMark">>, c) /\ <<"saveMark">> # <<>>
        BY <3>1 DEF Shape, Changes
      <3>4. Tail(todo[r]) = <<"saveMark">>
        BY <2>5, Tail2
      <3>5. Go(r, <<"saveMark">>, c)
        BY <1>3, <3>4
      <3>3. todo'[r] = <<"saveMark">> /\ call'[r] = c /\ Moved(r)
        BY <3>2, <3>5, MoveOn
      <3> QED BY <1>3, <3>1, <3>3 DEF MarkLands, c
    <2>6. CASE call[r].folder = None /\ todo[r] = <<"loadMark", "moveMark", "saveMark">>
      <3>1. Loaded(<<"moveMark", "saveMark">>, c)
        BY <2>3, <2>4 DEF Loaded
      <3>2. Shape(<<"moveMark", "saveMark">>, c) /\ <<"moveMark", "saveMark">> # <<>>
        BY <3>1 DEF Shape, Changes
      <3>3. Tail(todo[r]) = <<"moveMark", "saveMark">>
        BY <2>6, Tail3
      <3>4. todo'[r] = <<"moveMark", "saveMark">> /\ call'[r] = c /\ Moved(r)
        BY <1>3, <3>2, <3>3, MoveOn
      <3> QED BY <1>3, <2>6, <3>1, <3>4 DEF MarkLands, c
    <2>7. CASE call[r].folder \in Folder /\ todo[r] = <<"loadMark", "findFolder", "moveMark", "saveMark">>
      <3>1. Loaded(<<"findFolder", "moveMark", "saveMark">>, c)
        BY <2>3, <2>4, <2>7 DEF Loaded
      <3>2. Shape(<<"findFolder", "moveMark", "saveMark">>, c) /\ <<"findFolder", "moveMark", "saveMark">> # <<>>
        BY <3>1 DEF Shape, Changes
      <3>3. todo'[r] = <<"findFolder", "moveMark", "saveMark">> /\ call'[r] = c /\ Moved(r)
        BY <1>3, <2>7, <3>2, MoveOn
      <3> QED BY <1>3, <3>1, <3>3 DEF MarkLands, c
    <2> QED BY <1>1, <2>5, <2>6, <2>7
  <1> QED BY <1>2, <1>3 DEF LoadMark, AdvanceWith

LEMMA MoveMarkMoves ==
  ASSUME RequestsOK, NEW r \in Requests, MoveMark(r)
  PROVE  /\ Moved(r) /\ todo'[r] = <<"saveMark">>
         /\ call'[r] = [call[r] EXCEPT !.row.folder = call[r].folder]
         /\ call'[r].mark = call[r].mark /\ call'[r].user = call[r].user
         /\ call'[r].row = [call[r].row EXCEPT !.folder = call[r].folder]
         /\ Loaded(todo'[r], call'[r])
  <1> DEFINE row == [call[r].row EXCEPT !.folder = call[r].folder]
             c == [call[r] EXCEPT !.row = row]
  <1>1. todo[r] = <<"moveMark", "saveMark">> /\ Loaded(todo[r], call[r])
    BY AtBookmarks DEF MoveMark
  <1>2. /\ call[r] \in MarkLocals /\ call[r].row \in MarkRow /\ call[r].row.user = call[r].user
        /\ call[r].copy \in PostRow
    BY <1>1 DEF Loaded
  <1>3. row \in MarkRow /\ row.user = call[r].user
    BY <1>2 DEF MarkRow, MarkLocals
  <1> HIDE DEF row
  <1>4. /\ c \in MarkLocals /\ c.row = row /\ c.user = call[r].user /\ c.copy = call[r].copy
        /\ c.mark = call[r].mark
    BY <1>2, <1>3 DEF MarkLocals
  <1>5. c = [call[r] EXCEPT !.row.folder = call[r].folder]
    BY <1>2 DEF row, MarkLocals
  <1> HIDE DEF c
  <1>6. Loaded(<<"saveMark">>, c)
    BY <1>2, <1>3, <1>4 DEF Loaded
  <1>7. Shape(<<"saveMark">>, c) /\ <<"saveMark">> # <<>>
    BY <1>6 DEF Shape, Changes
  <1>8. Go(r, <<"saveMark">>, c)
    BY <1>1, <1>5 DEF MoveMark, AdvanceWith
  <1>9. Moved(r) /\ todo'[r] = <<"saveMark">> /\ call'[r] = c
    BY <1>7, <1>8, MoveOn
  <1> QED BY <1>4, <1>5, <1>6, <1>9 DEF row

LEMMA LoadFolderMoves ==
  ASSUME RequestsOK, RowsOK, NEW r \in Requests, LoadFolder(r)
  PROVE  /\ Moved(r) /\ todo'[r] \in {<<>>, <<"saveFolder">>}
         /\ todo'[r] # <<>> =>
              /\ call[r].folder \in DOMAIN folders /\ folders[call[r].folder] = call[r].user
              /\ call'[r].user = call[r].user /\ call'[r].folder = call[r].folder
              /\ call'[r].copies =
                   [b \in {b \in DOMAIN bookmarks : bookmarks[b].folder = call[r].folder} |-> bookmarks[b]]
  <1> DEFINE S == {b \in DOMAIN bookmarks : bookmarks[b].folder = call[r].folder}
             copies == [b \in S |-> bookmarks[b]]
             c == [call[r] EXCEPT !.copies = copies]
  <1>1. todo[r] = <<"loadFolder", "saveFolder">> /\ call[r] \in FolderLocals
    BY AtBookmarks DEF LoadFolder
  <1>2. CASE Quit(r)
    BY <1>2, MoveOut
  <1>3. CASE /\ call[r].folder \in DOMAIN folders /\ folders[call[r].folder] = call[r].user
             /\ Go(r, <<"saveFolder">>, c)
    <2>1. S \in SUBSET Bookmark /\ copies \in [S -> BookmarkRow]
      BY DEF RowsOK, MarksFit, BookmarksTypeOK
    <2>2. copies \in Copies
      BY <2>1 DEF Copies
    <2> HIDE DEF copies
    <2>3. /\ c \in FolderLocals /\ c.copies = copies
          /\ c.user = call[r].user /\ c.folder = call[r].folder
      BY <1>1, <2>2 DEF FolderLocals
    <2> HIDE DEF c
    <2>4. Shape(<<"saveFolder">>, c) /\ <<"saveFolder">> # <<>>
      BY <2>2, <2>3 DEF Shape, Foldering
    <2>5. Go(r, <<"saveFolder">>, c)
      BY <1>3
    <2>6. Moved(r) /\ todo'[r] = <<"saveFolder">> /\ call'[r] = c
      BY <2>4, <2>5, MoveOn
    <2> QED BY <1>3, <2>3, <2>6 DEF copies
  <1> QED BY <1>1, <1>2, <1>3 DEF LoadFolder, AdvanceWith

LEMMA FindMarkMoves ==
  ASSUME RequestsOK, RowsOK, NEW r \in Requests, FindMark(r)
  PROVE  /\ Moved(r) /\ todo'[r] \in {<<>>, <<"deleteMark">>, <<"insertMark">>, <<"findFolder", "insertMark">>}
         /\ todo'[r] \in {<<"insertMark">>, <<"findFolder", "insertMark">>} =>
              call'[r] = call[r] /\ ~call[r].hidden
         /\ todo'[r] = <<"insertMark">> => call[r].folder = None
  <1>1. call[r] \in ToggleLocals
    BY AtBookmarks DEF FindMark
  <1>2. CASE Quit(r)
    BY <1>2, MoveOut
  <1>3. CASE \E b \in MarksOf(call[r].post, {call[r].user}) : Go(r, <<"deleteMark">>, [call[r] EXCEPT !.mark = b])
    <2>1. PICK b \in MarksOf(call[r].post, {call[r].user}) : Go(r, <<"deleteMark">>, [call[r] EXCEPT !.mark = b])
      BY <1>3
    <2>2. b \in Bookmark
      BY DEF MarksOf, RowsOK, MarksFit, BookmarksTypeOK
    <2>3. Shape(<<"deleteMark">>, [call[r] EXCEPT !.mark = b])
      BY <1>1, <2>2 DEF Shape, Toggling, ToggleLocals
    <2>4. Moved(r) /\ todo'[r] = <<"deleteMark">>
      BY <2>1, <2>3, MoveOn
    <2> QED BY <2>4
  <1>4. CASE call[r].folder = None /\ ~call[r].hidden /\ Go(r, <<"insertMark">>, call[r])
    <2>1. Shape(<<"insertMark">>, call[r]) /\ <<"insertMark">> # <<>>
      BY <1>1 DEF Shape, Toggling
    <2>2. Moved(r) /\ todo'[r] = <<"insertMark">> /\ call'[r] = call[r]
      BY <1>4, <2>1, MoveOn
    <2> QED BY <1>4, <2>2
  <1>5. CASE call[r].folder # None /\ ~call[r].hidden /\ Go(r, <<"findFolder", "insertMark">>, call[r])
    <2>1. call[r].folder \in Folder
      BY <1>1, <1>5 DEF ToggleLocals
    <2>2. Shape(<<"findFolder", "insertMark">>, call[r]) /\ <<"findFolder", "insertMark">> # <<>>
      BY <1>1, <2>1 DEF Shape, Toggling
    <2>3. Moved(r) /\ todo'[r] = <<"findFolder", "insertMark">> /\ call'[r] = call[r]
      BY <1>5, <2>2, MoveOn
    <2> QED BY <1>5, <2>3
  <1> QED BY <1>2, <1>3, <1>4, <1>5 DEF FindMark

LEMMA BookmarksMoves ==
  ASSUME RequestsOK, RowsOK, NEW r \in Requests, BookmarksStep(r)
  PROVE  Moved(r) /\ todo'[r] \in MarkLands
  <1>1. CASE FindToggled(r)
    <2>1. todo[r] = <<"findToggled", "findMark">> /\ call[r] \in ToggleLocals
      BY <1>1, AtBookmarks DEF FindToggled
    <2>2. CASE Quit(r)
      BY <2>2, MoveOut DEF MarkLands
    <2>3. CASE /\ Exists(call[r].post)
               /\ Go(r, <<"findMark">>, [call[r] EXCEPT !.hidden = posts[call[r].post].hidden])
      <3>1. posts[call[r].post].hidden \in BOOLEAN
        BY <2>3 DEF Exists, RowsOK, PostsTypeOK, PostRow
      <3>2. Shape(<<"findMark">>, [call[r] EXCEPT !.hidden = posts[call[r].post].hidden])
        BY <2>1, <3>1 DEF Shape, Toggling, ToggleLocals
      <3> QED BY <2>3, <3>2, MoveOn DEF MarkLands
    <2> QED BY <1>1, <2>1, <2>2, <2>3 DEF FindToggled, AdvanceWith
  <1>2. CASE FindMark(r)
    BY <1>2, FindMarkMoves DEF MarkLands
  <1>3. CASE FindFolder(r)
    <2>1. Moved(r) /\ todo'[r] \in {<<>>, Tail(todo[r])}
      BY <1>3, MoveAlong DEF FindFolder, Check, At, Reads
    <2>2. todo[r] = <<"findFolder", "insertMark">> \/ todo[r] = <<"findFolder", "moveMark", "saveMark">>
      BY <1>3, AtBookmarks DEF FindFolder
    <2>3. CASE todo[r] = <<"findFolder", "insertMark">>
      BY <2>1, <2>3 DEF MarkLands
    <2>4. CASE todo[r] = <<"findFolder", "moveMark", "saveMark">>
      BY <2>1, <2>4 DEF MarkLands
    <2> QED BY <2>2, <2>3, <2>4
  <1>4. CASE LoadMark(r) \/ MoveMark(r)
    BY <1>4, LoadMarkMoves, MoveMarkMoves DEF MarkLands
  <1>5. CASE SaveMark(r)
    <2>1. Loaded(todo[r], call[r])
      BY <1>5, AtBookmarks DEF SaveMark
    <2>2. Shape(<<"putMark">>, call[r])
      BY <2>1 DEF Shape, Changes, Loaded
    <2> QED BY <1>5, <2>2, MoveOut, MoveOn DEF SaveMark, MarkLands
  <1>6. CASE LoadFolder(r)
    BY <1>6, LoadFolderMoves DEF MarkLands
  <1>7. CASE DeleteMark(r) \/ InsertMark(r) \/ PutMark(r) \/ SaveFolder(r)
    BY <1>7, MoveOut DEF DeleteMark, InsertMark, PutMark, SaveFolder, MarkLands
  <1> QED BY <1>1, <1>2, <1>3, <1>4, <1>5, <1>6, <1>7 DEF BookmarksStep

-----------------------------------------------------------------------------
(* Requests that arrive.                                                   *)

\* What a request may begin with.
Entries ==
  {<<"findReported", "insertReport">>, <<"lockPost", "decide">>,
   <<"findOpenPost", "notLiked", "insertLike">>, <<"findPost", "liked", "deleteLike">>,
   <<"findOpenPost", "findView", "insertView", "mark">>,
   <<"findOpenPost", "insertComment", "notify">>,
   <<"ownComment", "saveComment">>, <<"ownComment", "deleteComment">>, <<"anyComment", "deleteComment">>,
   <<"insertPost">>, <<"findTag", "insertPost">>,
   <<"findOwn", "attach", "detach">>, <<"findTag", "findOwn", "attach", "detach">>,
   <<"lookUp", "query", "store">>, <<"findToggled", "findMark">>,
   <<"loadMark", "saveMark">>, <<"loadMark", "moveMark", "saveMark">>,
   <<"loadMark", "findFolder", "moveMark", "saveMark">>, <<"loadFolder", "saveFolder">>,
   <<"notFollowing", "insertFollow", "notify">>, <<"following", "deleteFollow">>}

\* A request begins and has changed nothing yet.
Begins(r) ==
  /\ Moved(r) /\ todo[r] = <<>> /\ todo'[r] \in Entries
  /\ call'[r].began = Len(decisions)
  /\ UNCHANGED <<postVars, reports, tagVars, reactionVars, bookmarkVars, notices, followVars>>

LEMMA BeginsWith ==
  ASSUME RequestsOK, NEW r \in Requests, NEW op, NEW c, NEW t \in Entries,
         Enter(r, op, c, t), Shape(t, c), c.began = Len(decisions),
         UNCHANGED <<postVars, reports, tagVars, reactionVars, bookmarkVars, notices, followVars>>
  PROVE  Begins(r)
  BY MoveIn DEF Begins, Enter

LEMMA ModerationBegins ==
  ASSUME RequestsOK, RowsOK, NEW r \in Requests, ModerationStart(r),
         UNCHANGED <<tagVars, reactionVars, bookmarkVars, notices, followVars>>
  PROVE  Begins(r)
  <1>0. Len(decisions) \in Nat
    BY DEF RowsOK, PostsTypeOK
  <1>1. ASSUME NEW u \in Users, NEW p \in Post, ReportPost(r, u, p)
        PROVE  Begins(r)
    <2> DEFINE c == [user |-> u, post |-> p, began |-> Len(decisions)]
               t == <<"findReported", "insertReport">>
    <2>1. Shape(t, c) /\ t \in Entries /\ c.began = Len(decisions)
      BY <1>0 DEF Shape, Reporting, Locals, Entries
    <2>2. Enter(r, "report", c, t) /\ UNCHANGED <<postVars, reports>>
      BY <1>1 DEF ReportPost, About
    <2> HIDE DEF c, t
    <2> QED BY <2>1, <2>2, BeginsWith
  <1>2. ASSUME NEW u \in Users, NEW p \in Post, NEW kind \in Kinds, ModeratePost(r, u, p, kind)
        PROVE  Begins(r)
    <2> DEFINE c == [user |-> u, post |-> p, began |-> Len(decisions), kind |-> kind]
               t == <<"lockPost", "decide">>
    <2>1. Shape(t, c) /\ t \in Entries /\ c.began = Len(decisions)
      BY <1>0 DEF Shape, Moderating, ModerateLocals, Entries
    <2>2. Enter(r, "moderate", c, t) /\ UNCHANGED <<postVars, reports>>
      BY <1>2 DEF ModeratePost
    <2> HIDE DEF c, t
    <2> QED BY <2>1, <2>2, BeginsWith
  <1> QED BY <1>1, <1>2 DEF ModerationStart

LEMMA ReactionsBegins ==
  ASSUME RequestsOK, RowsOK, NEW r \in Requests, ReactionsStart(r),
         UNCHANGED <<reports, tagVars, bookmarkVars, followVars>>
  PROVE  Begins(r)
  <1>0. Len(decisions) \in Nat
    BY DEF RowsOK, PostsTypeOK
  <1>1. ASSUME NEW u \in Users, NEW p \in Post, LikePost(r, u, p) \/ UnlikePost(r, u, p) \/ RecordView(r, u, p)
        PROVE  Begins(r)
    <2> DEFINE c == [user |-> u, post |-> p, began |-> Len(decisions)]
    <2>1. /\ Shape(<<"findOpenPost", "notLiked", "insertLike">>, c)
          /\ Shape(<<"findPost", "liked", "deleteLike">>, c)
          /\ Shape(<<"findOpenPost", "findView", "insertView", "mark">>, c)
          /\ c.began = Len(decisions)
      BY <1>0 DEF Shape, Liking, Viewing, Locals
    <2>2. \/ Enter(r, "like", c, <<"findOpenPost", "notLiked", "insertLike">>)
          \/ Enter(r, "like", c, <<"findPost", "liked", "deleteLike">>)
          \/ Enter(r, "view", c, <<"findOpenPost", "findView", "insertView", "mark">>)
      BY <1>1 DEF LikePost, UnlikePost, RecordView, About
    <2>3. UNCHANGED <<postVars, notices, reactionVars>>
      BY <1>1 DEF LikePost, UnlikePost, RecordView
    <2>4. /\ <<"findOpenPost", "notLiked", "insertLike">> \in Entries
          /\ <<"findPost", "liked", "deleteLike">> \in Entries
          /\ <<"findOpenPost", "findView", "insertView", "mark">> \in Entries
      BY DEF Entries
    <2> HIDE DEF c
    <2> QED BY <2>1, <2>2, <2>3, <2>4, BeginsWith
  <1>2. ASSUME NEW u \in Users, NEW p \in Post, CreateComment(r, u, p)
        PROVE  Begins(r)
    <2> DEFINE c == [user |-> u, post |-> p, began |-> Len(decisions), tell |-> None]
               t == <<"findOpenPost", "insertComment", "notify">>
    <2>1. Shape(t, c) /\ t \in Entries /\ c.began = Len(decisions)
      BY <1>0 DEF Shape, Commenting, TellLocals, Entries
    <2>2. Enter(r, "comment", c, t) /\ UNCHANGED <<postVars, notices, reactionVars>>
      BY <1>2 DEF CreateComment, Telling
    <2> HIDE DEF c, t
    <2> QED BY <2>1, <2>2, BeginsWith
  <1>3. ASSUME NEW u \in Users, NEW k \in Comment,
               EditComment(r, u, k) \/ RemoveComment(r, u, k) \/ ModerateComment(r, u, k)
        PROVE  Begins(r)
    <2> DEFINE c == [user |-> u, post |-> None, began |-> Len(decisions), comment |-> k, row |-> None]
    <2>1. /\ Shape(<<"ownComment", "saveComment">>, c)
          /\ Shape(<<"ownComment", "deleteComment">>, c)
          /\ Shape(<<"anyComment", "deleteComment">>, c)
          /\ c.began = Len(decisions)
      BY <1>0 DEF Shape, EditingOne, EditLocals
    <2>2. \/ Enter(r, "edit", c, <<"ownComment", "saveComment">>)
          \/ Enter(r, "edit", c, <<"ownComment", "deleteComment">>)
          \/ Enter(r, "edit", c, <<"anyComment", "deleteComment">>)
      BY <1>3 DEF EditComment, RemoveComment, ModerateComment, Editing
    <2>3. UNCHANGED <<postVars, notices, reactionVars>>
      BY <1>3 DEF EditComment, RemoveComment, ModerateComment
    <2>4. /\ <<"ownComment", "saveComment">> \in Entries
          /\ <<"ownComment", "deleteComment">> \in Entries
          /\ <<"anyComment", "deleteComment">> \in Entries
      BY DEF Entries
    <2> HIDE DEF c
    <2> QED BY <2>1, <2>2, <2>3, <2>4, BeginsWith
  <1> QED BY <1>1, <1>2, <1>3 DEF ReactionsStart

\* Requests of Tags by themselves are carried out at once.
TagsStart(r) ==
  \/ \E n \in TagNames : CreateTag(r, n) \/ \E t \in Tags : UpdateTag(r, t, n)
  \/ \E t \in Tags : DeleteTag(r, t)

LEMMA PostTagsBegins ==
  ASSUME RequestsOK, RowsOK, NEW r \in Requests, PostTagsStart(r),
         UNCHANGED <<reports, reactionVars, bookmarkVars, notices, followVars>>
  PROVE  Begins(r) \/ TagsStart(r)
  <1>0. Len(decisions) \in Nat
    BY DEF RowsOK, PostsTypeOK
  <1>1. ASSUME NEW u \in Users, NEW names \in SUBSET TagNames, CreatePost(r, u, names)
        PROVE  Begins(r)
    <2> DEFINE c == [user |-> u, post |-> None, began |-> Len(decisions),
                     wants |-> names, names |-> names, tag |-> None, found |-> {}]
               t == Loop(names, <<"insertPost">>)
               op == IF names = {} THEN "create" ELSE "createTagged"
    <2>1. c \in WriteLocals /\ c.user \in Users /\ c.post = None /\ c.names = names /\ c.began = Len(decisions)
      BY <1>0 DEF WriteLocals
    <2>2. Enter(r, op, c, t) /\ UNCHANGED <<postVars, tagVars>>
      BY <1>1 DEF CreatePost, Writes, tagVars
    <2>3. names = {} => t = <<"insertPost">>
      BY DEF Loop
    <2>4. names # {} => t = <<"findTag", "insertPost">>
      BY Prepend DEF Loop
    <2> HIDE DEF c, t, op
    <2>5. Shape(t, c)
      BY <2>1, <2>3, <2>4 DEF Shape, CreatingPost
    <2>6. t \in Entries
      BY <2>3, <2>4 DEF Entries
    <2> QED BY <2>1, <2>2, <2>5, <2>6, BeginsWith
  <1>2. ASSUME NEW u \in Users \cup {None}, NEW p \in Post, NEW names \in SUBSET TagNames, UpdatePost(r, u, p, names)
        PROVE  Begins(r)
    <2> DEFINE c == [user |-> u, post |-> p, began |-> Len(decisions),
                     wants |-> names, names |-> names, tag |-> None, found |-> {}]
               t == Loop(names, <<"findOwn", "attach", "detach">>)
    <2>1. c \in WriteLocals /\ c.post \in Post /\ c.names = names /\ c.began = Len(decisions)
      BY <1>0 DEF WriteLocals
    <2>2. Enter(r, "update", c, t) /\ UNCHANGED <<postVars, tagVars>>
      BY <1>2 DEF UpdatePost, Writes, tagVars
    <2>3. names = {} => t = <<"findOwn", "attach", "detach">>
      BY DEF Loop
    <2>4. names # {} => t = <<"findTag", "findOwn", "attach", "detach">>
      BY Prepend DEF Loop
    <2> HIDE DEF c, t
    <2>5. Shape(t, c)
      BY <2>1, <2>3, <2>4 DEF Shape, UpdatingPost
    <2>6. t \in Entries
      BY <2>3, <2>4 DEF Entries
    <2> QED BY <2>1, <2>2, <2>5, <2>6, BeginsWith
  <1>3. ASSUME NEW kind \in Lists, GetList(r, kind)
        PROVE  Begins(r)
    <2> DEFINE c == [user |-> None, post |-> None, began |-> Len(decisions), kind |-> kind, shows |-> {}]
               t == <<"lookUp", "query", "store">>
    <2>1. Shape(t, c) /\ t \in Entries /\ c.began = Len(decisions)
      BY <1>0 DEF Shape, Listing, ListLocals, Entries
    <2>2. Enter(r, "list", c, t) /\ UNCHANGED <<postVars, tagVars>>
      BY <1>3 DEF GetList
    <2> HIDE DEF c, t
    <2> QED BY <2>1, <2>2, BeginsWith
  <1> QED BY <1>1, <1>2, <1>3 DEF PostTagsStart, TagsStart

\* A folder is created or deleted at once.
FoldersStart(r) == \E u \in Users : CreateFolder(r, u) \/ \E f \in Folder : DeleteFolder(r, u, f)

LEMMA BookmarksBegins ==
  ASSUME RequestsOK, RowsOK, NEW r \in Requests, BookmarksStart(r),
         UNCHANGED <<reports, tagVars, reactionVars, notices, followVars>>
  PROVE  Begins(r) \/ FoldersStart(r)
  <1>0. Len(decisions) \in Nat
    BY DEF RowsOK, PostsTypeOK
  <1>1. ASSUME NEW u \in Users, NEW f \in Folder \cup {None}, NEW p \in Post, ToggleBookmark(r, u, p, f)
        PROVE  Begins(r)
    <2> DEFINE c == [user |-> u, post |-> p, began |-> Len(decisions), folder |-> f, hidden |-> FALSE, mark |-> None]
               t == <<"findToggled", "findMark">>
    <2>1. Shape(t, c) /\ t \in Entries /\ c.began = Len(decisions)
      BY <1>0 DEF Shape, Toggling, ToggleLocals, Entries
    <2>2. Enter(r, "bookmark", c, t) /\ UNCHANGED <<postVars, bookmarkVars>>
      BY <1>1 DEF ToggleBookmark
    <2> HIDE DEF c, t
    <2> QED BY <2>1, <2>2, BeginsWith
  <1>2. ASSUME NEW u \in Users, NEW b \in Bookmark, NEW f \in Folder \cup {None},
               MoveBookmark(r, u, b, f) \/ UpdateBookmark(r, u, b)
        PROVE  Begins(r)
    <2> DEFINE c(g) == [user |-> u, post |-> None, began |-> Len(decisions), mark |-> b, folder |-> g,
                        row |-> None, copy |-> None]
    <2>1. /\ c(None) \in MarkLocals /\ c(None).folder = None /\ c(None).began = Len(decisions)
          /\ c(f) \in MarkLocals /\ c(f).folder = f /\ c(f).began = Len(decisions)
      BY <1>0 DEF MarkLocals
    <2>2. \/ Enter(r, "mark", c(None), <<"loadMark", "saveMark">>)
          \/ f = None /\ Enter(r, "mark", c(f), <<"loadMark", "moveMark", "saveMark">>)
          \/ f \in Folder /\ Enter(r, "mark", c(f), <<"loadMark", "findFolder", "moveMark", "saveMark">>)
      BY <1>2 DEF MoveBookmark, UpdateBookmark, Changing
    <2>3. UNCHANGED <<postVars, bookmarkVars>>
      BY <1>2 DEF MoveBookmark, UpdateBookmark
    <2>4. /\ <<"loadMark", "saveMark">> \in Entries
          /\ <<"loadMark", "moveMark", "saveMark">> \in Entries
          /\ <<"loadMark", "findFolder", "moveMark", "saveMark">> \in Entries
      BY DEF Entries
    <2> HIDE DEF c
    <2>5. /\ Shape(<<"loadMark", "saveMark">>, c(None))
          /\ f = None => Shape(<<"loadMark", "moveMark", "saveMark">>, c(f))
          /\ f \in Folder => Shape(<<"loadMark", "findFolder", "moveMark", "saveMark">>, c(f))
      BY <2>1 DEF Shape, Changes
    <2> QED BY <2>1, <2>2, <2>3, <2>4, <2>5, BeginsWith
  <1>3. ASSUME NEW u \in Users, NEW f \in Folder, UpdateFolder(r, u, f)
        PROVE  Begins(r)
    <2> DEFINE c == [user |-> u, post |-> None, began |-> Len(decisions), folder |-> f, copies |-> None]
               t == <<"loadFolder", "saveFolder">>
    <2>1. Shape(t, c) /\ t \in Entries /\ c.began = Len(decisions)
      BY <1>0 DEF Shape, Foldering, FolderLocals, Entries
    <2>2. Enter(r, "folder", c, t) /\ UNCHANGED <<postVars, bookmarkVars>>
      BY <1>3 DEF UpdateFolder
    <2> HIDE DEF c, t
    <2> QED BY <2>1, <2>2, BeginsWith
  <1> QED BY <1>1, <1>2, <1>3 DEF BookmarksStart, FoldersStart

LEMMA FollowsBegins ==
  ASSUME RequestsOK, RowsOK, NEW r \in Requests, FollowsStart(r),
         UNCHANGED <<reports, tagVars, reactionVars, bookmarkVars>>
  PROVE  Begins(r)
  <1>0. Len(decisions) \in Nat
    BY DEF RowsOK, PostsTypeOK
  <1>1. PICK u \in Users, v \in Users : FollowUser(r, u, v) \/ UnfollowUser(r, u, v)
    BY DEF FollowsStart
  <1> DEFINE c == [user |-> u, post |-> None, began |-> Len(decisions), tell |-> v]
  <1>2. [Telling(u, None) EXCEPT !.tell = v] = c
    BY DEF Telling
  <1>3. c \in TellLocals /\ c.post = None /\ c.tell \in Users /\ c.began = Len(decisions)
    BY <1>0 DEF TellLocals
  <1> HIDE DEF c
  <1>4. /\ Shape(<<"notFollowing", "insertFollow", "notify">>, c)
        /\ Shape(<<"following", "deleteFollow">>, c)
    BY <1>3 DEF Shape, Following
  <1>5. \/ Enter(r, "follow", c, <<"notFollowing", "insertFollow", "notify">>)
        \/ Enter(r, "follow", c, <<"following", "deleteFollow">>)
    BY <1>1, <1>2 DEF FollowUser, UnfollowUser
  <1>6. UNCHANGED <<postVars, notices, followVars>>
    BY <1>1 DEF FollowUser, UnfollowUser
  <1>7. /\ <<"notFollowing", "insertFollow", "notify">> \in Entries
        /\ <<"following", "deleteFollow">> \in Entries
    BY DEF Entries
  <1> QED BY <1>3, <1>4, <1>5, <1>6, <1>7, BeginsWith

-----------------------------------------------------------------------------
(* Steps.                                                                  *)

LEMMA StepCases ==
  ASSUME RequestsOK, RowsOK, NEW r \in Requests, Request(r)
  PROVE  \/ Begins(r)
         \/ todo[r] = <<>> /\ \E u \in Users \cup {None}, p \in Post : RemovePost(r, u, p)
         \/ /\ todo[r] = <<>> /\ TagsStart(r)
            /\ UNCHANGED <<reports, reactionVars, bookmarkVars, notices, followVars>>
         \/ /\ todo[r] = <<>> /\ FoldersStart(r)
            /\ UNCHANGED <<reports, tagVars, reactionVars, notices, followVars>>
         \/ /\ todo[r] = <<>> /\ NotificationsStart(r)
            /\ UNCHANGED <<reports, tagVars, reactionVars, bookmarkVars, followVars>>
         \/ todo[r] # <<>> /\ Proceed(r)
  BY ModerationBegins, ReactionsBegins, PostTagsBegins, BookmarksBegins, FollowsBegins DEF Request, Arrive

\* What is carried out at once moves nothing.
LEMMA AtOnceMoves ==
  ASSUME RequestsOK, NEW r \in Requests,
         \/ \E u \in Users \cup {None}, p \in Post : RemovePost(r, u, p)
         \/ TagsStart(r) \/ FoldersStart(r) \/ NotificationsStart(r)
  PROVE  Moved(r) /\ todo' = todo /\ call' = call
  <1>1. UNCHANGED <<todo, call>>
    BY DEF RemovePost, TagsStart, CreateTag, UpdateTag, DeleteTag, FoldersStart, CreateFolder, DeleteFolder,
           NotificationsStart, MarkAsRead, MarkAllAsRead, AtOnce, requestVars
  <1> QED BY <1>1, MoveNot

LEMMA RequestMoves ==
  ASSUME RequestsOK, RowsOK, NEW r \in Requests, Request(r)
  PROVE  Moved(r)
  <1>1. CASE Proceed(r)
    BY <1>1, CommonMoves, ModerationMoves, PostTagsMoves, ReactionsMoves, BookmarksMoves, NotifyMoves, FollowsMoves
       DEF Proceed
  <1> QED BY <1>1, StepCases, AtOnceMoves DEF Begins

\* Requests are where their handlers may be.
LEMMA RequestsStep ==
  ASSUME RequestsOK, RowsOK, [Next]_vars
  PROVE  RequestsOK'
  <1>1. CASE Expire \/ UNCHANGED vars
    <2>1. UNCHANGED <<todo, call>>
      BY <1>1 DEF Expire, ExpireList, ExpireMarker, vars, requestVars
    <2> QED BY <2>1 DEF RequestsOK
  <1>2. ASSUME NEW r \in Requests, Request(r)
        PROVE  RequestsOK'
    BY <1>2, RequestMoves, Alone
  <1> QED BY <1>1, <1>2 DEF Next

-----------------------------------------------------------------------------
(* The tables.                                                             *)

\* What a step that removes no post leaves alone still fits.
LEMMA Fits ==
  ASSUME RowsOK, DOMAIN posts \subseteq DOMAIN posts'
  PROVE  /\ UNCHANGED reports => ReportsFit'
         /\ UNCHANGED tagVars => TagsFit'
         /\ UNCHANGED reactionVars => ReactionsFit'
         /\ UNCHANGED bookmarkVars => MarksFit'
         /\ UNCHANGED notices => NotificationsTypeOK'
         /\ UNCHANGED followVars => FollowsTypeOK'
         /\ UNCHANGED <<posts, decisions>> => PostsTypeOK'
  <1>1. UNCHANGED reports => ReportsFit'
    BY DEF RowsOK, ReportsFit, ModerationTypeOK, Exists
  <1>2. UNCHANGED tagVars => TagsFit'
    BY DEF RowsOK, TagsFit, PostTagsTypeOK, tagVars
  <1>3. UNCHANGED reactionVars => ReactionsFit'
    BY DEF RowsOK, ReactionsFit, ReactionsTypeOK, reactionVars, Exists
  <1>4. UNCHANGED bookmarkVars => MarksFit'
    BY DEF RowsOK, MarksFit, BookmarksTypeOK, bookmarkVars, Exists
  <1>5. UNCHANGED notices => NotificationsTypeOK'
    BY DEF RowsOK, NotificationsTypeOK
  <1>6. UNCHANGED followVars => FollowsTypeOK'
    BY DEF RowsOK, FollowsTypeOK, followVars
  <1>7. UNCHANGED <<posts, decisions>> => PostsTypeOK'
    BY DEF RowsOK, PostsTypeOK
  <1> QED BY <1>1, <1>2, <1>3, <1>4, <1>5, <1>6, <1>7

\* One row of the posts table is changed.
LEMMA Patched ==
  ASSUME PostsTypeOK, NEW p, NEW row, p \in DOMAIN posts => row \in PostRow,
         posts' = [posts EXCEPT ![p] = row]
  PROVE  DOMAIN posts' = DOMAIN posts /\ posts' \in [DOMAIN posts' -> PostRow]
  BY DEF PostsTypeOK

LEMMA Counters ==
  ASSUME PostsTypeOK, NEW p \in DOMAIN posts, NEW n \in Int
  PROVE  /\ [posts[p] EXCEPT !.likes = posts[p].likes + n] \in PostRow
         /\ [posts[p] EXCEPT !.views = posts[p].views + n] \in PostRow
         /\ [posts[p] EXCEPT !.bookmarks = posts[p].bookmarks + n] \in PostRow
         /\ \A b \in BOOLEAN : [posts[p] EXCEPT !.hidden = b] \in PostRow
  <1>1. posts[p] \in PostRow
    BY DEF PostsTypeOK
  <1> QED BY <1>1 DEF PostRow

LEMMA ModerationRows ==
  ASSUME RequestsOK, RowsOK, NEW r \in Requests, ModerationStep(r),
         UNCHANGED <<tagVars, reactionVars, bookmarkVars, notices, followVars>>
  PROVE  RowsOK'
  <1>1. CASE FindReported(r) \/ LockPost(r)
    <2>1. UNCHANGED <<posts, decisions, reports>>
      BY <1>1 DEF FindReported, LockPost, postVars
    <2> QED BY <2>1, Fits DEF RowsOK
  <1>2. CASE InsertReport(r)
    <2>1. UNCHANGED <<posts, decisions>> /\ call[r] \in Locals
      BY <1>2, AtModeration DEF InsertReport, postVars
    <2>2. NewReport(r) \in Report
      BY <2>1 DEF NewReport, Report, Locals, RowsOK, PostsTypeOK
    <2>3. NewReport(r).post = call[r].post
      BY DEF NewReport
    <2>4. ReportsFit'
      BY <1>2, <2>1, <2>2, <2>3 DEF InsertReport, RowsOK, ReportsFit, ModerationTypeOK, Exists
    <2> QED BY <2>1, <2>4, Fits DEF RowsOK
  <1>3. CASE Decide(r)
    <2> DEFINE p == call[r].post
               kind == call[r].kind
    <2>1. p \in Post /\ kind \in Kinds
      BY <1>3, AtModeration DEF Decide, ModerateLocals
    <2>2. decisions' \in Seq(Decision)
      <3>1. [post |-> p, kind |-> kind] \in Decision
        BY <2>1 DEF Decision
      <3> QED BY <1>3, <3>1 DEF Decide, RowsOK, PostsTypeOK
    <2>3. posts' = IF kind = "dismiss" THEN posts ELSE [posts EXCEPT ![p].hidden = (kind = "hide")]
      BY <1>3 DEF Decide
    <2>4. DOMAIN posts' = DOMAIN posts /\ posts' \in [DOMAIN posts' -> PostRow]
      <3>1. ASSUME p \in DOMAIN posts
            PROVE  [posts[p] EXCEPT !.hidden = (kind = "hide")] \in PostRow
        <4>1. posts[p] \in PostRow
          BY <3>1 DEF RowsOK, PostsTypeOK
        <4>2. (kind = "hide") \in BOOLEAN
          OBVIOUS
        <4> QED BY <4>1, <4>2 DEF PostRow
      <3>2. CASE kind = "dismiss"
        BY <2>3, <3>2 DEF RowsOK, PostsTypeOK
      <3>3. CASE kind # "dismiss"
        BY <2>3, <3>1, <3>3, Patched DEF RowsOK
      <3> QED BY <3>2, <3>3
    <2>5. \/ reports' = reports
          \/ \E status \in {"resolved", "dismissed"} : ClosePending(p, status)
      BY <1>3, <2>1 DEF Decide, Kinds
    <2>6. ASSUME NEW status \in {"resolved", "dismissed"}, ClosePending(p, status)
          PROVE  ReportsFit'
      <3>1. Len(decisions) + 1 \in Nat
        BY DEF RowsOK, PostsTypeOK
      <3>2. ASSUME NEW x \in Pending(p)
            PROVE  /\ [x EXCEPT !.status = status, !.by = Len(decisions) + 1] \in Report
                   /\ [x EXCEPT !.status = status, !.by = Len(decisions) + 1].post = x.post
        BY <3>1 DEF Pending, RowsOK, ReportsFit, ModerationTypeOK, Report
      <3>3. \A x \in reports' : x \in reports
              \/ \E y \in Pending(p) : x = [y EXCEPT !.status = status, !.by = Len(decisions) + 1]
        BY <2>6 DEF ClosePending
      <3>4. reports \subseteq Report /\ \A x \in reports : x.post \in DOMAIN posts
        BY DEF RowsOK, ReportsFit, ModerationTypeOK, Exists
      <3>5. Pending(p) \subseteq reports
        BY DEF Pending
      <3>6. ASSUME NEW x \in reports'
            PROVE  x \in Report /\ x.post \in DOMAIN posts
        <4>1. CASE x \in reports
          BY <3>4, <4>1
        <4>2. CASE x \notin reports
          <5>1. PICK y \in Pending(p) : x = [y EXCEPT !.status = status, !.by = Len(decisions) + 1]
            BY <3>3, <4>2
          <5> QED BY <3>2, <3>4, <3>5, <5>1
        <4> QED BY <4>1, <4>2
      <3> QED BY <2>4, <3>6 DEF ReportsFit, ModerationTypeOK, Exists
    <2>7. ReportsFit'
      BY <2>4, <2>5, <2>6, Fits
    <2>8. PostsTypeOK'
      BY <2>2, <2>4 DEF PostsTypeOK, RowsOK
    <2> QED BY <2>4, <2>7, <2>8, Fits DEF RowsOK
  <1> QED BY <1>1, <1>2, <1>3 DEF ModerationStep

\* A table with one more row, and with some rows less.
LEMMA WithRow ==
  ASSUME NEW table, NEW key, NEW row
  PROVE  /\ DOMAIN With(table, key, row) = DOMAIN table \cup {key}
         /\ With(table, key, row)[key] = row
         /\ \A k \in DOMAIN table : k # key => With(table, key, row)[k] = table[k]
  BY DEF With

LEMMA WithoutRows ==
  ASSUME NEW table, NEW keys
  PROVE  /\ DOMAIN Without(table, keys) = DOMAIN table \ keys
         /\ \A k \in DOMAIN table \ keys : Without(table, keys)[k] = table[k]
  BY DEF Without

LEMMA WithTyped ==
  ASSUME NEW table, NEW T, table \in [DOMAIN table -> T], NEW key, NEW row \in T
  PROVE  With(table, key, row) \in [DOMAIN With(table, key, row) -> T]
  BY DEF With

LEMMA WithoutTyped ==
  ASSUME NEW table, NEW T, table \in [DOMAIN table -> T], NEW keys
  PROVE  Without(table, keys) \in [DOMAIN Without(table, keys) -> T]
  BY DEF Without

\* Likes, views and comments.
LEMMA ReactionsRows ==
  ASSUME RequestsOK, RowsOK, NEW r \in Requests, ReactionsStep(r),
         UNCHANGED <<reports, tagVars, bookmarkVars, followVars>>
  PROVE  RowsOK'
  <1> USE DEF Exists
  <1>1. CASE CheckLike(r) \/ FindView(r) \/ FindComment(r)
    <2>1. UNCHANGED <<posts, decisions, notices, reactionVars>>
      BY <1>1 DEF CheckLike, FindView, FindComment, postVars
    <2> QED BY <2>1, Fits DEF RowsOK
  <1>2. CASE InsertLike(r) \/ DeleteLike(r)
    <2> DEFINE p == call[r].post
    <2>1. p \in Post /\ Mine(r) = <<p, call[r].user>> /\ call[r].user \in Users
      BY <1>2, AtReactions DEF InsertLike, DeleteLike, Mine, Locals
    <2>2. UNCHANGED <<decisions, notices, views, markers, comments>>
      BY <1>2 DEF InsertLike, DeleteLike
    <2>3. \/ posts' = posts /\ likes' = likes
          \/ /\ p \in DOMAIN posts /\ likes' = likes \cup {Mine(r)}
             /\ posts' = [posts EXCEPT ![p] = [posts[p] EXCEPT !.likes = posts[p].likes + 1]]
          \/ /\ Mine(r) \in likes /\ likes' = likes \ {Mine(r)}
             /\ posts' = [posts EXCEPT ![p] = [posts[p] EXCEPT !.likes = posts[p].likes - 1]]
      BY <1>2 DEF InsertLike, DeleteLike
    <2>4. Mine(r) \in likes => p \in DOMAIN posts
      BY <2>1 DEF RowsOK, ReactionsFit, ReactionsTypeOK
    <2>5. ASSUME p \in DOMAIN posts
          PROVE  /\ [posts[p] EXCEPT !.likes = posts[p].likes + 1] \in PostRow
                 /\ [posts[p] EXCEPT !.likes = posts[p].likes - 1] \in PostRow
      <3>1. posts[p] \in PostRow
        BY <2>5 DEF RowsOK, PostsTypeOK
      <3> QED BY <3>1 DEF PostRow
    <2>6. DOMAIN posts' = DOMAIN posts /\ posts' \in [DOMAIN posts' -> PostRow]
      BY <2>3, <2>4, <2>5, Patched DEF RowsOK, PostsTypeOK
    <2>7. likes' \subseteq (DOMAIN posts) \X Users
      BY <2>1, <2>3 DEF RowsOK, ReactionsFit, ReactionsTypeOK
    <2>9. IsFiniteSet(likes')
      <3>1. IsFiniteSet(likes)
        BY DEF RowsOK, ReactionsFit
      <3> QED BY <2>3, <3>1, FS_AddElement, FS_RemoveElement
    <2>8. PostsTypeOK' /\ ReactionsFit'
      BY <2>2, <2>6, <2>7, <2>9 DEF PostsTypeOK, ReactionsFit, ReactionsTypeOK, RowsOK
    <2> QED BY <2>2, <2>6, <2>8, Fits DEF RowsOK
  <1>3. CASE InsertView(r)
    <2> DEFINE p == call[r].post
    <2>1. p \in Post /\ Mine(r) = <<p, call[r].user>> /\ call[r].user \in Users
      BY <1>3, AtReactions DEF InsertView, Mine, Locals
    <2>2. UNCHANGED <<decisions, notices, likes, markers, comments>>
      BY <1>3 DEF InsertView
    <2>3. \/ posts' = posts /\ views' = views
          \/ /\ p \in DOMAIN posts /\ views' = views \cup {Mine(r)}
             /\ posts' = [posts EXCEPT ![p] = [posts[p] EXCEPT !.views = posts[p].views + 1]]
      BY <1>3 DEF InsertView
    <2>4. ASSUME p \in DOMAIN posts
          PROVE  [posts[p] EXCEPT !.views = posts[p].views + 1] \in PostRow
      <3>1. posts[p] \in PostRow
        BY <2>4 DEF RowsOK, PostsTypeOK
      <3> QED BY <3>1 DEF PostRow
    <2>5. DOMAIN posts' = DOMAIN posts /\ posts' \in [DOMAIN posts' -> PostRow]
      BY <2>3, <2>4, Patched DEF RowsOK, PostsTypeOK
    <2>6. views' \subseteq (DOMAIN posts) \X Users
      BY <2>1, <2>3 DEF RowsOK, ReactionsFit, ReactionsTypeOK
    <2>8. IsFiniteSet(views')
      <3>1. IsFiniteSet(views)
        BY DEF RowsOK, ReactionsFit
      <3> QED BY <2>3, <3>1, FS_AddElement
    <2>7. PostsTypeOK' /\ ReactionsFit'
      BY <2>2, <2>5, <2>6, <2>8 DEF PostsTypeOK, ReactionsFit, ReactionsTypeOK, RowsOK
    <2> QED BY <2>2, <2>5, <2>7, Fits DEF RowsOK
  <1>4. CASE MarkViewed(r)
    <2>1. call[r].post \in Post /\ call[r].user \in Users
      BY <1>4, AtReactions DEF MarkViewed, Locals
    <2>2. /\ UNCHANGED <<posts, decisions, notices, likes, views, comments>>
          /\ markers' \in {markers, markers \cup {Mine(r)}}
      BY <1>4 DEF MarkViewed, postVars
    <2>3. ReactionsFit'
      BY <2>1, <2>2 DEF RowsOK, ReactionsFit, ReactionsTypeOK, Mine
    <2> QED BY <2>2, <2>3, Fits DEF RowsOK
  <1>5. CASE InsertComment(r) \/ SaveComment(r) \/ DeleteComment(r)
    <2>1. UNCHANGED <<posts, decisions, notices, likes, views, markers>>
      BY <1>5 DEF InsertComment, SaveComment, DeleteComment, postVars
    <2>2. \/ comments' = comments
          \/ \E c \in Comment, row \in CommentRow : row.post \in DOMAIN posts /\ comments' = With(comments, c, row)
      <3>1. CASE InsertComment(r)
        <4>1. call[r].post \in Post /\ call[r].user \in Users
          BY <3>1, AtReactions DEF InsertComment, TellLocals
        <4>2. [post |-> call[r].post, author |-> call[r].user, deleted |-> FALSE] \in CommentRow
          BY <4>1 DEF CommentRow
        <4> QED BY <3>1, <4>2 DEF InsertComment, Fresh
      <3>2. CASE SaveComment(r)
        BY <3>2, AtReactions DEF SaveComment, EditLocals
      <3>3. CASE DeleteComment(r)
        <4> DEFINE c == call[r].comment
                   row == [comments[c] EXCEPT !.deleted = TRUE]
        <4>1. SUFFICES ASSUME c \in DOMAIN comments, comments' = [comments EXCEPT ![c] = row]
                       PROVE  \E k \in Comment, x \in CommentRow : x.post \in DOMAIN posts /\ comments' = With(comments, k, x)
          BY <3>3 DEF DeleteComment, There
        <4>2. comments[c] \in CommentRow /\ comments[c].post \in DOMAIN posts /\ c \in Comment
          BY <4>1 DEF RowsOK, ReactionsFit, ReactionsTypeOK
        <4>3. row \in CommentRow /\ row.post \in DOMAIN posts
          BY <4>2 DEF CommentRow
        <4> HIDE DEF row
        <4>4. [comments EXCEPT ![c] = row] = With(comments, c, row)
          BY <4>1 DEF With, RowsOK, ReactionsFit, ReactionsTypeOK
        <4> QED BY <4>1, <4>2, <4>3, <4>4
      <3> QED BY <1>5, <3>1, <3>2, <3>3
    <2>3. ASSUME NEW c \in Comment, NEW row \in CommentRow, row.post \in DOMAIN posts,
                 comments' = With(comments, c, row)
          PROVE  ReactionsFit'
      <3>1. /\ DOMAIN comments' = DOMAIN comments \cup {c} /\ comments'[c] = row
            /\ \A k \in DOMAIN comments : k # c => comments'[k] = comments[k]
        BY <2>3 DEF With
      <3>2. comments' \in [DOMAIN comments' -> CommentRow]
        BY <2>3, WithTyped DEF RowsOK, ReactionsFit, ReactionsTypeOK
      <3>3. \A k \in DOMAIN comments' : comments'[k].post \in DOMAIN posts
        BY <2>3, <3>1 DEF RowsOK, ReactionsFit
      <3> QED BY <2>1, <3>1, <3>2, <3>3 DEF RowsOK, ReactionsFit, ReactionsTypeOK
    <2>4. ReactionsFit'
      <3>1. CASE comments' = comments
        BY <2>1, <3>1, Fits DEF reactionVars
      <3> QED BY <2>2, <2>3, <3>1
    <2> QED BY <2>1, <2>4, Fits DEF RowsOK
  <1> QED BY <1>1, <1>2, <1>3, <1>4, <1>5 DEF ReactionsStep

\* Notifications.
LEMMA NotificationsRows ==
  ASSUME RequestsOK, RowsOK, NEW r \in Requests,
         (Notify(r) \/ NotificationsStart(r)),
         UNCHANGED <<reports, tagVars, reactionVars, bookmarkVars, followVars>>
  PROVE  RowsOK'
  <1>1. UNCHANGED <<posts, decisions>>
    BY DEF Notify, NotificationsStart, MarkAsRead, MarkAllAsRead, postVars
  <1>2. CASE Notify(r)
    <2>1. call[r].user \in Users /\ call[r].tell \in Users
      BY <1>2, AtCommon DEF Notify, TellLocals
    <2> DEFINE row == [user |-> call[r].tell, from |-> call[r].user, read |-> FALSE]
    <2>2. row \in NoticeRow
      BY <2>1 DEF NoticeRow
    <2> HIDE DEF row
    <2>3. notices' = notices \/ \E n \in Notice : notices' = With(notices, n, row)
      BY <1>2 DEF Notify, row
    <2>4. ASSUME NEW n \in Notice, notices' = With(notices, n, row)
          PROVE  NotificationsTypeOK'
      <3>1. DOMAIN notices' = DOMAIN notices \cup {n}
        BY <2>4 DEF With
      <3>2. notices' \in [DOMAIN notices' -> NoticeRow]
        BY <2>2, <2>4, WithTyped DEF RowsOK, NotificationsTypeOK
      <3> QED BY <3>1, <3>2 DEF RowsOK, NotificationsTypeOK
    <2>5. notices' = notices => NotificationsTypeOK'
      BY DEF RowsOK, NotificationsTypeOK
    <2> QED BY <1>1, <2>3, <2>4, <2>5, Fits DEF RowsOK
  <1>3. ASSUME NEW u \in Users, NEW n \in Notice, MarkAsRead(r, u, n)
        PROVE  RowsOK'
    <2>1. notices[n] \in NoticeRow /\ n \in DOMAIN notices
      BY <1>3 DEF MarkAsRead, RowsOK, NotificationsTypeOK
    <2>2. [notices[n] EXCEPT !.read = TRUE] \in NoticeRow
      BY <2>1 DEF NoticeRow
    <2>3. NotificationsTypeOK'
      BY <1>3, <2>2 DEF MarkAsRead, RowsOK, NotificationsTypeOK
    <2> QED BY <1>1, <2>3, Fits DEF RowsOK
  <1>4. ASSUME NEW u \in Users, MarkAllAsRead(r, u)
        PROVE  RowsOK'
    <2>1. ASSUME NEW n \in DOMAIN notices
          PROVE  [notices[n] EXCEPT !.read = @ \/ notices[n].user = u] \in NoticeRow
      <3>1. notices[n] \in NoticeRow
        BY DEF RowsOK, NotificationsTypeOK
      <3>2. (notices[n].read \/ notices[n].user = u) \in BOOLEAN
        OBVIOUS
      <3> QED BY <3>1, <3>2 DEF NoticeRow
    <2>2. NotificationsTypeOK'
      BY <1>4, <2>1 DEF MarkAllAsRead, RowsOK, NotificationsTypeOK
    <2> QED BY <1>1, <2>2, Fits DEF RowsOK
  <1> QED BY <1>2, <1>3, <1>4 DEF NotificationsStart

-----------------------------------------------------------------------------
(* Counting pairs.                                                         *)

From(S, u) == {x \in S : x[1] = u}
To(S, u) == {x \in S : x[2] = u}

LEMMA OneMore ==
  ASSUME NEW S, IsFiniteSet(S), NEW x, x \notin S, NEW u
  PROVE  /\ Cardinality(From(S, u)) \in Nat /\ Cardinality(To(S, u)) \in Nat
         /\ Cardinality(From(S \cup {x}, u)) = Cardinality(From(S, u)) + (IF x[1] = u THEN 1 ELSE 0)
         /\ Cardinality(To(S \cup {x}, u)) = Cardinality(To(S, u)) + (IF x[2] = u THEN 1 ELSE 0)
  <1>1. /\ IsFiniteSet(From(S, u)) /\ IsFiniteSet(To(S, u))
        /\ x \notin From(S, u) /\ x \notin To(S, u)
    BY FS_Subset DEF From, To
  <1>2. From(S \cup {x}, u) = IF x[1] = u THEN From(S, u) \cup {x} ELSE From(S, u)
    BY DEF From
  <1>3. To(S \cup {x}, u) = IF x[2] = u THEN To(S, u) \cup {x} ELSE To(S, u)
    BY DEF To
  <1>4. /\ Cardinality(From(S, u)) \in Nat
        /\ Cardinality(From(S, u) \cup {x}) = Cardinality(From(S, u)) + 1
    BY <1>1, FS_AddElement, FS_CardinalityType
  <1>5. /\ Cardinality(To(S, u)) \in Nat
        /\ Cardinality(To(S, u) \cup {x}) = Cardinality(To(S, u)) + 1
    BY <1>1, FS_AddElement, FS_CardinalityType
  <1> QED BY <1>2, <1>3, <1>4, <1>5

\* Who follows whom, counted.
LEMMA FollowsRows ==
  ASSUME RequestsOK, RowsOK, FollowsCounted, NEW r \in Requests, FollowsStep(r),
         UNCHANGED <<reports, tagVars, reactionVars, bookmarkVars>>
  PROVE  RowsOK' /\ FollowsCounted'
  <1>1. UNCHANGED <<posts, decisions, notices>>
    BY DEF FollowsStep, CheckFollow, InsertFollow, DeleteFollow, postVars
  <1> DEFINE u == call[r].user
             v == call[r].tell
  <1>2. CASE UNCHANGED followVars
    <2>1. FollowsCounted'
      BY <1>2 DEF FollowsCounted, followVars
    <2> QED BY <1>1, <1>2, <2>1, Fits DEF RowsOK
  <1>3. ASSUME ~UNCHANGED followVars
        PROVE  /\ u \in Users /\ v \in Users /\ Pair(r) = <<u, v>>
               /\ \/ Pair(r) \notin follows /\ follows' = follows \cup {Pair(r)} /\ CountFollow(Pair(r), 1)
                  \/ Pair(r) \in follows /\ follows' = follows \ {Pair(r)} /\ CountFollow(Pair(r), -1)
    <2>1. At(r, "insertFollow") \/ At(r, "deleteFollow")
      BY <1>3 DEF FollowsStep, CheckFollow, InsertFollow, DeleteFollow
    <2>2. u \in Users /\ v \in Users
      BY <2>1, AtFollows DEF TellLocals
    <2> QED BY <1>3, <2>2 DEF FollowsStep, CheckFollow, InsertFollow, DeleteFollow, Pair
  <1>4. CASE ~UNCHANGED followVars
    <2> HIDE DEF u, v
    <2>1. /\ follows \subseteq Users \X Users /\ followers \in [Users -> Nat] /\ following \in [Users -> Nat]
          /\ IsFiniteSet(follows)
      BY DEF RowsOK, FollowsTypeOK, FollowsCounted
    <2>2. PICK n \in {1, -1} :
            /\ n = 1 => <<u, v>> \notin follows /\ follows' = follows \cup {<<u, v>>}
            /\ n = -1 => <<u, v>> \in follows /\ follows' = follows \ {<<u, v>>}
            /\ following' = [following EXCEPT ![u] = following[u] + n]
            /\ followers' = [followers EXCEPT ![v] = followers[v] + n]
      BY <1>3, <1>4 DEF CountFollow
    <2>3. follows' \subseteq Users \X Users
      BY <1>3, <1>4, <2>1, <2>2
    <2>4. IsFiniteSet(follows')
      BY <2>1, <2>2, FS_AddElement, FS_RemoveElement
    <2>5. ASSUME NEW w \in Users
          PROVE  /\ following'[w] = Cardinality(From(follows', w))
                 /\ followers'[w] = Cardinality(To(follows', w))
                 /\ following'[w] \in Nat /\ followers'[w] \in Nat
      <3>1. /\ following[w] = Cardinality(From(follows, w))
            /\ followers[w] = Cardinality(To(follows, w))
        BY DEF FollowsCounted, From, To
      <3>2. following'[w] = following[w] + (IF u = w THEN n ELSE 0)
        BY <2>1, <2>2
      <3>3. followers'[w] = followers[w] + (IF v = w THEN n ELSE 0)
        BY <2>1, <2>2
      <3>4. CASE n = 1
        <4> DEFINE x == <<u, v>>
        <4>3. x[1] = u /\ x[2] = v /\ x \notin follows /\ follows' = follows \cup {x}
          BY <2>2, <3>4
        <4> HIDE DEF x
        <4>2. /\ Cardinality(From(follows \cup {x}, w)) = Cardinality(From(follows, w)) + (IF x[1] = w THEN 1 ELSE 0)
              /\ Cardinality(To(follows \cup {x}, w)) = Cardinality(To(follows, w)) + (IF x[2] = w THEN 1 ELSE 0)
              /\ Cardinality(From(follows, w)) \in Nat /\ Cardinality(To(follows, w)) \in Nat
          BY <2>1, <4>3, OneMore
        <4>1. /\ Cardinality(From(follows', w)) = Cardinality(From(follows, w)) + (IF u = w THEN 1 ELSE 0)
              /\ Cardinality(To(follows', w)) = Cardinality(To(follows, w)) + (IF v = w THEN 1 ELSE 0)
              /\ Cardinality(From(follows, w)) \in Nat /\ Cardinality(To(follows, w)) \in Nat
          BY <4>2, <4>3
        <4> QED BY <3>1, <3>2, <3>3, <3>4, <4>1
      <3>5. CASE n = -1
        <4> DEFINE x == <<u, v>>
        <4>3. x[1] = u /\ x[2] = v /\ x \notin follows' /\ follows = follows' \cup {x}
          BY <2>2, <3>5
        <4> HIDE DEF x
        <4>2. /\ Cardinality(From(follows' \cup {x}, w)) = Cardinality(From(follows', w)) + (IF x[1] = w THEN 1 ELSE 0)
              /\ Cardinality(To(follows' \cup {x}, w)) = Cardinality(To(follows', w)) + (IF x[2] = w THEN 1 ELSE 0)
              /\ Cardinality(From(follows', w)) \in Nat /\ Cardinality(To(follows', w)) \in Nat
          BY <2>4, <4>3, OneMore
        <4>1. /\ Cardinality(From(follows, w)) = Cardinality(From(follows', w)) + (IF u = w THEN 1 ELSE 0)
              /\ Cardinality(To(follows, w)) = Cardinality(To(follows', w)) + (IF v = w THEN 1 ELSE 0)
              /\ Cardinality(From(follows', w)) \in Nat /\ Cardinality(To(follows', w)) \in Nat
          BY <4>2, <4>3
        <4> QED BY <3>1, <3>2, <3>3, <3>5, <4>1
      <3> QED BY <3>4, <3>5
    <2>6. following' \in [Users -> Nat] /\ followers' \in [Users -> Nat]
      BY <2>1, <2>2, <2>5
    <2>7. FollowsTypeOK' /\ FollowsCounted'
      BY <2>3, <2>4, <2>5, <2>6 DEF FollowsTypeOK, FollowsCounted, From, To
    <2> QED BY <1>1, <2>7, Fits DEF RowsOK
  <1> QED BY <1>2, <1>4

\* Tags.
LEMMA SavedTags ==
  ASSUME RowsOK, NEW r, call[r].found \subseteq [id : Tags, name : TagNames]
  PROVE  /\ DOMAIN tags \subseteq DOMAIN TagsSaved(r) /\ DOMAIN TagsSaved(r) \subseteq Tags
         /\ TagsSaved(r) \in [DOMAIN TagsSaved(r) -> TagNames]
         /\ \A t \in DOMAIN tags : TagsSaved(r)[t] = tags[t]
  <1> DEFINE lost == {x \in call[r].found : x.id \notin DOMAIN tags /\ TagNamed(x.name) = {}}
             name(t) == (CHOOSE x \in lost : x.id = t).name
  <1>1. DOMAIN tags \subseteq Tags /\ tags \in [DOMAIN tags -> TagNames]
    BY DEF RowsOK, TagsFit, PostTagsTypeOK
  <1>2. \A x \in lost : x.id \in Tags /\ x.name \in TagNames
    OBVIOUS
  <1>3. TagsSaved(r) = [t \in DOMAIN tags \cup {x.id : x \in lost} |-> IF t \in DOMAIN tags THEN tags[t] ELSE name(t)]
    BY DEF TagsSaved
  <1>4. ASSUME NEW t \in {x.id : x \in lost}
        PROVE  name(t) \in TagNames
    BY <1>2
  <1> HIDE DEF name, lost
  <1>5. {x.id : x \in lost} \subseteq Tags
    BY <1>2
  <1> QED BY <1>1, <1>3, <1>4, <1>5

LEMMA SavedFit ==
  ASSUME RowsOK, NEW r, call[r].found \subseteq [id : Tags, name : TagNames], call[r].wants \subseteq TagNames,
         NEW p \in Post, p \in DOMAIN posts', DOMAIN posts \subseteq DOMAIN posts',
         Ids(r) \subseteq DOMAIN TagsSaved(r), tags' = TagsSaved(r),
         tagged' = tagged \cup ({p} \X Ids(r)), UNCHANGED lists,
         Settle(r, p, TagsSaved(r)) \/ (r \in Requests /\ asked' = [asked EXCEPT ![p] = r])
  PROVE  TagsFit'
  <1>1. /\ DOMAIN tags \subseteq DOMAIN tags' /\ DOMAIN tags' \subseteq Tags
        /\ tags' \in [DOMAIN tags' -> TagNames]
    BY SavedTags
  <1>2. tagged' \subseteq (DOMAIN posts') \X (DOMAIN tags')
    BY <1>1 DEF RowsOK, TagsFit, PostTagsTypeOK
  <1>3. /\ DOMAIN asked' = Post
        /\ \A q \in Post : asked'[q] = None \/ asked'[q] \in Requests \/ asked'[q] \subseteq TagNames
    BY DEF RowsOK, TagsFit, PostTagsTypeOK, Settle
  <1> QED BY <1>1, <1>2, <1>3 DEF RowsOK, TagsFit, PostTagsTypeOK

LEMMA TagsRows ==
  ASSUME RequestsOK, RowsOK, NEW r \in Requests, (PostTagsStep(r) \/ TagsStart(r)),
         UNCHANGED <<reports, reactionVars, bookmarkVars, notices, followVars>>
  PROVE  RowsOK'
  <1>1. CASE FindTag(r) \/ FindTagAgain(r) \/ FindOwn(r) \/ LookUp(r) \/ Query(r)
    <2>1. UNCHANGED <<posts, decisions, tagVars>>
      BY <1>1 DEF FindTag, FindTagAgain, FindOwn, LookUp, Query, postVars
    <2> QED BY <2>1, Fits DEF RowsOK
  <1>2. ASSUME NEW t \in Tags, NEW n \in TagNames, tags' = With(tags, t, n),
               UNCHANGED <<posts, decisions, tagged, lists, asked>>
        PROVE  RowsOK'
    <2>1. DOMAIN tags' = DOMAIN tags \cup {t}
      BY <1>2 DEF With
    <2>2. tags' \in [DOMAIN tags' -> TagNames]
      BY <1>2, WithTyped DEF RowsOK, TagsFit, PostTagsTypeOK
    <2>3. TagsFit'
      BY <1>2, <2>1, <2>2 DEF RowsOK, TagsFit, PostTagsTypeOK
    <2> QED BY <1>2, <2>3, Fits DEF RowsOK
  <1>3. CASE InsertTag(r)
    <2>1. CASE UNCHANGED tags
      <3>1. UNCHANGED <<posts, decisions, tagVars>>
        BY <1>3, <2>1 DEF InsertTag, postVars, tagVars
      <3> QED BY <3>1, Fits DEF RowsOK
    <2>2. CASE ~UNCHANGED tags
      <3>1. call[r].tag \in TagNames
        BY <1>3, AtTags DEF InsertTag, Writing, CreatingPost, UpdatingPost, WriteLocals
      <3>2. PICK t \in Fresh(Tags, tags) : tags' = With(tags, t, call[r].tag)
        BY <1>3, <2>2 DEF InsertTag
      <3>3. UNCHANGED <<posts, decisions, tagged, lists, asked>>
        BY <1>3 DEF InsertTag, postVars
      <3> QED BY <1>2, <3>1, <3>2, <3>3 DEF Fresh
    <2> QED BY <2>1, <2>2
  <1>4. CASE InsertTaggedPost(r)
    <2>1. call[r] \in WriteLocals /\ call[r].user \in Users
      BY <1>4, AtTags DEF InsertTaggedPost, CreatingPost
    <2>2. CASE UNCHANGED posts
      <3>1. UNCHANGED <<posts, decisions, tagVars>>
        <4>1. ASSUME NEW p \in Post, InsertPost(p, call[r].user)
              PROVE  FALSE
          BY <2>2, <4>1 DEF InsertPost, Fresh, With
        <4> QED BY <1>4, <4>1 DEF InsertTaggedPost, postVars, tagVars
      <3> QED BY <3>1, Fits DEF RowsOK
    <2>3. CASE ~UNCHANGED posts
      <3>1. PICK p \in Post :
              /\ Ids(r) \subseteq DOMAIN TagsSaved(r) /\ InsertPost(p, call[r].user)
              /\ tags' = TagsSaved(r) /\ tagged' = tagged \cup ({p} \X Ids(r)) /\ Settle(r, p, TagsSaved(r))
        BY <1>4, <2>3 DEF InsertTaggedPost, postVars
      <3>2. NewPost(call[r].user) \in PostRow
        BY <2>1 DEF NewPost, PostRow
      <3>3. posts' = With(posts, p, NewPost(call[r].user)) /\ UNCHANGED <<decisions, lists>>
        BY <1>4, <3>1 DEF InsertPost, InsertTaggedPost
      <3>4. DOMAIN posts' = DOMAIN posts \cup {p}
        BY <3>3 DEF With
      <3>5. posts' \in [DOMAIN posts' -> PostRow]
        BY <3>2, <3>3, WithTyped DEF RowsOK, PostsTypeOK
      <3>6. PostsTypeOK'
        BY <3>3, <3>4, <3>5 DEF RowsOK, PostsTypeOK
      <3>7. TagsFit'
        BY <2>1, <3>1, <3>3, <3>4, SavedFit DEF WriteLocals
      <3> QED BY <3>4, <3>6, <3>7, Fits DEF RowsOK
    <2> QED BY <2>2, <2>3
  <1>5. CASE Attach(r)
    <2>1. call[r] \in WriteLocals /\ call[r].post \in Post
      BY <1>5, AtTags DEF Attach, UpdatingPost
    <2>2. UNCHANGED <<posts, decisions, lists>>
      BY <1>5 DEF Attach, postVars
    <2>3. TagsFit'
      BY <1>5, <2>1, <2>2, SavedFit, Fits DEF Attach, Exists, WriteLocals, tagVars
    <2> QED BY <2>2, <2>3, Fits DEF RowsOK
  <1>6. CASE Detach(r)
    <2>1. call[r] \in WriteLocals /\ call[r].post \in Post
      BY <1>6, AtTags DEF Detach, UpdatingPost
    <2>2. UNCHANGED <<posts, decisions, tags, lists>> /\ tagged' \subseteq tagged
      BY <1>6 DEF Detach, postVars
    <2>3. PICK a : a \in {None} \cup SUBSET TagNames /\ asked' = [asked EXCEPT ![call[r].post] = a]
      BY <1>6, <2>1 DEF Detach, Settle, WriteLocals
    <2>4. TagsFit'
      BY <2>2, <2>3 DEF RowsOK, TagsFit, PostTagsTypeOK
    <2> QED BY <2>2, <2>4, Fits DEF RowsOK
  <1>7. CASE Store(r)
    <2>1. call[r] \in ListLocals
      BY <1>7, AtTags DEF Store
    <2>2. UNCHANGED <<posts, decisions, tags, tagged, asked>>
      BY <1>7 DEF Store, postVars
    <2> DEFINE list == [shows |-> call[r].shows, began |-> call[r].began]
    <2>3. list \in List
      BY <2>1 DEF List, ListLocals
    <2> HIDE DEF list
    <2>4. lists' = lists \/ lists' = [lists EXCEPT ![call[r].kind] = list]
      BY <1>7 DEF Store, list
    <2>5. TagsFit'
      BY <2>2, <2>3, <2>4 DEF RowsOK, TagsFit, PostTagsTypeOK
    <2> QED BY <2>2, <2>5, Fits DEF RowsOK
  <1>8. ASSUME NEW n \in TagNames, CreateTag(r, n)
        PROVE  RowsOK'
    BY <1>2, <1>8 DEF CreateTag, Fresh, postVars
  <1>9. ASSUME NEW n \in TagNames, NEW t \in Tags, UpdateTag(r, t, n)
        PROVE  RowsOK'
    <2>1. UNCHANGED <<posts, decisions, tagged, lists>> /\ asked' = [p \in Post |-> None]
          /\ tags' = [tags EXCEPT ![t] = n]
      BY <1>9 DEF UpdateTag, TagsChange, postVars
    <2>2. TagsFit'
      BY <2>1 DEF RowsOK, TagsFit, PostTagsTypeOK
    <2> QED BY <2>1, <2>2, Fits DEF RowsOK
  <1>10. ASSUME NEW t \in Tags, DeleteTag(r, t)
         PROVE  RowsOK'
    <2>1. /\ UNCHANGED <<posts, decisions, lists>> /\ asked' = [p \in Post |-> None]
          /\ tags' = Without(tags, {t}) /\ tagged' = {x \in tagged : x[2] # t}
      BY <1>10 DEF DeleteTag, TagsChange
    <2>2. DOMAIN tags' = DOMAIN tags \ {t}
      BY <2>1 DEF Without
    <2>3. tags' \in [DOMAIN tags' -> TagNames]
      BY <2>1, WithoutTyped DEF RowsOK, TagsFit, PostTagsTypeOK
    <2>4. tagged' \subseteq (DOMAIN posts') \X (DOMAIN tags')
      BY <2>1, <2>2 DEF RowsOK, TagsFit, PostTagsTypeOK
    <2>5. TagsFit'
      BY <2>1, <2>2, <2>3, <2>4 DEF RowsOK, TagsFit, PostTagsTypeOK
    <2> QED BY <2>1, <2>5, Fits DEF RowsOK
  <1> QED BY <1>1, <1>3, <1>4, <1>5, <1>6, <1>7, <1>8, <1>9, <1>10 DEF PostTagsStep, TagsStart

\* Bookmarks and folders.
LEMMA CountedTyped ==
  ASSUME NEW table, table \in [DOMAIN table -> PostRow], NEW p, NEW n \in Int
  PROVE  DOMAIN Counted(table, p, n) = DOMAIN table /\ Counted(table, p, n) \in [DOMAIN table -> PostRow]
  <1>1. ASSUME p \in DOMAIN table
        PROVE  [table[p] EXCEPT !.bookmarks = table[p].bookmarks + n] \in PostRow
    <2>1. table[p] \in PostRow
      BY <1>1
    <2> QED BY <2>1 DEF PostRow
  <1>2. Counted(table, p, n) = [table EXCEPT ![p] = [table[p] EXCEPT !.bookmarks = table[p].bookmarks + n]]
    BY DEF Counted
  <1> QED BY <1>1, <1>2

LEMMA SavedRow ==
  ASSUME RowsOK, NEW r, Loaded(todo[r], call[r])
  PROVE  /\ call[r].row.post \in Post /\ call[r].mark \in Bookmark
         /\ DOMAIN PostsSaved(r) = DOMAIN posts \cup {call[r].row.post}
         /\ PostsSaved(r) \in [DOMAIN PostsSaved(r) -> PostRow]
         /\ DOMAIN folders \subseteq DOMAIN FoldersSaved(r) /\ DOMAIN FoldersSaved(r) \subseteq Folder
         /\ FoldersSaved(r) \in [DOMAIN FoldersSaved(r) -> Users]
         /\ RowSaved(r) \in BookmarkRow
         /\ RowSaved(r).post = call[r].row.post /\ RowSaved(r).user = call[r].row.user
  <1> DEFINE row == call[r].row
  <1>1. /\ row \in MarkRow /\ call[r].copy \in PostRow /\ call[r].user \in Users /\ call[r].mark \in Bookmark
    BY DEF Loaded, MarkLocals
  <1>2. row.post \in Post /\ row.user \in Users /\ row.was \in Folder \cup {None} /\ row.folder \in Folder \cup {None}
    BY <1>1 DEF MarkRow
  <1>3. /\ DOMAIN PostsSaved(r) = DOMAIN posts \cup {row.post}
        /\ PostsSaved(r) \in [DOMAIN PostsSaved(r) -> PostRow]
    BY <1>1 DEF PostsSaved, With, Exists, RowsOK, PostsTypeOK
  <1>4. /\ DOMAIN folders \subseteq DOMAIN FoldersSaved(r) /\ DOMAIN FoldersSaved(r) \subseteq Folder
        /\ FoldersSaved(r) \in [DOMAIN FoldersSaved(r) -> Users]
    BY <1>1, <1>2 DEF FoldersSaved, With, RowsOK, MarksFit, BookmarksTypeOK
  <1>5. /\ RowSaved(r) \in BookmarkRow
        /\ RowSaved(r).post = row.post /\ RowSaved(r).user = row.user
    BY <1>2 DEF RowSaved, BookmarkRow
  <1> QED BY <1>1, <1>2, <1>3, <1>4, <1>5

\* A bookmark is added to a table that fits, or takes the place of another.
LEMMA MarkAdded ==
  ASSUME RowsOK, NEW b \in Bookmark, NEW row \in BookmarkRow, bookmarks' = With(bookmarks, b, row),
         DOMAIN posts \cup {row.post} \subseteq DOMAIN posts',
         DOMAIN folders' \subseteq Folder, folders' \in [DOMAIN folders' -> Users]
  PROVE  MarksFit'
  <1>1. /\ DOMAIN bookmarks' = DOMAIN bookmarks \cup {b} /\ bookmarks'[b] = row
        /\ \A k \in DOMAIN bookmarks : k # b => bookmarks'[k] = bookmarks[k]
    BY DEF With
  <1>2. bookmarks' \in [DOMAIN bookmarks' -> BookmarkRow]
    BY WithTyped DEF RowsOK, MarksFit, BookmarksTypeOK
  <1>3. IsFiniteSet(DOMAIN bookmarks')
    BY <1>1, FS_AddElement DEF RowsOK, MarksFit
  <1>4. \A k \in DOMAIN bookmarks' : bookmarks'[k].post \in DOMAIN posts'
    BY <1>1 DEF RowsOK, MarksFit, Exists
  <1> QED BY <1>1, <1>2, <1>3, <1>4 DEF RowsOK, MarksFit, BookmarksTypeOK, Exists

LEMMA BookmarksRows ==
  ASSUME RequestsOK, RowsOK, CopiesAgree, NEW r \in Requests, (BookmarksStep(r) \/ FoldersStart(r)),
         UNCHANGED <<reports, tagVars, reactionVars, notices, followVars>>
  PROVE  RowsOK' /\ DOMAIN posts \subseteq DOMAIN posts'
  <1>1. CASE FindToggled(r) \/ FindMark(r) \/ FindFolder(r) \/ LoadMark(r) \/ MoveMark(r) \/ LoadFolder(r)
    <2>1. UNCHANGED <<posts, decisions, bookmarkVars>>
      BY <1>1 DEF FindToggled, FindMark, FindFolder, LoadMark, MoveMark, LoadFolder, postVars
    <2> QED BY <2>1, Fits DEF RowsOK
  <1>2. ASSUME DOMAIN posts \subseteq DOMAIN posts', DOMAIN posts' \subseteq Post,
               posts' \in [DOMAIN posts' -> PostRow], UNCHANGED decisions, MarksFit'
        PROVE  RowsOK'
    BY <1>2, Fits DEF RowsOK, PostsTypeOK
  <1>3. CASE DeleteMark(r)
    <2>1. UNCHANGED <<decisions, folders>>
      BY <1>3 DEF DeleteMark
    <2>2. posts' = posts \/ \E p : posts' = Counted(posts, p, -1)
      BY <1>3 DEF DeleteMark
    <2>3. DOMAIN posts' = DOMAIN posts /\ posts' \in [DOMAIN posts' -> PostRow]
      BY <2>2, CountedTyped DEF RowsOK, PostsTypeOK
    <2>4. MarksFit'
      <3>1. CASE bookmarks' = bookmarks
        BY <2>1, <2>3, <3>1, Fits DEF bookmarkVars
      <3>2. CASE bookmarks' = Without(bookmarks, {call[r].mark})
        <4>1. DOMAIN bookmarks' \subseteq DOMAIN bookmarks /\ \A k \in DOMAIN bookmarks' : bookmarks'[k] = bookmarks[k]
          BY <3>2 DEF Without
        <4>2. bookmarks' \in [DOMAIN bookmarks' -> BookmarkRow]
          BY <3>2, WithoutTyped DEF RowsOK, MarksFit, BookmarksTypeOK
        <4>3. IsFiniteSet(DOMAIN bookmarks')
          BY <4>1, FS_Subset DEF RowsOK, MarksFit
        <4> QED BY <2>1, <2>3, <4>1, <4>2, <4>3 DEF RowsOK, MarksFit, BookmarksTypeOK, Exists
      <3> QED BY <1>3, <3>1, <3>2 DEF DeleteMark
    <2> QED BY <1>2, <2>1, <2>3, <2>4 DEF RowsOK, PostsTypeOK
  <1>4. CASE InsertMark(r)
    <2> DEFINE row == [post |-> call[r].post, user |-> call[r].user, folder |-> call[r].folder]
    <2>1. row \in BookmarkRow
      BY <1>4, AtBookmarks DEF InsertMark, ToggleLocals, BookmarkRow
    <2> HIDE DEF row
    <2>2. UNCHANGED <<decisions, folders>>
      BY <1>4 DEF InsertMark
    <2>3. \/ UNCHANGED <<bookmarks, posts>>
          \/ /\ Exists(row.post) /\ posts' = Counted(posts, row.post, 1)
             /\ \E b \in Bookmark : bookmarks' = With(bookmarks, b, row)
      BY <1>4 DEF InsertMark, row, Fresh
    <2>4. CASE UNCHANGED <<bookmarks, posts>>
      BY <1>2, <2>2, <2>4, Fits DEF bookmarkVars, RowsOK, PostsTypeOK
    <2>5. CASE /\ Exists(row.post) /\ posts' = Counted(posts, row.post, 1)
               /\ \E b \in Bookmark : bookmarks' = With(bookmarks, b, row)
      <3>1. DOMAIN posts' = DOMAIN posts /\ posts' \in [DOMAIN posts' -> PostRow]
        BY <2>5, CountedTyped DEF RowsOK, PostsTypeOK
      <3>2. MarksFit'
        BY <2>1, <2>2, <2>5, <3>1, MarkAdded DEF Exists, RowsOK, MarksFit, BookmarksTypeOK
      <3> QED BY <1>2, <2>2, <3>1, <3>2 DEF RowsOK, PostsTypeOK
    <2> QED BY <2>3, <2>4, <2>5
  <1>5. CASE SaveMark(r)
    <2> DEFINE b == call[r].mark
    <2>1. Loaded(todo[r], call[r])
      BY <1>5, AtBookmarks DEF SaveMark
    <2>2. UNCHANGED decisions
      BY <1>5 DEF SaveMark
    <2>3. \/ UNCHANGED <<posts, folders, bookmarks>>
          \/ posts' = PostsSaved(r) /\ folders' = FoldersSaved(r) /\ UNCHANGED bookmarks
          \/ /\ posts' = PostsSaved(r) /\ folders' = FoldersSaved(r)
             /\ b \in DOMAIN bookmarks /\ bookmarks' = [bookmarks EXCEPT ![b] = RowSaved(r)]
      BY <1>5 DEF SaveMark
    <2>4. CASE UNCHANGED <<posts, folders, bookmarks>>
      BY <1>2, <2>2, <2>4, Fits DEF bookmarkVars, RowsOK, PostsTypeOK
    <2>5. CASE posts' = PostsSaved(r) /\ folders' = FoldersSaved(r)
      <3>1. /\ DOMAIN posts' = DOMAIN posts \cup {call[r].row.post} /\ posts' \in [DOMAIN posts' -> PostRow]
            /\ DOMAIN folders' \subseteq Folder /\ folders' \in [DOMAIN folders' -> Users]
            /\ RowSaved(r) \in BookmarkRow /\ RowSaved(r).post \in DOMAIN posts'
            /\ DOMAIN posts' \subseteq Post
        BY <2>1, <2>5, SavedRow DEF RowsOK, PostsTypeOK
      <3>2. CASE UNCHANGED bookmarks
        <4>1. MarksFit'
          BY <3>1, <3>2 DEF RowsOK, MarksFit, BookmarksTypeOK, Exists
        <4> QED BY <1>2, <2>2, <3>1, <4>1
      <3>3. CASE b \in DOMAIN bookmarks /\ bookmarks' = [bookmarks EXCEPT ![b] = RowSaved(r)]
        <4>1. bookmarks' = With(bookmarks, b, RowSaved(r)) /\ b \in Bookmark
          BY <3>3 DEF With, RowsOK, MarksFit, BookmarksTypeOK
        <4>2. MarksFit'
          BY <3>1, <4>1, MarkAdded
        <4> QED BY <1>2, <2>2, <3>1, <4>2
      <3> QED BY <2>3, <3>2, <3>3
    <2> QED BY <2>3, <2>4, <2>5
  <1>6. CASE PutMark(r)
    <2>1. Loaded(todo[r], call[r])
      BY <1>6, AtBookmarks DEF PutMark
    <2>2. UNCHANGED decisions
      BY <1>6 DEF PutMark
    <2>3. \/ UNCHANGED <<posts, bookmarkVars>>
          \/ /\ posts' \in {PostsSaved(r), Counted(PostsSaved(r), RowSaved(r).post, 1)}
             /\ folders' = FoldersSaved(r) /\ bookmarks' = With(bookmarks, call[r].mark, RowSaved(r))
      BY <1>6 DEF PutMark
    <2>4. CASE UNCHANGED <<posts, bookmarkVars>>
      BY <1>2, <2>2, <2>4, Fits DEF RowsOK, PostsTypeOK
    <2>5. CASE /\ posts' \in {PostsSaved(r), Counted(PostsSaved(r), RowSaved(r).post, 1)}
               /\ folders' = FoldersSaved(r) /\ bookmarks' = With(bookmarks, call[r].mark, RowSaved(r))
      <3>1. DOMAIN posts' = DOMAIN posts \cup {call[r].row.post} /\ posts' \in [DOMAIN posts' -> PostRow]
        <4>1. /\ DOMAIN PostsSaved(r) = DOMAIN posts \cup {call[r].row.post}
              /\ PostsSaved(r) \in [DOMAIN PostsSaved(r) -> PostRow]
          BY <2>1, SavedRow
        <4>2. /\ DOMAIN Counted(PostsSaved(r), RowSaved(r).post, 1) = DOMAIN PostsSaved(r)
              /\ Counted(PostsSaved(r), RowSaved(r).post, 1) \in [DOMAIN PostsSaved(r) -> PostRow]
          BY <4>1, CountedTyped
        <4> QED BY <2>5, <4>1, <4>2
      <3>2. /\ DOMAIN folders' \subseteq Folder /\ folders' \in [DOMAIN folders' -> Users]
            /\ RowSaved(r) \in BookmarkRow /\ RowSaved(r).post = call[r].row.post
            /\ call[r].mark \in Bookmark /\ call[r].row.post \in Post
        BY <2>1, <2>5, SavedRow
      <3>3. MarksFit'
        BY <2>5, <3>1, <3>2, MarkAdded
      <3> QED BY <1>2, <2>2, <3>1, <3>2, <3>3 DEF RowsOK, PostsTypeOK
    <2> QED BY <2>3, <2>4, <2>5
  <1>7. CASE SaveFolder(r)
    <2> DEFINE f == call[r].folder
               copies == call[r].copies
               back == [p \in DOMAIN posts |-> Cardinality({b \in Lost(r) : copies[b].post = p})]
    <2>1. copies \in [DOMAIN copies -> BookmarkRow] /\ DOMAIN copies \subseteq Bookmark /\ f \in Folder
          /\ call[r].user \in Users
      BY <1>7, AtBookmarks DEF SaveFolder, Copies, FolderLocals
    <2>2. IsFiniteSet(DOMAIN copies)
      BY <1>7 DEF SaveFolder, CopiesAgree, CopiesOK
    <2>3. UNCHANGED decisions
      BY <1>7 DEF SaveFolder
    <2>4. DOMAIN folders' \subseteq Folder /\ folders' \in [DOMAIN folders' -> Users]
      <3>1. folders' = folders \/ folders' = With(folders, f, call[r].user)
        BY <1>7 DEF SaveFolder
      <3> QED BY <2>1, <3>1 DEF With, RowsOK, MarksFit, BookmarksTypeOK
    <2>5. CASE UNCHANGED <<bookmarks, posts>>
      <3>1. MarksFit'
        BY <2>4, <2>5 DEF RowsOK, MarksFit, BookmarksTypeOK, Exists
      <3> QED BY <1>2, <2>3, <2>5, <3>1 DEF RowsOK, PostsTypeOK
    <2>6. CASE /\ f \in DOMAIN folders /\ MayReturn(r)
               /\ bookmarks' = [b \in DOMAIN bookmarks \cup DOMAIN copies |->
                             IF b \in Lost(r) THEN copies[b]
                             ELSE IF b \in DOMAIN copies THEN [bookmarks[b] EXCEPT !.folder = f]
                             ELSE bookmarks[b]]
               /\ posts' = [p \in DOMAIN posts |-> [posts[p] EXCEPT !.bookmarks = @ + back[p]]]
      <3>1. ASSUME NEW p \in DOMAIN posts
            PROVE  [posts[p] EXCEPT !.bookmarks = @ + back[p]] \in PostRow
        <4>1. posts[p] \in PostRow
          BY DEF RowsOK, PostsTypeOK
        <4>2. Cardinality({b \in Lost(r) : copies[b].post = p}) \in Nat
          BY <2>2, FS_Subset, FS_CardinalityType DEF Lost
        <4>3. back[p] \in Nat
          BY <4>2
        <4> HIDE DEF back
        <4> QED BY <4>1, <4>3 DEF PostRow
      <3>2. DOMAIN posts' = DOMAIN posts /\ posts' \in [DOMAIN posts' -> PostRow]
        BY <2>6, <3>1
      <3>3. ASSUME NEW b \in DOMAIN bookmarks'
            PROVE  bookmarks'[b] \in BookmarkRow /\ bookmarks'[b].post \in DOMAIN posts
        <4>1. CASE b \in Lost(r)
          BY <2>1, <2>6, <4>1 DEF Lost, MayReturn, Exists
        <4>2. CASE b \notin Lost(r)
          <5>1. b \in DOMAIN bookmarks
            BY <2>6, <4>2 DEF Lost
          <5>2. bookmarks[b] \in BookmarkRow /\ bookmarks[b].post \in DOMAIN posts
            BY <5>1 DEF RowsOK, MarksFit, BookmarksTypeOK, Exists
          <5>3. [bookmarks[b] EXCEPT !.folder = f] \in BookmarkRow
                /\ [bookmarks[b] EXCEPT !.folder = f].post = bookmarks[b].post
            BY <2>1, <5>2 DEF BookmarkRow
          <5>4. bookmarks'[b] \in {bookmarks[b], [bookmarks[b] EXCEPT !.folder = f]}
            BY <2>6, <4>2, <5>1
          <5> QED BY <5>2, <5>3, <5>4
        <4> QED BY <4>1, <4>2
      <3>4. DOMAIN bookmarks' = DOMAIN bookmarks \cup DOMAIN copies
        BY <2>6
      <3>5. bookmarks' \in [DOMAIN bookmarks' -> BookmarkRow]
        BY <2>6, <3>3
      <3>6. IsFiniteSet(DOMAIN bookmarks')
        BY <2>2, <3>4, FS_Union DEF RowsOK, MarksFit
      <3>7. MarksFit'
        BY <2>1, <2>4, <3>2, <3>3, <3>4, <3>5, <3>6 DEF RowsOK, MarksFit, BookmarksTypeOK, Exists
      <3> QED BY <1>2, <2>3, <3>2, <3>7 DEF RowsOK, PostsTypeOK
    <2> HIDE DEF back
    <2> QED BY <1>7, <2>5, <2>6 DEF SaveFolder, back
  <1>8. ASSUME NEW u \in Users, CreateFolder(r, u)
        PROVE  RowsOK' /\ DOMAIN posts \subseteq DOMAIN posts'
    <2>1. PICK f \in Folder : folders' = With(folders, f, u)
      BY <1>8 DEF CreateFolder, Fresh
    <2>2. UNCHANGED <<posts, decisions, bookmarks>>
      BY <1>8 DEF CreateFolder, postVars
    <2>3. MarksFit'
      BY <2>1, <2>2 DEF With, RowsOK, MarksFit, BookmarksTypeOK, Exists
    <2> QED BY <1>2, <2>2, <2>3 DEF RowsOK, PostsTypeOK
  <1>9. ASSUME NEW u \in Users, NEW f \in Folder, DeleteFolder(r, u, f)
        PROVE  RowsOK' /\ DOMAIN posts \subseteq DOMAIN posts'
    <2>1. /\ UNCHANGED <<posts, decisions>> /\ folders' = Without(folders, {f})
          /\ bookmarks' = [b \in DOMAIN bookmarks |->
                     IF bookmarks[b].folder = f THEN [bookmarks[b] EXCEPT !.folder = None] ELSE bookmarks[b]]
      BY <1>9 DEF DeleteFolder
    <2>2. ASSUME NEW b \in DOMAIN bookmarks
          PROVE  bookmarks'[b] \in BookmarkRow /\ bookmarks'[b].post \in DOMAIN posts
      <3>1. bookmarks[b] \in BookmarkRow /\ bookmarks[b].post \in DOMAIN posts
        BY DEF RowsOK, MarksFit, BookmarksTypeOK, Exists
      <3>2. [bookmarks[b] EXCEPT !.folder = None] \in BookmarkRow
            /\ [bookmarks[b] EXCEPT !.folder = None].post = bookmarks[b].post
        BY <3>1 DEF BookmarkRow
      <3> QED BY <2>1, <3>1, <3>2
    <2>3. DOMAIN bookmarks' = DOMAIN bookmarks /\ bookmarks' \in [DOMAIN bookmarks' -> BookmarkRow]
      BY <2>1, <2>2
    <2>4. DOMAIN folders' \subseteq Folder /\ folders' \in [DOMAIN folders' -> Users]
      BY <2>1 DEF Without, RowsOK, MarksFit, BookmarksTypeOK
    <2>5. MarksFit'
      BY <2>1, <2>2, <2>3, <2>4 DEF RowsOK, MarksFit, BookmarksTypeOK, Exists
    <2> QED BY <1>2, <2>1, <2>5 DEF RowsOK, PostsTypeOK
  <1> QED BY <1>1, <1>3, <1>4, <1>5, <1>6, <1>7, <1>8, <1>9 DEF BookmarksStep, FoldersStart

\* A post goes, and all that refers to it.
LEMMA RemoveRows ==
  ASSUME RequestsOK, RowsOK, NEW r \in Requests, NEW u, NEW p \in Post, RemovePost(r, u, p)
  PROVE  RowsOK'
  <1>1. /\ posts' = Without(posts, {p})
        /\ decisions' = [i \in DOMAIN decisions |->
                           IF decisions[i].post = p THEN [decisions[i] EXCEPT !.post = None] ELSE decisions[i]]
    BY DEF RemovePost, DeletePost
  <1>2. DOMAIN posts' = DOMAIN posts \ {p}
    BY <1>1 DEF Without
  <1>3. PostsTypeOK'
    <2>1. posts' \in [DOMAIN posts' -> PostRow]
      BY <1>1, WithoutTyped DEF RowsOK, PostsTypeOK
    <2>2. ASSUME NEW i \in DOMAIN decisions
          PROVE  decisions'[i] \in Decision
      <3>1. decisions[i] \in Decision
        BY DEF RowsOK, PostsTypeOK
      <3>2. [decisions[i] EXCEPT !.post = None] \in Decision
        BY <3>1 DEF Decision
      <3> QED BY <1>1, <3>1, <3>2
    <2>3. decisions' \in Seq(Decision)
      <3>1. DOMAIN decisions' = 1..Len(decisions) /\ Len(decisions) \in Nat
        BY <1>1 DEF RowsOK, PostsTypeOK
      <3>2. decisions' \in [1..Len(decisions) -> Decision]
        BY <1>1, <2>2, <3>1
      <3> QED BY <3>1, <3>2, SeqDef
    <2> QED BY <1>2, <2>1, <2>3 DEF RowsOK, PostsTypeOK
  <1>4. ReportsFit'
    BY <1>2 DEF RemovePost, CascadeReports, RowsOK, ReportsFit, ModerationTypeOK, Exists
  <1>5. TagsFit'
    BY <1>2 DEF RemovePost, CascadeTagged, RowsOK, TagsFit, PostTagsTypeOK
  <1>6. ReactionsFit'
    <2>1. /\ likes' = {x \in likes : x[1] # p} /\ views' = {x \in views : x[1] # p}
          /\ comments' = Without(comments, CommentsOf(p)) /\ UNCHANGED markers
      BY DEF RemovePost, CascadeReactions
    <2>2. IsFiniteSet(likes') /\ IsFiniteSet(views')
      BY <2>1, FS_Subset DEF RowsOK, ReactionsFit
    <2>3. /\ DOMAIN comments' = DOMAIN comments \ CommentsOf(p)
          /\ \A c \in DOMAIN comments' : comments'[c] = comments[c]
      BY <2>1 DEF Without
    <2>4. comments' \in [DOMAIN comments' -> CommentRow]
      BY <2>1, WithoutTyped DEF RowsOK, ReactionsFit, ReactionsTypeOK
    <2>5. \A c \in DOMAIN comments' : comments'[c].post \in DOMAIN posts'
      BY <1>2, <2>3 DEF CommentsOf, RowsOK, ReactionsFit, Exists
    <2>6. likes' \subseteq (DOMAIN posts') \X Users /\ views' \subseteq (DOMAIN posts') \X Users
      BY <1>2, <2>1 DEF RowsOK, ReactionsFit, ReactionsTypeOK
    <2> QED BY <2>1, <2>2, <2>3, <2>4, <2>5, <2>6 DEF RowsOK, ReactionsFit, ReactionsTypeOK, Exists
  <1>7. MarksFit'
    <2>1. bookmarks' = Without(bookmarks, MarksOf(p, Users)) /\ UNCHANGED folders
      BY DEF RemovePost, CascadeBookmarks
    <2>2. /\ DOMAIN bookmarks' = DOMAIN bookmarks \ MarksOf(p, Users)
          /\ \A b \in DOMAIN bookmarks' : bookmarks'[b] = bookmarks[b]
      BY <2>1 DEF Without
    <2>3. bookmarks' \in [DOMAIN bookmarks' -> BookmarkRow]
      BY <2>1, WithoutTyped DEF RowsOK, MarksFit, BookmarksTypeOK
    <2>4. IsFiniteSet(DOMAIN bookmarks')
      BY <2>2, FS_Subset DEF RowsOK, MarksFit
    <2>5. ASSUME NEW b \in DOMAIN bookmarks'
          PROVE  bookmarks'[b].post \in DOMAIN posts'
      <3>1. bookmarks[b] \in BookmarkRow /\ bookmarks[b].post \in DOMAIN posts
        BY <2>2 DEF RowsOK, MarksFit, BookmarksTypeOK, Exists
      <3> QED BY <1>2, <2>2, <3>1 DEF MarksOf, BookmarkRow
    <2> QED BY <2>1, <2>2, <2>3, <2>4, <2>5 DEF RowsOK, MarksFit, BookmarksTypeOK, Exists
  <1>8. NotificationsTypeOK' /\ FollowsTypeOK'
    BY DEF RemovePost, RowsOK, NotificationsTypeOK, FollowsTypeOK, followVars
  <1> QED BY <1>3, <1>4, <1>5, <1>6, <1>7, <1>8 DEF RowsOK

LEMMA ExpireRows ==
  ASSUME RowsOK, Expire
  PROVE  RowsOK'
  <1>1. UNCHANGED <<posts, decisions, reports, bookmarkVars, notices, followVars>>
    BY DEF Expire, ExpireList, ExpireMarker, postVars
  <1>2. CASE UNCHANGED reactionVars /\ \E kind \in Lists : ExpireList(kind)
    <2>1. TagsFit'
      BY <1>1, <1>2 DEF ExpireList, RowsOK, TagsFit, PostTagsTypeOK
    <2> QED BY <1>1, <1>2, <2>1, Fits DEF RowsOK
  <1>3. CASE UNCHANGED tagVars /\ \E m \in markers : ExpireMarker(m)
    <2>1. ReactionsFit'
      BY <1>1, <1>3 DEF ExpireMarker, RowsOK, ReactionsFit, ReactionsTypeOK, Exists
    <2> QED BY <1>1, <1>3, <2>1, Fits DEF RowsOK
  <1> QED BY <1>2, <1>3 DEF Expire

\* The tables fit, and followers are counted.
LEMMA RowsStep ==
  ASSUME RequestsOK, RowsOK, FollowsCounted, CopiesAgree, [Next]_vars
  PROVE  RowsOK' /\ FollowsCounted'
  <1>1. UNCHANGED followVars => FollowsCounted'
    BY DEF FollowsCounted, followVars
  <1>2. CASE UNCHANGED vars
    BY <1>1, <1>2, Fits DEF vars, postVars, RowsOK
  <1>3. CASE Expire
    BY <1>1, <1>3, ExpireRows DEF Expire
  <1>4. ASSUME NEW r \in Requests, Request(r)
        PROVE  RowsOK' /\ FollowsCounted'
    <2>1. CASE UNCHANGED <<posts, decisions, reports, tagVars, reactionVars, bookmarkVars, notices, followVars>>
      BY <1>1, <2>1, Fits DEF RowsOK
    <2>2. ASSUME NEW u, NEW p \in Post, RemovePost(r, u, p)
          PROVE  RowsOK' /\ FollowsCounted'
      BY <1>1, <2>2, RemoveRows DEF RemovePost
    <2>3. CASE (PostTagsStep(r) \/ TagsStart(r)) /\ UNCHANGED <<reports, reactionVars, bookmarkVars, notices, followVars>>
      BY <1>1, <2>3, TagsRows
    <2>4. CASE (BookmarksStep(r) \/ FoldersStart(r)) /\ UNCHANGED <<reports, tagVars, reactionVars, notices, followVars>>
      BY <1>1, <2>4, BookmarksRows
    <2>5. CASE (Notify(r) \/ NotificationsStart(r)) /\ UNCHANGED <<reports, tagVars, reactionVars, bookmarkVars, followVars>>
      BY <1>1, <2>5, NotificationsRows
    <2>6. CASE ModerationStep(r) /\ UNCHANGED <<tagVars, reactionVars, bookmarkVars, notices, followVars>>
      BY <1>1, <2>6, ModerationRows
    <2>7. CASE ReactionsStep(r) /\ UNCHANGED <<reports, tagVars, bookmarkVars, followVars>>
      BY <1>1, <2>7, ReactionsRows
    <2>8. CASE FollowsStep(r) /\ UNCHANGED <<reports, tagVars, reactionVars, bookmarkVars>>
      BY <2>8, FollowsRows
    <2>9. CASE Common(r)
      <3>1. UNCHANGED <<posts, decisions>>
        BY <2>9 DEF Common, FindPost, FindOpenPost, postVars
      <3> QED BY <2>1, <2>9, <3>1 DEF Common
    <2>10. Begins(r) => UNCHANGED <<posts, decisions, reports, tagVars, reactionVars, bookmarkVars, notices, followVars>>
      BY DEF Begins, postVars
    <2> QED BY <1>4, <2>1, <2>2, <2>3, <2>4, <2>5, <2>6, <2>7, <2>8, <2>9, <2>10, StepCases DEF Proceed
  <1> QED BY <1>2, <1>3, <1>4 DEF Next

-----------------------------------------------------------------------------
(* What a step does to posts that it does not decide about.                *)

\* No post goes, and none is hidden or opened.
Steady ==
  /\ DOMAIN posts \subseteq DOMAIN posts'
  /\ \A p \in DOMAIN posts : posts'[p].hidden = posts[p].hidden

LEMMA CountedSteady ==
  ASSUME NEW table, table \in [DOMAIN table -> PostRow], NEW p, NEW n \in Int
  PROVE  \A q \in DOMAIN table : Counted(table, p, n)[q].hidden = table[q].hidden
  <1>1. ASSUME p \in DOMAIN table
        PROVE  [table[p] EXCEPT !.bookmarks = table[p].bookmarks + n].hidden = table[p].hidden
    <2>1. table[p] \in PostRow
      BY <1>1
    <2> QED BY <2>1 DEF PostRow
  <1>2. Counted(table, p, n) = [table EXCEPT ![p] = [table[p] EXCEPT !.bookmarks = table[p].bookmarks + n]]
    BY DEF Counted
  <1> QED BY <1>1, <1>2

LEMMA ReactionsSteady ==
  ASSUME RequestsOK, RowsOK, NEW r \in Requests, ReactionsStep(r)
  PROVE  Steady /\ DOMAIN posts' = DOMAIN posts /\ UNCHANGED <<decisions, gone>>
  <1>1. UNCHANGED <<decisions, gone>>
    BY DEF ReactionsStep, CheckLike, InsertLike, DeleteLike, FindView, InsertView, MarkViewed,
           InsertComment, FindComment, SaveComment, DeleteComment, postVars
  <1> DEFINE p == call[r].post
  <1>2. \/ posts' = posts
        \/ \E n \in {1, -1} : posts' = [posts EXCEPT ![p] = [posts[p] EXCEPT !.likes = posts[p].likes + n]]
        \/ posts' = [posts EXCEPT ![p] = [posts[p] EXCEPT !.views = posts[p].views + 1]]
    <2>1. InsertLike(r) => posts' = posts \/ posts' = [posts EXCEPT ![p] = [posts[p] EXCEPT !.likes = posts[p].likes + 1]]
      BY DEF InsertLike
    <2>2. DeleteLike(r) => posts' = posts \/ posts' = [posts EXCEPT ![p] = [posts[p] EXCEPT !.likes = posts[p].likes - 1]]
      BY DEF DeleteLike
    <2>3. p \in DOMAIN posts => posts[p].likes - 1 = posts[p].likes + (-1)
      BY DEF RowsOK, PostsTypeOK, PostRow
    <2>4. p \notin DOMAIN posts => [posts EXCEPT ![p] = [posts[p] EXCEPT !.likes = posts[p].likes - 1]] = posts
      BY DEF RowsOK, PostsTypeOK
    <2>5. InsertView(r) => posts' = posts \/ posts' = [posts EXCEPT ![p] = [posts[p] EXCEPT !.views = posts[p].views + 1]]
      BY DEF InsertView
    <2> QED BY <2>1, <2>2, <2>3, <2>4, <2>5
            DEF ReactionsStep, CheckLike, FindView, MarkViewed,
                InsertComment, FindComment, SaveComment, DeleteComment, postVars
  <1>3. ASSUME NEW q \in DOMAIN posts, NEW n \in {1, -1}
        PROVE  /\ [posts[q] EXCEPT !.likes = posts[q].likes + n].hidden = posts[q].hidden
               /\ [posts[q] EXCEPT !.views = posts[q].views + n].hidden = posts[q].hidden
    <2>1. posts[q] \in PostRow
      BY DEF RowsOK, PostsTypeOK
    <2> QED BY <2>1 DEF PostRow
  <1> HIDE DEF p
  <1>4. DOMAIN posts' = DOMAIN posts
    BY <1>2 DEF RowsOK, PostsTypeOK
  <1>5. ASSUME NEW q \in DOMAIN posts
        PROVE  posts'[q].hidden = posts[q].hidden
    <2>1. CASE posts' = posts
      BY <2>1
    <2>2. ASSUME NEW n \in {1, -1},
                 posts' = [posts EXCEPT ![p] = [posts[p] EXCEPT !.likes = posts[p].likes + n]]
          PROVE  posts'[q].hidden = posts[q].hidden
      <3>1. posts'[q] = IF q = p THEN [posts[q] EXCEPT !.likes = posts[q].likes + n] ELSE posts[q]
        BY <2>2
      <3> QED BY <1>3, <3>1
    <2>3. CASE posts' = [posts EXCEPT ![p] = [posts[p] EXCEPT !.views = posts[p].views + 1]]
      <3>1. posts'[q] = IF q = p THEN [posts[q] EXCEPT !.views = posts[q].views + 1] ELSE posts[q]
        BY <2>3
      <3> QED BY <1>3, <3>1
    <2> QED BY <1>2, <2>1, <2>2, <2>3
  <1> QED BY <1>1, <1>4, <1>5 DEF Steady

LEMMA BookmarksSteady ==
  ASSUME RequestsOK, RowsOK, MarksAgree, NEW r \in Requests, BookmarksStep(r) \/ FoldersStart(r)
  PROVE  /\ Steady /\ UNCHANGED decisions /\ gone \subseteq gone'
         /\ DOMAIN posts' \subseteq DOMAIN posts \cup gone
  <1>1. UNCHANGED decisions /\ gone \subseteq gone'
    BY DEF BookmarksStep, FindToggled, FindMark, DeleteMark, FindFolder, InsertMark, LoadMark, MoveMark, SaveMark,
           PutMark, LoadFolder, SaveFolder, FoldersStart, CreateFolder, DeleteFolder, postVars
  <1>2. CASE UNCHANGED posts
    BY <1>1, <1>2 DEF Steady
  <1>3. ASSUME NEW p, NEW n \in Int, posts' = Counted(posts, p, n)
        PROVE  Steady /\ DOMAIN posts' \subseteq DOMAIN posts
    BY <1>3, CountedSteady, CountedTyped DEF Steady, RowsOK, PostsTypeOK
  <1>4. ASSUME Loaded(todo[r], call[r]), NEW n \in Int,
               posts' \in {PostsSaved(r), Counted(PostsSaved(r), RowSaved(r).post, n)}
        PROVE  Steady /\ DOMAIN posts' \subseteq DOMAIN posts \cup gone
    <2>1. call[r].row.post \in DOMAIN posts \cup gone
      <3>1. <<call[r].mark, call[r].row.post, call[r].row.user>> \in KnownMarks
        BY <1>4 DEF KnownMarks, HeldMarks
      <3> QED BY <3>1 DEF MarksAgree
    <2>2. /\ DOMAIN PostsSaved(r) = DOMAIN posts \cup {call[r].row.post}
          /\ PostsSaved(r) \in [DOMAIN PostsSaved(r) -> PostRow]
      BY <1>4, SavedRow
    <2>3. \A q \in DOMAIN posts : PostsSaved(r)[q].hidden = posts[q].hidden
      BY DEF PostsSaved, With, Exists
    <2>4. DOMAIN Counted(PostsSaved(r), RowSaved(r).post, n) = DOMAIN PostsSaved(r)
      BY <2>2, CountedTyped
    <2>5. \A q \in DOMAIN posts : Counted(PostsSaved(r), RowSaved(r).post, n)[q].hidden = posts[q].hidden
      BY <2>2, <2>3, CountedSteady
    <2> QED BY <1>4, <2>1, <2>2, <2>3, <2>4, <2>5 DEF Steady
  <1>5. CASE SaveMark(r) \/ PutMark(r)
    <2>1. Loaded(todo[r], call[r])
      BY <1>5, AtBookmarks DEF SaveMark, PutMark
    <2>2. posts' \in {posts, PostsSaved(r), Counted(PostsSaved(r), RowSaved(r).post, 1)}
      BY <1>5 DEF SaveMark, PutMark
    <2> QED BY <1>1, <1>2, <1>4, <2>1, <2>2
  <1>6. CASE SaveFolder(r)
    <2> DEFINE back == [p \in DOMAIN posts |-> Cardinality({b \in Lost(r) : call[r].copies[b].post = p})]
    <2>1. CASE posts' = [p \in DOMAIN posts |-> [posts[p] EXCEPT !.bookmarks = @ + back[p]]]
      <3> HIDE DEF back
      <3>1. ASSUME NEW q \in DOMAIN posts
            PROVE  [posts[q] EXCEPT !.bookmarks = @ + back[q]].hidden = posts[q].hidden
        <4>1. posts[q] \in PostRow
          BY DEF RowsOK, PostsTypeOK
        <4> QED BY <4>1 DEF PostRow
      <3> QED BY <1>1, <2>1, <3>1 DEF Steady
    <2> QED BY <1>2, <1>6, <2>1 DEF SaveFolder
  <1>7. CASE DeleteMark(r) \/ InsertMark(r)
    <2>1. posts' = posts \/ \E p : \E n \in {1, -1} : posts' = Counted(posts, p, n)
      BY <1>7 DEF DeleteMark, InsertMark
    <2> QED BY <1>1, <1>2, <1>3, <2>1
  <1> QED BY <1>2, <1>5, <1>6, <1>7 DEF BookmarksStep, FindToggled, FindMark, FindFolder, LoadMark, MoveMark,
            LoadFolder, FoldersStart, CreateFolder, DeleteFolder, postVars

\* A post appears.
LEMMA InsertSteady ==
  ASSUME RowsOK, NEW p, NEW u, InsertPost(p, u)
  PROVE  /\ Steady /\ DOMAIN posts' = DOMAIN posts \cup {p} /\ p \notin DOMAIN posts \cup gone
         /\ posts'[p] = NewPost(u) /\ \A q \in DOMAIN posts : posts'[q] = posts[q]
         /\ UNCHANGED <<decisions, gone>>
  BY DEF InsertPost, Fresh, With, Steady

LEMMA TagsSteady ==
  ASSUME RequestsOK, RowsOK, NEW r \in Requests, PostTagsStep(r) \/ TagsStart(r)
  PROVE  /\ Steady /\ UNCHANGED decisions /\ gone \subseteq gone'
         /\ UNCHANGED posts \/ \E p \in Post : InsertPost(p, call[r].user)
  <1>1. CASE InsertTaggedPost(r)
    <2>1. UNCHANGED postVars \/ \E p \in Post : InsertPost(p, call[r].user)
      BY <1>1 DEF InsertTaggedPost
    <2> QED BY <2>1, InsertSteady DEF Steady, postVars
  <1>2. CASE ~InsertTaggedPost(r)
    <2>1. UNCHANGED <<posts, decisions>> /\ gone \subseteq gone'
      BY <1>2 DEF PostTagsStep, TagsStart, FindTag, InsertTag, FindTagAgain, FindOwn, Attach, Detach, LookUp, Query,
                  Store, CreateTag, UpdateTag, DeleteTag, postVars
    <2> QED BY <2>1 DEF Steady
  <1> QED BY <1>1, <1>2

-----------------------------------------------------------------------------
(* The moderation log.                                                     *)

\* Statements that are the last, or the last but one, of a handler.
LEMMA HeadOf ==
  ASSUME NEW t, NEW c, Shape(t, c), t # <<>>
  PROVE  /\ Head(t) = "decide" => t = <<"decide">>
         /\ Head(t) = "insertMark" => t = <<"insertMark">>
         /\ Head(t) = "saveFolder" => t = <<"saveFolder">>
         /\ Head(t) = "detach" => t = <<"detach">>
  BY DEF Shape, Reporting, Moderating, Liking, Viewing, Commenting, Following, Notifying,
         EditingOne, CreatingPost, UpdatingPost, Listing, Toggling, Changes, Loaded, Foldering

\* Only LockPost leads to a decision.
LEMMA LogEffects ==
  ASSUME RequestsOK, RowsOK, MarksAgree, LogBehind, NEW r \in Requests, Request(r)
  PROVE  \/ LockPost(r) \/ Decide(r) \/ InsertReport(r) \/ \E u \in Users \cup {None}, p \in Post : RemovePost(r, u, p)
         \/ /\ Steady /\ UNCHANGED <<decisions, reports>> /\ gone \subseteq gone'
            /\ \A p \in DOMAIN posts' \ DOMAIN posts : p \in gone \/ ~posts'[p].hidden
            /\ todo'[r] # <<"decide">>
  <1> DEFINE Same == /\ Steady /\ UNCHANGED <<decisions, reports>> /\ gone \subseteq gone'
                     /\ \A p \in DOMAIN posts' \ DOMAIN posts : p \in gone \/ ~posts'[p].hidden
  <1>1. UNCHANGED <<posts, decisions, gone, reports>> => Same
    BY DEF Steady
  <1>2. CASE Begins(r)
    BY <1>1, <1>2 DEF Begins, postVars, Entries
  <1>3. CASE Common(r)
    <2>1. UNCHANGED <<posts, decisions, gone, reports>>
      BY <1>3 DEF Common, FindPost, FindOpenPost, postVars
    <2> QED BY <1>1, <1>3, <2>1, CommonMoves
  <1>4. CASE FindReported(r)
    <2>1. UNCHANGED <<posts, decisions, gone, reports>>
      BY <1>4 DEF FindReported, postVars
    <2>2. Moved(r) /\ todo'[r] \in {<<>>, Tail(todo[r])}
      BY <1>4, MoveAlong DEF FindReported, Check, At, Reads
    <2>3. todo[r] = <<"findReported", "insertReport">>
      BY <1>4, AtModeration DEF FindReported
    <2>4. todo'[r] # <<"decide">>
      BY <2>2, <2>3
    <2> QED BY <1>1, <2>1, <2>4
  <1>5. CASE ReactionsStep(r) /\ UNCHANGED reports
    <2>1. todo'[r] # <<"decide">>
      BY <1>5, ReactionsMoves
    <2> QED BY <1>5, <2>1, ReactionsSteady
  <1>6. CASE (BookmarksStep(r) \/ FoldersStart(r)) /\ UNCHANGED reports
    <2>1. BookmarksStep(r) => todo'[r] # <<"decide">>
      BY BookmarksMoves DEF MarkLands
    <2>2. FoldersStart(r) => todo'[r] = <<>>
      BY <1>6 DEF FoldersStart, CreateFolder, DeleteFolder, AtOnce, requestVars
    <2>3. /\ Steady /\ UNCHANGED decisions /\ gone \subseteq gone'
          /\ DOMAIN posts' \subseteq DOMAIN posts \cup gone
      BY <1>6, BookmarksSteady
    <2> QED BY <1>6, <2>1, <2>2, <2>3
  <1>7. CASE (PostTagsStep(r) \/ TagsStart(r)) /\ UNCHANGED reports
    <2>1. PostTagsStep(r) => todo'[r] # <<"decide">>
      BY PostTagsMoves DEF TagLands
    <2>2. TagsStart(r) => todo'[r] = <<>>
      BY <1>7 DEF TagsStart, CreateTag, UpdateTag, DeleteTag, AtOnce, requestVars
    <2>3. \A p \in DOMAIN posts' \ DOMAIN posts : p \in gone \/ ~posts'[p].hidden
      <3>1. UNCHANGED posts \/ \E p \in Post : InsertPost(p, call[r].user)
        BY <1>7, TagsSteady
      <3>2. ASSUME NEW p \in Post, InsertPost(p, call[r].user)
            PROVE  DOMAIN posts' \ DOMAIN posts = {p} /\ ~posts'[p].hidden
        <4>1. /\ DOMAIN posts' = DOMAIN posts \cup {p} /\ p \notin DOMAIN posts
              /\ posts'[p] = NewPost(call[r].user)
          BY <3>2, InsertSteady
        <4> QED BY <4>1 DEF NewPost
      <3> QED BY <3>1, <3>2
    <2> QED BY <1>7, <2>1, <2>2, <2>3, TagsSteady
  <1>8. CASE (Notify(r) \/ NotificationsStart(r)) /\ UNCHANGED reports
    <2>1. UNCHANGED <<posts, decisions, gone, reports>>
      BY <1>8 DEF Notify, NotificationsStart, MarkAsRead, MarkAllAsRead, postVars
    <2>2. todo'[r] = <<>>
      BY <1>8, NotifyMoves DEF NotificationsStart, MarkAsRead, MarkAllAsRead, AtOnce, requestVars
    <2> QED BY <1>1, <2>1, <2>2
  <1>9. CASE FollowsStep(r) /\ UNCHANGED reports
    <2>1. UNCHANGED <<posts, decisions, gone, reports>>
      BY <1>9 DEF FollowsStep, CheckFollow, InsertFollow, DeleteFollow, postVars
    <2> QED BY <1>1, <1>9, <2>1, FollowsMoves
  <1> HIDE DEF Same
  <1> QED BY <1>2, <1>3, <1>4, <1>5, <1>6, <1>7, <1>8, <1>9, StepCases DEF Proceed, ModerationStep, Same

\* What a log d says of post p.
Turns(d, p) == {i \in DOMAIN d : d[i].post = p /\ d[i].kind # "dismiss"}

Latest(d, S) == IF S = {} THEN "unhide" ELSE d[CHOOSE i \in S : \A j \in S : j <= i].kind

Last(d, p, n) == Latest(d, {i \in Turns(d, p) : i <= n})

Tells(d, p, hidden) ==
  /\ hidden <=> Last(d, p, Len(d)) = "hide"
  /\ \A i \in Turns(d, p) : d[i].kind = IF Last(d, p, i - 1) = "hide" THEN "unhide" ELSE "hide"

OpenIn(d, p, n) ==
  \/ Last(d, p, n) = "unhide"
  \/ \E i \in Turns(d, p) : i > n /\ d[i].kind = "unhide"

LEMMA LogDef ==
  /\ LogTellsState <=> \A p \in DOMAIN posts \ gone : Tells(decisions, p, posts[p].hidden)
  /\ LogTellsState' <=> \A p \in DOMAIN posts' \ gone' : Tells(decisions', p, posts'[p].hidden)
  /\ \A p, n : OpenSince(p, n) <=> OpenIn(decisions, p, n)
  /\ \A p, n : OpenSince(p, n)' <=> OpenIn(decisions', p, n)
  <1>1. LogTellsState <=> \A p \in DOMAIN posts \ gone : Tells(decisions, p, posts[p].hidden)
    BY DEF LogTellsState, LastSwitch, Switches, Tells, Last, Latest, Turns
  <1>2. LogTellsState' <=> \A p \in DOMAIN posts' \ gone' : Tells(decisions', p, posts'[p].hidden)
    BY DEF LogTellsState, LastSwitch, Switches, Tells, Last, Latest, Turns
  <1>3. \A p, n : OpenSince(p, n) <=> OpenIn(decisions, p, n)
    BY DEF OpenSince, OpenIn, LastSwitch, Switches, Last, Latest, Turns
  <1>4. \A p, n : OpenSince(p, n)' <=> OpenIn(decisions', p, n)
    BY DEF OpenSince, OpenIn, LastSwitch, Switches, Last, Latest, Turns
  <1> QED BY <1>1, <1>2, <1>3, <1>4

LogOK == LocksHold /\ LogBehind /\ LogAccounts

LEMMA LocksStay ==
  ASSUME RequestsOK, NEW r \in Requests, Moved(r), todo'[r] # <<"decide">>, NEW q \in Requests, At(q, "decide")'
  PROVE  q # r /\ At(q, "decide") /\ call'[q] = call[q]
  <1>1. q # r
    BY HeadOf DEF Moved, At
  <1> QED BY <1>1, Alone DEF At

\* No post is decided about, and no report filed or closed.
LEMMA LogStays ==
  ASSUME RequestsOK, RowsOK, RowsOK', LogOK, NEW r \in Requests, Moved(r), todo'[r] # <<"decide">>,
         Steady, UNCHANGED <<decisions, reports>>, gone \subseteq gone',
         \A p \in DOMAIN posts' \ DOMAIN posts : p \in gone \/ ~posts'[p].hidden
  PROVE  LogOK'
  <1>1. LocksHold'
    <2>1. ASSUME NEW q \in Requests, At(q, "decide")'
          PROVE  /\ q # r /\ At(q, "decide") /\ call'[q] = call[q]
                 /\ Exists(call[q].post)' /\ Applies(call[q].post, call[q].kind)'
      <3>1. q # r /\ At(q, "decide") /\ call'[q] = call[q]
        BY <2>1, LocksStay
      <3>2. Exists(call[q].post) /\ Applies(call[q].post, call[q].kind) /\ call[q].kind \in Kinds
        BY <3>1, AtModeration DEF LogOK, LocksHold, ModerateLocals
      <3>3. Exists(call[q].post)' /\ posts'[call[q].post].hidden = posts[call[q].post].hidden
        BY <3>1, <3>2 DEF Steady, Exists
      <3> QED BY <3>1, <3>2, <3>3 DEF Applies, Kinds, Pending
    <2> QED BY <2>1 DEF LogOK, LocksHold
  <1>2. LogBehind'
    BY DEF LogOK, LogBehind, Steady, Exists
  <1>3. ASSUME NEW p \in DOMAIN posts' \ gone'
        PROVE  Tells(decisions, p, posts'[p].hidden)
    <2>1. CASE p \in DOMAIN posts
      BY <1>3, <2>1, LogDef DEF LogOK, LogAccounts, Steady
    <2>2. CASE p \notin DOMAIN posts
      <3>1. ~posts'[p].hidden /\ p # None
        BY <1>3, <2>2, PostsAssumption DEF RowsOK, PostsTypeOK
      <3>2. Turns(decisions, p) = {}
        BY <2>2, <3>1 DEF Turns, LogOK, LogBehind, Exists
      <3> QED BY <3>1, <3>2 DEF Tells, Last, Latest
    <2> QED BY <2>1, <2>2
  <1>4. LogTellsState'
    BY <1>3, LogDef
  <1>5. ReportsAnswered'
    BY DEF LogOK, LogAccounts, ReportsAnswered
  <1> QED BY <1>1, <1>2, <1>4, <1>5 DEF LogOK, LogAccounts

LEMMA LockPostLog ==
  ASSUME RequestsOK, RowsOK, LogOK, NEW r \in Requests, LockPost(r)
  PROVE  LogOK'
  <1>1. UNCHANGED <<posts, decisions, gone, reports>>
    BY DEF LockPost, postVars
  <1>2. Moved(r) /\ todo'[r] \in {<<>>, <<"decide">>} /\ call'[r] \in {None, call[r]}
    <2>1. Moved(r) /\ todo'[r] \in {<<>>, Tail(todo[r])} /\ call'[r] \in {None, call[r]}
      BY MoveAlong DEF LockPost, Check, At, Reads
    <2>2. todo[r] = <<"lockPost", "decide">>
      BY AtModeration DEF LockPost
    <2> QED BY <2>1, <2>2
  <1>3. At(r, "decide")' =>
          /\ call'[r] = call[r] /\ Exists(call[r].post) /\ Applies(call[r].post, call[r].kind) /\ ~Locked(call[r].post)
    <2>1. CASE Exists(call[r].post) /\ Applies(call[r].post, call[r].kind)
      <3>1. CASE todo'[r] = <<"decide">>
        <4>1. call'[r] = call[r]
          <5>1. Advance(r) /\ todo[r] = <<"lockPost", "decide">> /\ call[r] \in ModerateLocals
            BY <2>1, AtModeration DEF LockPost, Check
          <5>2. Go(r, <<"decide">>, call[r])
            BY <5>1 DEF Advance, AdvanceWith
          <5>3. Shape(<<"decide">>, call[r]) /\ <<"decide">> # <<>>
            BY <5>1 DEF Shape, Moderating
          <5> QED BY <5>2, <5>3, MoveOn
        <4> QED BY <2>1, <4>1 DEF LockPost
      <3> QED BY <1>2, <3>1 DEF At
    <2>2. CASE ~(Exists(call[r].post) /\ Applies(call[r].post, call[r].kind))
      <3>1. todo'[r] = <<>>
        BY <2>2, MoveOut DEF LockPost, Check
      <3> QED BY <3>1 DEF At
    <2> QED BY <2>1, <2>2
  <1>4. \A q \in Requests : q # r => todo'[q] = todo[q] /\ call'[q] = call[q]
    BY <1>2, Alone
  <1>5. \A q \in Requests : At(q, "decide")' /\ q # r => At(q, "decide") /\ call'[q] = call[q]
    BY <1>4 DEF At
  <1>6. LocksHold'
    <2>1. ASSUME NEW q \in Requests, At(q, "decide")'
          PROVE  /\ call'[q] = call[q]
                 /\ Exists(call[q].post)' /\ Applies(call[q].post, call[q].kind)'
      <3>1. call'[q] = call[q] /\ Exists(call[q].post) /\ Applies(call[q].post, call[q].kind)
        BY <1>3, <1>5, <2>1 DEF LogOK, LocksHold
      <3> QED BY <1>1, <3>1 DEF Exists, Applies, Pending
    <2>2. ASSUME NEW q \in Requests, NEW z \in Requests, At(q, "decide")', At(z, "decide")', call[q].post = call[z].post
          PROVE  q = z
      BY <1>3, <1>5, <2>2 DEF LogOK, LocksHold, Locked
    <2> QED BY <2>1, <2>2 DEF LocksHold
  <1>7. LogBehind'
    BY <1>1 DEF LogOK, LogBehind, Exists
  <1>8. LogTellsState'
    BY <1>1, LogDef DEF LogOK, LogAccounts
  <1>9. ReportsAnswered'
    BY <1>1 DEF LogOK, LogAccounts, ReportsAnswered
  <1> QED BY <1>6, <1>7, <1>8, <1>9 DEF LogOK, LogAccounts

LEMMA InsertReportLog ==
  ASSUME RequestsOK, RowsOK, LogOK, NEW r \in Requests, InsertReport(r)
  PROVE  LogOK'
  <1>1. UNCHANGED <<posts, decisions, gone>> /\ Moved(r) /\ todo'[r] = <<>>
    BY MoveOut DEF InsertReport, postVars
  <1>2. \/ reports' = reports
        \/ /\ reports' = reports \cup {NewReport(r)}
           /\ \A x \in Pending(call[r].post) : x.reporter # call[r].user
    BY DEF InsertReport
  <1>3. reports \subseteq reports'
    BY <1>2
  <1>4. LocksHold'
    <2>1. ASSUME NEW q \in Requests, At(q, "decide")'
          PROVE  /\ At(q, "decide") /\ call'[q] = call[q]
                 /\ Exists(call[q].post)' /\ Applies(call[q].post, call[q].kind)'
      <3>1. q # r /\ At(q, "decide") /\ call'[q] = call[q]
        BY <1>1, <2>1, LocksStay
      <3>2. Exists(call[q].post) /\ Applies(call[q].post, call[q].kind) /\ call[q].kind \in Kinds
        BY <3>1, AtModeration DEF LogOK, LocksHold, ModerateLocals
      <3>3. Pending(call[q].post) \subseteq Pending(call[q].post)'
        BY <1>3, <3>1 DEF Pending
      <3> QED BY <1>1, <3>1, <3>2, <3>3 DEF Applies, Kinds, Exists
    <2> QED BY <2>1 DEF LogOK, LocksHold
  <1>5. /\ NewReport(r).made = Len(decisions) /\ NewReport(r).by = 0 /\ NewReport(r).status = "pending"
        /\ NewReport(r).post = call[r].post /\ NewReport(r).reporter = call[r].user /\ Len(decisions) \in Nat
        /\ DOMAIN decisions = 1..Len(decisions)
    BY DEF NewReport, RowsOK, PostsTypeOK
  <1>6. LogBehind'
    BY <1>1, <1>2, <1>5 DEF LogOK, LogBehind, Exists
  <1>7. LogTellsState'
    BY <1>1, LogDef DEF LogOK, LogAccounts
  <1>8. ReportsAnswered'
    <2>1. CASE reports' = reports
      BY <1>1, <2>1 DEF LogOK, LogAccounts, ReportsAnswered
    <2>2. CASE /\ reports' = reports \cup {NewReport(r)}
               /\ \A x \in Pending(call[r].post) : x.reporter # call[r].user
      <3> DEFINE new == NewReport(r)
      <3> HIDE DEF new
      <3>1. /\ reports' = reports \cup {new} /\ new.made = Len(decisions) /\ new.status = "pending"
            /\ \A x \in reports : x.post = new.post /\ x.status = "pending" => x.reporter # new.reporter
        BY <1>5, <2>2 DEF new, Pending
      <3>2. \A i \in DOMAIN decisions : i <= new.made
        BY <1>5, <3>1
      <3>3. ASSUME NEW x \in reports', x.post \notin gone
            PROVE  IF x.status = "pending"
                   THEN \A i \in DOMAIN decisions :
                          decisions[i].post = x.post /\ decisions[i].kind # "unhide" => i <= x.made
                   ELSE /\ x.by \in DOMAIN decisions /\ x.made < x.by
                        /\ decisions[x.by].post = x.post
                        /\ decisions[x.by].kind = IF x.status = "resolved" THEN "hide" ELSE "dismiss"
        BY <3>1, <3>2, <3>3 DEF LogOK, LogAccounts, ReportsAnswered
      <3>4. \A i \in DOMAIN decisions :
              decisions[i].kind = "dismiss" /\ decisions[i].post \in Post \ gone => \E x \in reports' : x.by = i
        BY <3>1 DEF LogOK, LogAccounts, ReportsAnswered
      <3>5. \A x, y \in reports' :
              x.post = y.post /\ x.reporter = y.reporter /\ x.status = "pending" /\ y.status = "pending" => x = y
        BY <3>1 DEF LogOK, LogAccounts, ReportsAnswered
      <3> QED BY <1>1, <3>3, <3>4, <3>5 DEF ReportsAnswered
    <2> QED BY <1>2, <2>1, <2>2
  <1> QED BY <1>4, <1>6, <1>7, <1>8 DEF LogOK, LogAccounts

\* A decision is logged.
LEMMA TurnsAppend ==
  ASSUME NEW d \in Seq(Decision), NEW e \in Decision, NEW p
  PROVE  /\ DOMAIN d = 1..Len(d) /\ DOMAIN Append(d, e) = 1..(Len(d) + 1) /\ Len(Append(d, e)) = Len(d) + 1
         /\ \A i \in DOMAIN d : Append(d, e)[i] = d[i]
         /\ Append(d, e)[Len(d) + 1] = e /\ Len(d) \in Nat
         /\ Turns(Append(d, e), p) =
              Turns(d, p) \cup IF e.post = p /\ e.kind # "dismiss" THEN {Len(d) + 1} ELSE {}
  <1>1. /\ DOMAIN d = 1..Len(d) /\ DOMAIN Append(d, e) = 1..(Len(d) + 1) /\ Len(Append(d, e)) = Len(d) + 1
        /\ \A i \in DOMAIN d : Append(d, e)[i] = d[i]
        /\ Append(d, e)[Len(d) + 1] = e /\ Len(d) \in Nat
    OBVIOUS
  <1>2. 1..(Len(d) + 1) = 1..Len(d) \cup {Len(d) + 1} /\ Len(d) + 1 \notin 1..Len(d)
    BY <1>1
  <1> DEFINE a == Append(d, e)
  <1> HIDE DEF a
  <1>3. /\ DOMAIN a = DOMAIN d \cup {Len(d) + 1} /\ \A i \in DOMAIN d : a[i] = d[i]
        /\ a[Len(d) + 1] = e
    BY <1>1, <1>2 DEF a
  <1>4. Turns(a, p) = Turns(d, p) \cup IF e.post = p /\ e.kind # "dismiss" THEN {Len(d) + 1} ELSE {}
    BY <1>3 DEF Turns
  <1> QED BY <1>1, <1>4 DEF a

LEMMA Least ==
  ASSUME NEW S, S \subseteq Nat, S # {}
  PROVE  \E x \in S : \A y \in S : x <= y
  <1>1. \E R : IsWellFoundedOn(R, Nat) /\ \A x, y \in Nat : y < x => <<y, x>> \in R
    <2>1. \A x, y \in Nat : y < x => <<y, x>> \in OpToRel(<, Nat)
      BY DEF OpToRel
    <2> QED BY <2>1, NatLessThanWellFounded
  <1>2. PICK R : IsWellFoundedOn(R, Nat) /\ \A x, y \in Nat : y < x => <<y, x>> \in R
    BY <1>1
  <1>3. PICK x \in S : \A y \in S : ~ (<<y, x>> \in R)
    BY <1>2, WFMin
  <1>4. ASSUME NEW y \in S
        PROVE  x <= y
    <2>1. x \in Nat /\ y \in Nat
      OBVIOUS
    <2>2. ~ (y < x)
      BY <1>2, <1>3, <2>1, Zenon
    <2> QED BY <2>1, <2>2, SMT
  <1> QED BY <1>4

\* The last of some entries of a log is found from its end.
LEMMA Greatest ==
  ASSUME NEW N \in Nat, NEW S, S \subseteq 1..N, S # {}
  PROVE  \E x \in S : \A y \in S : y <= x
  <1> DEFINE D == {n \in Nat : \E y \in S : n = N - y}
  <1>1. \A y \in S : N - y \in D
    OBVIOUS
  <1>2. D \subseteq Nat /\ D # {}
    BY <1>1
  <1>3. PICK n \in D : \A k \in D : n <= k
    BY <1>2, Least
  <1>4. PICK x \in S : n = N - x
    BY <1>3
  <1>5. ASSUME NEW y \in S
        PROVE  y <= x
    <2>1. n <= N - y
      BY <1>1, <1>3
    <2> QED BY <1>4, <2>1
  <1> QED BY <1>5

LEMMA LastAppend ==
  ASSUME NEW d \in Seq(Decision), NEW e \in Decision, NEW p
  PROVE  /\ \A n \in Int : n <= Len(d) => Last(Append(d, e), p, n) = Last(d, p, n)
         /\ Last(Append(d, e), p, Len(d) + 1) =
              IF e.post = p /\ e.kind # "dismiss" THEN e.kind ELSE Last(d, p, Len(d))
  <1> DEFINE a == Append(d, e)
             N == Len(d)
  <1>1. /\ DOMAIN d = 1..N /\ DOMAIN a = 1..(N + 1) /\ N \in Nat
        /\ \A i \in DOMAIN d : a[i] = d[i]
        /\ a[N + 1] = e
        /\ Turns(a, p) = Turns(d, p) \cup IF e.post = p /\ e.kind # "dismiss" THEN {N + 1} ELSE {}
    BY TurnsAppend
  <1> HIDE DEF a, N
  <1>2. Turns(d, p) \subseteq 1..N
    BY <1>1 DEF Turns
  <1>3. ASSUME NEW n \in Int, NEW m \in Int, {i \in Turns(a, p) : i <= n} = {i \in Turns(d, p) : i <= m}
        PROVE  Last(a, p, n) = Last(d, p, m)
    <2>1. PICK S : S = {i \in Turns(d, p) : i <= m}
      OBVIOUS
    <2>2. ASSUME S # {}
          PROVE  Latest(a, S) = Latest(d, S)
      <3> DEFINE last == CHOOSE i \in S : \A j \in S : j <= i
      <3>1. last \in S
        <4>1. \E i \in S : \A j \in S : j <= i
          BY <1>1, <1>2, <2>1, <2>2, Greatest
        <4> QED BY <4>1
      <3>2. a[last] = d[last]
        BY <1>1, <1>2, <2>1, <3>1
      <3> QED BY <2>2, <3>2 DEF Latest
    <2>3. S = {} => Latest(a, S) = Latest(d, S)
      BY DEF Latest
    <2>4. Latest(a, S) = Latest(d, S)
      BY <2>2, <2>3
    <2> QED BY <1>3, <2>1, <2>4 DEF Last
  <1>4. ASSUME NEW n \in Int, n <= N
        PROVE  Last(a, p, n) = Last(d, p, n)
    <2>1. {i \in Turns(a, p) : i <= n} = {i \in Turns(d, p) : i <= n}
      BY <1>1, <1>4
    <2> QED BY <1>3, <2>1
  <1>5. CASE e.post = p /\ e.kind # "dismiss"
    <2>1. PICK S : S = {i \in Turns(a, p) : i <= N + 1}
      OBVIOUS
    <2>2. N + 1 \in S /\ \A j \in S : j <= N + 1 /\ j \in Int
      BY <1>1, <1>2, <1>5, <2>1
    <2>3. (CHOOSE i \in S : \A j \in S : j <= i) = N + 1
      BY <2>2
    <2>4. Latest(a, S) = e.kind
      BY <1>1, <2>2, <2>3 DEF Latest
    <2>5. Last(a, p, N + 1) = e.kind
      BY <2>1, <2>4 DEF Last
    <2> QED BY <1>4, <1>5, <2>5 DEF a, N
  <1>6. CASE ~(e.post = p /\ e.kind # "dismiss")
    <2>1. {i \in Turns(a, p) : i <= N + 1} = {i \in Turns(d, p) : i <= N}
      BY <1>1, <1>2, <1>6
    <2>2. Last(a, p, N + 1) = Last(d, p, N)
      BY <1>1, <1>3, <2>1
    <2> QED BY <1>4, <1>6, <2>2 DEF a, N
  <1> QED BY <1>4, <1>5, <1>6 DEF a, N

LEMMA TellsAppend ==
  ASSUME NEW d \in Seq(Decision), NEW e \in Decision, NEW p, NEW h \in BOOLEAN, Tells(d, p, h),
         e.post = p /\ e.kind # "dismiss" => e.kind = IF h THEN "unhide" ELSE "hide",
         NEW k \in BOOLEAN, k = IF e.post = p /\ e.kind # "dismiss" THEN e.kind = "hide" ELSE h
  PROVE  Tells(Append(d, e), p, k)
  <1> DEFINE a == Append(d, e)
             N == Len(d)
  <1>1. /\ DOMAIN d = 1..N /\ Len(a) = N + 1 /\ N \in Nat /\ \A i \in DOMAIN d : a[i] = d[i]
        /\ a[N + 1] = e
        /\ Turns(a, p) = Turns(d, p) \cup IF e.post = p /\ e.kind # "dismiss" THEN {N + 1} ELSE {}
    BY TurnsAppend
  <1>2. /\ \A n \in Int : n <= N => Last(a, p, n) = Last(d, p, n)
        /\ Last(a, p, N + 1) = IF e.post = p /\ e.kind # "dismiss" THEN e.kind ELSE Last(d, p, N)
    BY LastAppend
  <1>3. /\ h <=> Last(d, p, N) = "hide"
        /\ \A i \in Turns(d, p) : d[i].kind = IF Last(d, p, i - 1) = "hide" THEN "unhide" ELSE "hide"
    BY DEF Tells
  <1>4. Turns(d, p) \subseteq 1..N
    BY <1>1 DEF Turns
  <1> HIDE DEF a, N
  <1>5. k <=> Last(a, p, Len(a)) = "hide"
    BY <1>1, <1>2, <1>3
  <1>6. ASSUME NEW i \in Turns(a, p)
        PROVE  a[i].kind = IF Last(a, p, i - 1) = "hide" THEN "unhide" ELSE "hide"
    <2>1. CASE i \in Turns(d, p)
      <3>1. i \in 1..N /\ i - 1 \in Int /\ i - 1 <= N
        BY <1>1, <1>4, <2>1
      <3> QED BY <1>1, <1>2, <1>3, <2>1, <3>1
    <2>2. CASE i \notin Turns(d, p)
      <3>1. i = N + 1 /\ e.post = p /\ e.kind # "dismiss"
        BY <1>1, <2>2
      <3>2. i - 1 = N /\ a[i] = e
        BY <1>1, <3>1
      <3>3. Last(a, p, i - 1) = Last(d, p, N)
        BY <1>1, <1>2, <3>2
      <3> QED BY <1>3, <3>1, <3>2, <3>3
    <2> QED BY <2>1, <2>2
  <1> QED BY <1>5, <1>6 DEF Tells, a

LEMMA DecideLog ==
  ASSUME RequestsOK, RowsOK, LogOK, NEW r \in Requests, Decide(r)
  PROVE  LogOK'
  <1> DEFINE p == call[r].post
             kind == call[r].kind
             e == [post |-> p, kind |-> kind]
             N == Len(decisions)
             status == IF kind = "hide" THEN "resolved" ELSE "dismissed"
  <1>1. /\ p \in Post /\ kind \in Kinds /\ p \in DOMAIN posts /\ Applies(p, kind) /\ At(r, "decide")
        /\ Moved(r) /\ todo'[r] = <<>>
    BY AtModeration, MoveOut DEF Decide, LogOK, LocksHold, ModerateLocals, Exists
  <1>2. /\ e \in Decision /\ e.post = p /\ e.kind = kind /\ decisions \in Seq(Decision)
        /\ posts \in [DOMAIN posts -> PostRow]
    BY <1>1 DEF Decision, RowsOK, PostsTypeOK
  <1>3. /\ decisions' = Append(decisions, e) /\ UNCHANGED gone
        /\ posts' = IF kind = "dismiss" THEN posts ELSE [posts EXCEPT ![p].hidden = (kind = "hide")]
    BY DEF Decide
  <1>4. kind = "unhide" => reports' = reports
    BY <1>1 DEF Decide, Kinds
  <1>5. kind # "unhide" => ClosePending(p, status)
    BY <1>1 DEF Decide, Kinds
  <1> HIDE DEF status
  <1>6. /\ DOMAIN decisions = 1..N /\ DOMAIN decisions' = 1..(N + 1) /\ Len(decisions') = N + 1
        /\ \A i \in DOMAIN decisions : decisions'[i] = decisions[i]
        /\ decisions'[N + 1] = e /\ N \in Nat
    BY <1>2, <1>3, TurnsAppend
  <1> HIDE DEF p, kind, e
  <1>7. ASSUME NEW q \in DOMAIN posts
        PROVE  /\ posts[q].hidden \in BOOLEAN
               /\ posts'[q].hidden = IF q = p /\ kind # "dismiss" THEN kind = "hide" ELSE posts[q].hidden
    <2>1. posts[q] \in PostRow
      BY <1>2
    <2> QED BY <1>2, <1>3, <2>1 DEF PostRow
  <1>8. DOMAIN posts' = DOMAIN posts
    BY <1>2, <1>3
  <1>9. LogTellsState'
    <2>1. ASSUME NEW q \in DOMAIN posts \ gone
          PROVE  Tells(decisions', q, posts'[q].hidden)
      <3>1. Tells(decisions, q, posts[q].hidden)
        BY LogDef DEF LogOK, LogAccounts
      <3>2. e.post = q /\ e.kind # "dismiss" => e.kind = IF posts[q].hidden THEN "unhide" ELSE "hide"
        BY <1>1, <1>2 DEF Applies, Kinds
      <3>3. posts'[q].hidden = IF e.post = q /\ e.kind # "dismiss" THEN e.kind = "hide" ELSE posts[q].hidden
        BY <1>2, <1>7
      <3>4. posts[q].hidden \in BOOLEAN
        BY <1>7
      <3>5. posts'[q].hidden \in BOOLEAN
        BY <3>3, <3>4
      <3> QED BY <1>2, <1>3, <3>1, <3>2, <3>3, <3>4, <3>5, TellsAppend
    <2> QED BY <1>3, <1>8, <2>1, LogDef
  <1>10. \A x \in reports' :
           \/ x \in reports /\ (kind # "unhide" => x \notin Pending(p))
           \/ /\ kind # "unhide"
              /\ \E y \in Pending(p) : x = [y EXCEPT !.status = status, !.by = N + 1]
    BY <1>4, <1>5 DEF ClosePending
  <1>11. reports \ Pending(p) \subseteq reports'
    BY <1>4, <1>5 DEF ClosePending
  <1>12. ASSUME NEW y \in Pending(p)
         PROVE  /\ y \in reports /\ y.status = "pending" /\ y.made <= N /\ y.post = p
                /\ [y EXCEPT !.status = status, !.by = N + 1].status = status
                /\ [y EXCEPT !.status = status, !.by = N + 1].by = N + 1
                /\ [y EXCEPT !.status = status, !.by = N + 1].post = p
                /\ [y EXCEPT !.status = status, !.by = N + 1].made = y.made
                /\ y.made \in Nat
    <2>1. y \in Report
      BY DEF Pending, RowsOK, ReportsFit, ModerationTypeOK
    <2> QED BY <2>1 DEF Pending, Report, LogOK, LogBehind
  <1>13. \A x \in reports : x.status # "pending" =>
           x.by \in DOMAIN decisions /\ decisions[x.by].post = x.post
    BY DEF LogOK, LogBehind
  <1>14. \A x \in reports : x.made <= N /\ x.made \in Nat /\ x.by \in Nat
    BY DEF LogOK, LogBehind, RowsOK, ReportsFit, ModerationTypeOK, Report
  <1>15. status \in {"resolved", "dismissed"} /\ status # "pending"
         /\ (kind # "unhide" => kind = IF status = "resolved" THEN "hide" ELSE "dismiss")
    BY <1>1 DEF status, Kinds
  <1>16. LogBehind'
    <2>1. ASSUME NEW i \in DOMAIN decisions'
          PROVE  decisions'[i].post \in DOMAIN posts' \/ decisions'[i].post = None
      BY <1>1, <1>2, <1>6, <1>8 DEF LogOK, LogBehind, Exists
    <2>2. ASSUME NEW x \in reports'
          PROVE  /\ x.made <= N + 1
                 /\ IF x.status = "pending" THEN x.by = 0
                    ELSE x.by \in DOMAIN decisions' /\ decisions'[x.by].post = x.post
      <3>1. CASE x \in reports
        <4>1. x.status = "pending" => x.by = 0
          BY <3>1 DEF LogOK, LogBehind
        <4> QED BY <1>6, <1>13, <1>14, <3>1, <4>1
      <3>2. CASE \E y \in Pending(p) : x = [y EXCEPT !.status = status, !.by = N + 1]
        <4>1. PICK y \in Pending(p) : x = [y EXCEPT !.status = status, !.by = N + 1]
          BY <3>2
        <4>2. /\ x.status = status /\ x.by = N + 1 /\ x.post = p /\ x.made = y.made /\ y.made <= N /\ y.made \in Nat
          BY <1>12, <4>1
        <4> QED BY <1>2, <1>6, <1>15, <4>2
      <3> QED BY <1>10, <3>1, <3>2
    <2> QED BY <1>6, <2>1, <2>2 DEF LogBehind, Exists
  <1>17. LocksHold'
    <2>1. ASSUME NEW q \in Requests, At(q, "decide")'
          PROVE  /\ q # r /\ At(q, "decide") /\ call'[q] = call[q] /\ call[q].post # p
                 /\ Exists(call[q].post)' /\ Applies(call[q].post, call[q].kind)'
      <3>6. Moved(r) /\ todo'[r] # <<"decide">>
        BY <1>1
      <3>1. q # r /\ At(q, "decide") /\ call'[q] = call[q]
        BY <2>1, <3>6, LocksStay
      <3>2. call[q].post # p
        BY <1>1, <3>1 DEF LogOK, LocksHold, p
      <3>3. Exists(call[q].post) /\ Applies(call[q].post, call[q].kind) /\ call[q].kind \in Kinds
        BY <3>1, AtModeration DEF LogOK, LocksHold, ModerateLocals
      <3>4. posts'[call[q].post].hidden = posts[call[q].post].hidden
        BY <1>7, <3>2, <3>3 DEF Exists
      <3>5. Pending(call[q].post) \subseteq Pending(call[q].post)'
        BY <1>11, <3>1, <3>2 DEF Pending
      <3> QED BY <1>8, <3>1, <3>2, <3>3, <3>4, <3>5 DEF Applies, Kinds, Exists
    <2> QED BY <2>1 DEF LogOK, LocksHold
  <1>18. ReportsAnswered'
    <2>1. ASSUME NEW x \in reports', x.post \notin gone
          PROVE  IF x.status = "pending"
                 THEN \A i \in DOMAIN decisions' :
                        decisions'[i].post = x.post /\ decisions'[i].kind # "unhide" => i <= x.made
                 ELSE /\ x.by \in DOMAIN decisions' /\ x.made < x.by
                      /\ decisions'[x.by].post = x.post
                      /\ decisions'[x.by].kind = IF x.status = "resolved" THEN "hide" ELSE "dismiss"
      <3>1. CASE x \in reports /\ (kind # "unhide" => x \notin Pending(p))
        <4>1. CASE x.status = "pending"
          <5>1. ASSUME NEW i \in DOMAIN decisions', decisions'[i].post = x.post, decisions'[i].kind # "unhide"
                PROVE  i <= x.made
            <6>1. i # N + 1
              BY <1>2, <1>6, <3>1, <4>1, <5>1 DEF Pending
            <6>2. i \in DOMAIN decisions /\ decisions'[i] = decisions[i]
              BY <1>6, <6>1
            <6> QED BY <2>1, <3>1, <4>1, <5>1, <6>2 DEF LogOK, LogAccounts, ReportsAnswered
          <5> QED BY <4>1, <5>1
        <4>2. CASE x.status # "pending"
          <5>1. /\ x.by \in DOMAIN decisions /\ x.made < x.by
                /\ decisions[x.by].post = x.post
                /\ decisions[x.by].kind = IF x.status = "resolved" THEN "hide" ELSE "dismiss"
            BY <2>1, <3>1, <4>2 DEF LogOK, LogAccounts, ReportsAnswered
          <5>2. x.by \in DOMAIN decisions' /\ decisions'[x.by] = decisions[x.by]
            BY <1>6, <5>1
          <5> QED BY <4>2, <5>1, <5>2
        <4> QED BY <4>1, <4>2
      <3>2. CASE kind # "unhide" /\ \E y \in Pending(p) : x = [y EXCEPT !.status = status, !.by = N + 1]
        <4>1. PICK y \in Pending(p) : x = [y EXCEPT !.status = status, !.by = N + 1]
          BY <3>2
        <4>2. /\ x.status = status /\ x.by = N + 1 /\ x.post = p /\ x.made = y.made /\ y.made <= N /\ y.made \in Nat
          BY <1>12, <4>1
        <4>3. x.by \in DOMAIN decisions' /\ x.made < x.by
          BY <1>6, <4>2
        <4>4. decisions'[x.by].post = x.post /\ decisions'[x.by].kind = IF x.status = "resolved" THEN "hide" ELSE "dismiss"
          BY <1>2, <1>6, <1>15, <3>2, <4>2
        <4> QED BY <1>15, <4>2, <4>3, <4>4
      <3> QED BY <1>10, <3>1, <3>2
    <2>2. ASSUME NEW i \in DOMAIN decisions', decisions'[i].kind = "dismiss", decisions'[i].post \in Post \ gone
          PROVE  \E x \in reports' : x.by = i
      <3>1. CASE i = N + 1
        <4>1. kind = "dismiss"
          BY <1>2, <1>6, <2>2, <3>1
        <4>2. PICK y : y \in Pending(p)
          BY <1>1, <4>1 DEF Applies
        <4>3. [y EXCEPT !.status = status, !.by = N + 1] \in reports'
          BY <1>5, <4>1, <4>2 DEF ClosePending
        <4> QED BY <1>12, <3>1, <4>2, <4>3
      <3>2. CASE i # N + 1
        <4>1. i \in DOMAIN decisions /\ decisions'[i] = decisions[i] /\ i # 0
          BY <1>6, <3>2
        <4>2. PICK x \in reports : x.by = i
          BY <2>2, <4>1 DEF LogOK, LogAccounts, ReportsAnswered
        <4>3. x.status # "pending"
          BY <4>1, <4>2 DEF LogOK, LogBehind
        <4> QED BY <1>11, <4>2, <4>3 DEF Pending
      <3> QED BY <3>1, <3>2
    <2>3. ASSUME NEW x \in reports', NEW y \in reports',
                 x.post = y.post, x.reporter = y.reporter, x.status = "pending", y.status = "pending"
          PROVE  x = y
      <3>1. x \in reports /\ y \in reports
        BY <1>10, <1>12, <1>15, <2>3
      <3> QED BY <2>3, <3>1 DEF LogOK, LogAccounts, ReportsAnswered
    <2> QED BY <1>3, <2>1, <2>2, <2>3 DEF ReportsAnswered
  <1> QED BY <1>9, <1>16, <1>17, <1>18 DEF LogOK, LogAccounts

\* A post is deleted: the log forgets it ...
LEMMA Forgets ==
  ASSUME NEW d \in Seq(Decision), NEW p, NEW f,
         f = [i \in DOMAIN d |-> IF d[i].post = p THEN [d[i] EXCEPT !.post = None] ELSE d[i]]
  PROVE  /\ DOMAIN f = DOMAIN d /\ Len(f) = Len(d)
         /\ \A i \in DOMAIN d : /\ f[i].kind = d[i].kind
                                /\ f[i].post = IF d[i].post = p THEN None ELSE d[i].post
  <1>1. DOMAIN f = DOMAIN d /\ DOMAIN d = 1..Len(d) /\ Len(d) \in Nat
    OBVIOUS
  <1>2. Len(f) = Len(d)
    BY <1>1, LenProperties
  <1>3. ASSUME NEW i \in DOMAIN d
        PROVE  f[i].kind = d[i].kind /\ f[i].post = IF d[i].post = p THEN None ELSE d[i].post
    <2>1. d[i] \in Decision
      OBVIOUS
    <2>2. [d[i] EXCEPT !.post = None].kind = d[i].kind /\ [d[i] EXCEPT !.post = None].post = None
      BY <2>1 DEF Decision
    <2>3. f[i] = IF d[i].post = p THEN [d[i] EXCEPT !.post = None] ELSE d[i]
      OBVIOUS
    <2> QED BY <2>2, <2>3
  <1> QED BY <1>1, <1>2, <1>3

\* ... and says of others what it said.
LEMMA TellsForget ==
  ASSUME NEW d \in Seq(Decision), NEW q, NEW f, DOMAIN f = DOMAIN d, Len(f) = Len(d),
         \A i \in DOMAIN d : f[i].kind = d[i].kind /\ (f[i].post = q <=> d[i].post = q)
  PROVE  /\ Turns(f, q) = Turns(d, q)
         /\ \A n \in Int : Last(f, q, n) = Last(d, q, n)
         /\ \A h \in BOOLEAN : Tells(d, q, h) => Tells(f, q, h)
         /\ \A n \in Int : OpenIn(d, q, n) => OpenIn(f, q, n)
  <1>1. DOMAIN f = DOMAIN d /\ DOMAIN d = 1..Len(d) /\ Len(d) \in Nat
    OBVIOUS
  <1>2. Len(f) = Len(d)
    OBVIOUS
  <1>3. \A i \in DOMAIN d : f[i].kind = d[i].kind /\ (f[i].post = q <=> d[i].post = q)
    OBVIOUS
  <1>4. Turns(f, q) = Turns(d, q)
    BY <1>1, <1>3 DEF Turns
  <1>5. Turns(d, q) \subseteq 1..Len(d)
    BY <1>1 DEF Turns
  <1>6. ASSUME NEW n \in Int
        PROVE  Last(f, q, n) = Last(d, q, n)
    <2>1. PICK S : S = {i \in Turns(d, q) : i <= n}
      OBVIOUS
    <2>2. ASSUME S # {}
          PROVE  Latest(f, S) = Latest(d, S)
      <3> DEFINE last == CHOOSE i \in S : \A j \in S : j <= i
      <3>1. last \in S
        <4>1. \E i \in S : \A j \in S : j <= i
          BY <1>1, <1>5, <2>1, <2>2, Greatest
        <4> QED BY <4>1
      <3>2. f[last].kind = d[last].kind
        BY <1>1, <1>3, <1>5, <2>1, <3>1
      <3> QED BY <2>2, <3>2 DEF Latest
    <2>3. S = {} => Latest(f, S) = Latest(d, S)
      BY DEF Latest
    <2> QED BY <1>4, <2>1, <2>2, <2>3 DEF Last
  <1>7. ASSUME NEW h \in BOOLEAN, Tells(d, q, h)
        PROVE  Tells(f, q, h)
    <2>1. h <=> Last(f, q, Len(f)) = "hide"
      BY <1>1, <1>2, <1>6, <1>7 DEF Tells
    <2>2. ASSUME NEW i \in Turns(f, q)
          PROVE  f[i].kind = IF Last(f, q, i - 1) = "hide" THEN "unhide" ELSE "hide"
      <3>1. i \in DOMAIN d /\ i \in Turns(d, q) /\ i - 1 \in Int
        BY <1>1, <1>4, <1>5
      <3>2. f[i].kind = d[i].kind /\ Last(f, q, i - 1) = Last(d, q, i - 1)
        BY <1>3, <1>6, <3>1
      <3> QED BY <1>7, <3>1, <3>2 DEF Tells
    <2> QED BY <2>1, <2>2 DEF Tells
  <1>8. ASSUME NEW n \in Int, OpenIn(d, q, n)
        PROVE  OpenIn(f, q, n)
    <2>1. CASE Last(d, q, n) = "unhide"
      BY <1>6, <2>1 DEF OpenIn
    <2>2. CASE \E i \in Turns(d, q) : i > n /\ d[i].kind = "unhide"
      BY <1>1, <1>3, <1>4, <1>5, <2>2 DEF OpenIn
    <2> QED BY <1>8, <2>1, <2>2 DEF OpenIn
  <1> QED BY <1>1, <1>2, <1>3, <1>4, <1>6, <1>7, <1>8

LEMMA RemoveLog ==
  ASSUME RequestsOK, RowsOK, LogOK, NEW r \in Requests, NEW u, NEW p \in Post, RemovePost(r, u, p)
  PROVE  LogOK'
  <1>1. /\ posts' = Without(posts, {p}) /\ ~Locked(p)
        /\ decisions' = [i \in DOMAIN decisions |->
                           IF decisions[i].post = p THEN [decisions[i] EXCEPT !.post = None] ELSE decisions[i]]
        /\ gone \cup {p} \subseteq gone' /\ reports' = {x \in reports : x.post # p}
        /\ UNCHANGED <<todo, call>>
    BY DEF RemovePost, DeletePost, MayRefer, CascadeReports, AtOnce, requestVars
  <1>2. /\ DOMAIN posts' = DOMAIN posts \ {p} /\ \A q \in DOMAIN posts' : posts'[q] = posts[q]
    BY <1>1 DEF Without
  <1>3. /\ decisions \in Seq(Decision) /\ DOMAIN posts \subseteq Post /\ None \notin Post
        /\ \A q \in DOMAIN posts : posts[q].hidden \in BOOLEAN
    BY PostsAssumption DEF RowsOK, PostsTypeOK, PostRow
  <1>4. /\ DOMAIN decisions' = DOMAIN decisions /\ Len(decisions') = Len(decisions)
        /\ \A i \in DOMAIN decisions :
             /\ decisions'[i].kind = decisions[i].kind
             /\ decisions'[i].post = IF decisions[i].post = p THEN None ELSE decisions[i].post
    BY <1>1, <1>3, Forgets
  <1>5. LogTellsState'
    <2>1. ASSUME NEW q \in DOMAIN posts' \ gone'
          PROVE  Tells(decisions', q, posts'[q].hidden)
      <3>1. q \in DOMAIN posts \ gone /\ q # p /\ q # None /\ posts'[q] = posts[q]
        BY <1>1, <1>2, <1>3
      <3>2. Tells(decisions, q, posts[q].hidden) /\ posts[q].hidden \in BOOLEAN
        BY <1>3, <3>1, LogDef DEF LogOK, LogAccounts
      <3>3. decisions \in Seq(Decision)
        BY <1>3
      <3>4. \A i \in DOMAIN decisions :
              decisions'[i].kind = decisions[i].kind /\ (decisions'[i].post = q <=> decisions[i].post = q)
        BY <1>4, <3>1
      <3>5. ASSUME NEW h \in BOOLEAN, Tells(decisions, q, h)
            PROVE  Tells(decisions', q, h)
        <4>1. DOMAIN decisions' = DOMAIN decisions /\ Len(decisions') = Len(decisions)
          BY <1>4
        <4>2. \A i \in BOOLEAN : Tells(decisions, q, i) => Tells(decisions', q, i)
          BY <3>3, <3>4, <4>1, TellsForget
        <4> QED BY <3>5, <4>2
      <3> QED BY <3>1, <3>2, <3>5
    <2> QED BY <2>1, LogDef
  <1>6. LogBehind'
    <2>1. ASSUME NEW i \in DOMAIN decisions'
          PROVE  decisions'[i].post \in DOMAIN posts' \/ decisions'[i].post = None
      BY <1>2, <1>4 DEF LogOK, LogBehind, Exists
    <2>2. ASSUME NEW x \in reports'
          PROVE  /\ x.made <= Len(decisions')
                 /\ IF x.status = "pending" THEN x.by = 0
                    ELSE x.by \in DOMAIN decisions' /\ decisions'[x.by].post = x.post
      BY <1>1, <1>4 DEF LogOK, LogBehind
    <2> QED BY <2>1, <2>2 DEF LogBehind, Exists
  <1>7. LocksHold'
    <2>1. ASSUME NEW q \in Requests, At(q, "decide")'
          PROVE  /\ At(q, "decide") /\ call'[q] = call[q]
                 /\ Exists(call[q].post)' /\ Applies(call[q].post, call[q].kind)'
      <3>1. At(q, "decide") /\ call'[q] = call[q]
        BY <1>1, <2>1 DEF At
      <3>2. call[q].post # p
        BY <1>1, <3>1 DEF Locked
      <3>3. Exists(call[q].post) /\ Applies(call[q].post, call[q].kind)
        BY <3>1 DEF LogOK, LocksHold
      <3>4. call[q].post \in DOMAIN posts' /\ posts'[call[q].post] = posts[call[q].post]
        BY <1>2, <3>2, <3>3 DEF Exists
      <3>5. Pending(call[q].post)' = Pending(call[q].post)
        BY <1>1, <3>1, <3>2 DEF Pending
      <3> QED BY <3>1, <3>3, <3>4, <3>5 DEF Applies, Exists
    <2> QED BY <2>1 DEF LogOK, LocksHold
  <1>8. ReportsAnswered'
    <2>1. ASSUME NEW x \in reports', x.post \notin gone'
          PROVE  IF x.status = "pending"
                 THEN \A i \in DOMAIN decisions' :
                        decisions'[i].post = x.post /\ decisions'[i].kind # "unhide" => i <= x.made
                 ELSE /\ x.by \in DOMAIN decisions' /\ x.made < x.by
                      /\ decisions'[x.by].post = x.post
                      /\ decisions'[x.by].kind = IF x.status = "resolved" THEN "hide" ELSE "dismiss"
      <3>1. x \in reports /\ x.post \notin gone /\ x.post # p /\ x.post # None
        BY <1>1, <1>3, <2>1 DEF RowsOK, ReportsFit, Exists
      <3>2. IF x.status = "pending"
            THEN \A i \in DOMAIN decisions :
                   decisions[i].post = x.post /\ decisions[i].kind # "unhide" => i <= x.made
            ELSE /\ x.by \in DOMAIN decisions /\ x.made < x.by
                 /\ decisions[x.by].post = x.post
                 /\ decisions[x.by].kind = IF x.status = "resolved" THEN "hide" ELSE "dismiss"
        BY <3>1 DEF LogOK, LogAccounts, ReportsAnswered
      <3>3. CASE x.status = "pending"
        <4>1. ASSUME NEW i \in DOMAIN decisions', decisions'[i].post = x.post, decisions'[i].kind # "unhide"
              PROVE  i <= x.made
          <5>1. i \in DOMAIN decisions /\ decisions[i].post = x.post /\ decisions[i].kind # "unhide"
            BY <1>4, <3>1, <4>1
          <5> QED BY <3>2, <3>3, <5>1
        <4> QED BY <3>3, <4>1
      <3>4. CASE x.status # "pending"
        BY <1>4, <3>1, <3>2, <3>4
      <3> QED BY <3>3, <3>4
    <2>2. ASSUME NEW i \in DOMAIN decisions', decisions'[i].kind = "dismiss", decisions'[i].post \in Post \ gone'
          PROVE  \E x \in reports' : x.by = i
      <3>1. /\ i \in DOMAIN decisions /\ decisions[i].kind = "dismiss" /\ decisions[i].post \in Post \ gone
            /\ decisions[i].post # p /\ i # 0
        BY <1>1, <1>3, <1>4, <2>2
      <3>2. PICK x \in reports : x.by = i
        BY <3>1 DEF LogOK, LogAccounts, ReportsAnswered
      <3>3. x.post = decisions[i].post
        BY <3>1, <3>2 DEF LogOK, LogBehind
      <3> QED BY <1>1, <3>1, <3>2, <3>3
    <2>3. ASSUME NEW x \in reports', NEW y \in reports',
                 x.post = y.post, x.reporter = y.reporter, x.status = "pending", y.status = "pending"
          PROVE  x = y
      BY <1>1, <2>3 DEF LogOK, LogAccounts, ReportsAnswered
    <2> QED BY <2>1, <2>2, <2>3 DEF ReportsAnswered
  <1> QED BY <1>5, <1>6, <1>7, <1>8 DEF LogOK, LogAccounts

\* The log accounts for posts and reports.
LEMMA LogStep ==
  ASSUME RequestsOK, RowsOK, RowsOK', MarksAgree, LogOK, [Next]_vars
  PROVE  LogOK'
  <1>1. CASE Expire \/ UNCHANGED vars
    <2>1. UNCHANGED <<todo, call, posts, decisions, gone, reports>>
      BY <1>1 DEF Expire, ExpireList, ExpireMarker, vars, requestVars, postVars
    <2>2. LocksHold'
      BY <2>1 DEF LogOK, LocksHold, Exists, Applies, Pending, At
    <2>3. LogBehind'
      BY <2>1 DEF LogOK, LogBehind, Exists
    <2>4. LogTellsState'
      BY <2>1, LogDef DEF LogOK, LogAccounts
    <2>5. ReportsAnswered'
      BY <2>1 DEF LogOK, LogAccounts, ReportsAnswered
    <2> QED BY <2>2, <2>3, <2>4, <2>5 DEF LogOK, LogAccounts
  <1>2. ASSUME NEW r \in Requests, Request(r)
        PROVE  LogOK'
    <2>1. Moved(r)
      BY <1>2, RequestMoves
    <2>2. CASE LockPost(r) \/ Decide(r) \/ InsertReport(r) \/ \E u \in Users \cup {None}, p \in Post : RemovePost(r, u, p)
      BY <2>2, LockPostLog, DecideLog, InsertReportLog, RemoveLog
    <2>3. CASE /\ Steady /\ UNCHANGED <<decisions, reports>> /\ gone \subseteq gone'
               /\ \A p \in DOMAIN posts' \ DOMAIN posts : p \in gone \/ ~posts'[p].hidden
               /\ todo'[r] # <<"decide">>
      BY <2>1, <2>3, LogStays
    <2> QED BY <1>2, <2>2, <2>3, LogEffects DEF LogOK
  <1> QED BY <1>1, <1>2 DEF Next

-----------------------------------------------------------------------------
(* Ids that requests hold.                                                 *)

\* A folder a user takes for his own, if there is one.
OwnFolder(f, u) == {<<f, u>>} \ {<<None, u>>}

\* What a request with t to do and c for its locals holds.
MarksHeld(t, c) ==
  IF Loaded(t, c) THEN {<<c.mark, c.row.post, c.row.user>>}
  ELSE IF t # <<>> /\ Head(t) = "saveFolder"
  THEN {<<b, c.copies[b].post, c.copies[b].user>> : b \in DOMAIN c.copies}
  ELSE {}

FoldersHeld(t, c) ==
  IF Loaded(t, c)
  THEN OwnFolder(c.row.was, c.user) \cup OwnFolder(c.row.folder, c.user)
         \cup (IF t = <<"moveMark", "saveMark">> THEN OwnFolder(c.folder, c.user) ELSE {})
  ELSE IF t # <<>> /\ Head(t) \in {"insertMark", "saveFolder"} THEN OwnFolder(c.folder, c.user)
  ELSE {}

LEMMA HeldDef ==
  ASSUME NEW r
  PROVE  /\ HeldMarks(r) = MarksHeld(todo[r], call[r]) /\ HeldMarks(r)' = MarksHeld(todo'[r], call'[r])
         /\ HeldFolders(r) = FoldersHeld(todo[r], call[r])
         /\ HeldFolders(r)' = FoldersHeld(todo'[r], call'[r])
  <1>1. HeldMarks(r) = MarksHeld(todo[r], call[r])
    BY DEF HeldMarks, MarksHeld, At
  <1>2. HeldMarks(r)' = MarksHeld(todo'[r], call'[r])
    BY DEF HeldMarks, MarksHeld, At
  <1>3. HeldFolders(r) = FoldersHeld(todo[r], call[r])
    BY DEF HeldFolders, FoldersHeld, At, OwnFolder
  <1>4. HeldFolders(r)' = FoldersHeld(todo'[r], call'[r])
    BY DEF HeldFolders, FoldersHeld, At, OwnFolder
  <1> QED BY <1>1, <1>2, <1>3, <1>4

\* What is known is known before, or found in the tables or with the request that moved.
LEMMA KnownAfter ==
  ASSUME RequestsOK, NEW r \in Requests, Moved(r)
  PROVE  /\ KnownMarks' \subseteq KnownMarks \cup Marks' \cup MarksHeld(todo'[r], call'[r])
         /\ KnownFolders' \subseteq
              KnownFolders \cup {<<f, folders'[f]>> : f \in DOMAIN folders'} \cup FoldersHeld(todo'[r], call'[r])
  <1>1. ASSUME NEW q \in Requests, q # r
        PROVE  HeldMarks(q)' = HeldMarks(q) /\ HeldFolders(q)' = HeldFolders(q)
    <2>1. todo'[q] = todo[q] /\ call'[q] = call[q]
      BY <1>1, Alone
    <2> QED BY <2>1, HeldDef
  <1>2. HeldMarks(r)' = MarksHeld(todo'[r], call'[r]) /\ HeldFolders(r)' = FoldersHeld(todo'[r], call'[r])
    BY HeldDef
  <1>3. KnownMarks' = Marks' \cup UNION {HeldMarks(q)' : q \in Requests}
    BY DEF KnownMarks
  <1>4. KnownFolders' = {<<f, folders'[f]>> : f \in DOMAIN folders'} \cup UNION {HeldFolders(q)' : q \in Requests}
    BY DEF KnownFolders
  <1>5. ASSUME NEW x \in KnownMarks'
        PROVE  x \in KnownMarks \cup Marks' \cup MarksHeld(todo'[r], call'[r])
    <2>1. CASE x \in Marks'
      BY <2>1
    <2>2. CASE \E q \in Requests : x \in HeldMarks(q)'
      BY <1>1, <1>2, <2>2 DEF KnownMarks
    <2> QED BY <1>3, <1>5, <2>1, <2>2
  <1>6. ASSUME NEW x \in KnownFolders'
        PROVE  x \in KnownFolders \cup {<<f, folders'[f]>> : f \in DOMAIN folders'} \cup FoldersHeld(todo'[r], call'[r])
    <2>1. CASE x \in {<<f, folders'[f]>> : f \in DOMAIN folders'}
      BY <2>1
    <2>2. CASE \E q \in Requests : x \in HeldFolders(q)'
      BY <1>1, <1>2, <2>2 DEF KnownFolders
    <2> QED BY <1>4, <1>6, <2>1, <2>2
  <1> QED BY <1>5, <1>6

\* Nothing is known but what was known, and a new id.
LEMMA MarksGrow ==
  ASSUME RequestsOK, MarksAgree, NEW r \in Requests, Moved(r), NEW N,
         Marks' \subseteq KnownMarks \cup N, MarksHeld(todo'[r], call'[r]) \subseteq KnownMarks \cup N,
         \A x, y \in N : x = y,
         \A x \in N : /\ x[1] \notin DOMAIN bookmarks \cup gone
                      /\ x[1] \in DOMAIN bookmarks' \cup gone' /\ x[2] \in DOMAIN posts' \cup gone',
         DOMAIN bookmarks \cup gone \subseteq DOMAIN bookmarks' \cup gone',
         DOMAIN posts \cup gone \subseteq DOMAIN posts' \cup gone'
  PROVE  MarksAgree'
  <1>1. KnownMarks' \subseteq KnownMarks \cup N
    BY KnownAfter
  <1>2. /\ \A x, y \in KnownMarks : x[1] = y[1] => x = y
        /\ \A x \in KnownMarks : x[1] \in DOMAIN bookmarks \cup gone /\ x[2] \in DOMAIN posts \cup gone
    BY DEF MarksAgree
  <1>3. \A x, y \in KnownMarks' : x[1] = y[1] => x = y
    BY <1>1, <1>2
  <1>4. \A x \in KnownMarks' : x[1] \in DOMAIN bookmarks' \cup gone' /\ x[2] \in DOMAIN posts' \cup gone'
    BY <1>1, <1>2
  <1> QED BY <1>3, <1>4 DEF MarksAgree

LEMMA FoldersGrow ==
  ASSUME RequestsOK, FoldersAgree, NEW r \in Requests, Moved(r), NEW N,
         \A f \in DOMAIN folders' : <<f, folders'[f]>> \in KnownFolders \cup N,
         FoldersHeld(todo'[r], call'[r]) \subseteq KnownFolders \cup N,
         \A x, y \in N : x = y,
         \A x \in N : x[1] \notin DOMAIN folders \cup gone /\ x[1] \in DOMAIN folders' \cup gone',
         DOMAIN folders \cup gone \subseteq DOMAIN folders' \cup gone'
  PROVE  FoldersAgree'
  <1>1. KnownFolders' \subseteq KnownFolders \cup N
    BY KnownAfter
  <1>2. /\ \A x, y \in KnownFolders : x[1] = y[1] => x = y
        /\ \A x \in KnownFolders : x[1] \in DOMAIN folders \cup gone
    BY DEF FoldersAgree
  <1>3. \A x, y \in KnownFolders' : x[1] = y[1] => x = y
    BY <1>1, <1>2
  <1>4. \A x \in KnownFolders' : x[1] \in DOMAIN folders' \cup gone'
    BY <1>1, <1>2
  <1> QED BY <1>3, <1>4 DEF FoldersAgree

\* A user has one bookmark of a post, in a folder of his own.
Single(t) == \A a, b \in DOMAIN t : t[a].post = t[b].post /\ t[a].user = t[b].user => a = b

Owned(t, owner) ==
  \A b \in DOMAIN t : t[b].folder # None => t[b].folder \in DOMAIN owner /\ owner[t[b].folder] = t[b].user

LEMMA OrderDef ==
  /\ BookmarksInOrder <=> Single(bookmarks) /\ Owned(bookmarks, folders)
  /\ BookmarksInOrder' <=> Single(bookmarks') /\ Owned(bookmarks', folders')
  <1>1. BookmarksInOrder <=> Single(bookmarks) /\ Owned(bookmarks, folders)
    <2>1. \A b \in DOMAIN bookmarks : b \in MarksOf(bookmarks[b].post, {bookmarks[b].user})
      BY DEF MarksOf
    <2> QED BY <2>1 DEF BookmarksInOrder, MarksOf, Single, Owned
  <1>2. BookmarksInOrder' <=> Single(bookmarks') /\ Owned(bookmarks', folders')
    <2>1. \A b \in DOMAIN bookmarks' : b \in MarksOf(bookmarks[b].post, {bookmarks[b].user})'
      BY DEF MarksOf
    <2> QED BY <2>1 DEF BookmarksInOrder, MarksOf, Single, Owned
  <1> QED BY <1>1, <1>2

LEMMA Known ==
  ASSUME NEW r \in Requests
  PROVE  /\ \A b \in DOMAIN bookmarks : <<b, bookmarks[b].post, bookmarks[b].user>> \in KnownMarks
         /\ \A f \in DOMAIN folders : <<f, folders[f]>> \in KnownFolders
         /\ MarksHeld(todo[r], call[r]) \subseteq KnownMarks
         /\ FoldersHeld(todo[r], call[r]) \subseteq KnownFolders
  BY HeldDef DEF KnownMarks, Marks, KnownFolders

\* Who is elsewhere holds no ids.
Elsewhere(t) ==
  /\ t \notin {<<"findFolder", "moveMark", "saveMark">>, <<"moveMark", "saveMark">>, <<"saveMark">>, <<"putMark">>}
  /\ t = <<>> \/ Head(t) \notin {"insertMark", "saveFolder"}

LEMMA HoldsNothing ==
  ASSUME NEW t, NEW c, Elsewhere(t)
  PROVE  MarksHeld(t, c) = {} /\ FoldersHeld(t, c) = {}
  <1>1. ~Loaded(t, c)
    BY DEF Elsewhere, Loaded
  <1> QED BY <1>1 DEF Elsewhere, MarksHeld, FoldersHeld

\* The table has lost bookmarks, or moved them to other folders.
Kept ==
  \A b \in DOMAIN bookmarks' :
    b \in DOMAIN bookmarks /\ bookmarks'[b].post = bookmarks[b].post /\ bookmarks'[b].user = bookmarks[b].user

LEMMA KeptMarks ==
  ASSUME Kept
  PROVE  Marks' \subseteq KnownMarks /\ (Single(bookmarks) => Single(bookmarks'))
  <1>1. Marks' = {<<b, bookmarks'[b].post, bookmarks'[b].user>> : b \in DOMAIN bookmarks'}
    BY DEF Marks
  <1>2. Marks' \subseteq Marks
    BY <1>1 DEF Marks, Kept
  <1> QED BY <1>2 DEF KnownMarks, Kept, Single

\* No row goes but to where it is remembered.
Remembered ==
  /\ DOMAIN bookmarks \cup gone \subseteq DOMAIN bookmarks' \cup gone'
  /\ DOMAIN folders \cup gone \subseteq DOMAIN folders' \cup gone'
  /\ DOMAIN posts \cup gone \subseteq DOMAIN posts' \cup gone'

LEMMA CopiesStay ==
  ASSUME RequestsOK, CopiesAgree, NEW r \in Requests, Moved(r),
         todo'[r] # <<>> /\ Head(todo'[r]) = "saveFolder" => CopiesOK(call'[r])
  PROVE  CopiesAgree'
  <1>1. ASSUME NEW q \in Requests, At(q, "saveFolder")'
        PROVE  CopiesOK(call'[q])
    <2>1. CASE q = r
      BY <1>1, <2>1 DEF At
    <2>2. CASE q # r
      <3>1. At(q, "saveFolder") /\ call'[q] = call[q]
        BY <1>1, <2>2, Alone DEF At
      <3> QED BY <3>1 DEF CopiesAgree
    <2> QED BY <2>1, <2>2
  <1>2. \A q \in Requests : CopiesOK(call[q])' <=> CopiesOK(call'[q])
    BY DEF CopiesOK
  <1> QED BY <1>1, <1>2 DEF CopiesAgree

\* Nothing new is known.
LEMMA BooksKept ==
  ASSUME RequestsOK, BookmarksOK, NEW r \in Requests, Moved(r), Remembered,
         Marks' \subseteq KnownMarks, MarksHeld(todo'[r], call'[r]) \subseteq KnownMarks,
         \A f \in DOMAIN folders' : <<f, folders'[f]>> \in KnownFolders,
         FoldersHeld(todo'[r], call'[r]) \subseteq KnownFolders,
         Single(bookmarks'), Owned(bookmarks', folders'),
         todo'[r] # <<>> /\ Head(todo'[r]) = "saveFolder" => CopiesOK(call'[r])
  PROVE  BookmarksOK'
  <1>1. PICK N : N = {}
    OBVIOUS
  <1>2. MarksAgree'
    <2>1. /\ Marks' \subseteq KnownMarks \cup N /\ MarksHeld(todo'[r], call'[r]) \subseteq KnownMarks \cup N
          /\ \A x, y \in N : x = y
          /\ \A x \in N : /\ x[1] \notin DOMAIN bookmarks \cup gone
                          /\ x[1] \in DOMAIN bookmarks' \cup gone' /\ x[2] \in DOMAIN posts' \cup gone'
      BY <1>1
    <2> QED BY <2>1, MarksGrow DEF BookmarksOK, Remembered
  <1>3. FoldersAgree'
    <2>1. /\ \A f \in DOMAIN folders' : <<f, folders'[f]>> \in KnownFolders \cup N
          /\ FoldersHeld(todo'[r], call'[r]) \subseteq KnownFolders \cup N
          /\ \A x, y \in N : x = y
          /\ \A x \in N : x[1] \notin DOMAIN folders \cup gone /\ x[1] \in DOMAIN folders' \cup gone'
      BY <1>1
    <2> QED BY <2>1, FoldersGrow DEF BookmarksOK, Remembered
  <1>4. CopiesAgree'
    BY CopiesStay DEF BookmarksOK
  <1>5. BookmarksInOrder'
    BY OrderDef
  <1> QED BY <1>2, <1>3, <1>4, <1>5 DEF BookmarksOK

\* The request does not concern itself with bookmarks.
LEMMA BooksAside ==
  ASSUME RequestsOK, BookmarksOK, NEW r \in Requests, Moved(r), Elsewhere(todo'[r]), UNCHANGED bookmarkVars,
         DOMAIN posts \cup gone \subseteq DOMAIN posts' \cup gone', gone \subseteq gone'
  PROVE  BookmarksOK'
  <1>1. Remembered
    BY DEF bookmarkVars, Remembered
  <1>2. MarksHeld(todo'[r], call'[r]) = {} /\ FoldersHeld(todo'[r], call'[r]) = {}
    BY HoldsNothing
  <1>3. Kept
    BY DEF Kept, bookmarkVars
  <1>4. Single(bookmarks) /\ Owned(bookmarks, folders)
    BY OrderDef DEF BookmarksOK
  <1>5. Marks' \subseteq KnownMarks /\ Single(bookmarks')
    BY <1>3, <1>4, KeptMarks
  <1>6. Owned(bookmarks', folders') /\ \A f \in DOMAIN folders' : <<f, folders'[f]>> \in KnownFolders
    BY <1>4, Known DEF bookmarkVars
  <1>7. ~(todo'[r] # <<>> /\ Head(todo'[r]) = "saveFolder")
    BY DEF Elsewhere
  <1> QED BY <1>1, <1>2, <1>5, <1>6, <1>7, BooksKept

\* A post is deleted with its bookmarks.
LEMMA RemoveBooks ==
  ASSUME RequestsOK, RowsOK, BookmarksOK, NEW r \in Requests, NEW u, NEW p \in Post, RemovePost(r, u, p)
  PROVE  BookmarksOK'
  <1>1. /\ bookmarks' = Without(bookmarks, MarksOf(p, Users)) /\ UNCHANGED folders
        /\ posts' = Without(posts, {p}) /\ todo[r] = <<>> /\ UNCHANGED <<todo, call>>
        /\ gone' = gone \cup {p} \cup (CommentsOf(p) \cup MarksOf(p, Users))
    BY DEF RemovePost, CascadeBookmarks, DeletePost, AtOnce, requestVars
  <1>2. /\ DOMAIN bookmarks' = DOMAIN bookmarks \ MarksOf(p, Users)
        /\ \A b \in DOMAIN bookmarks' : bookmarks'[b] = bookmarks[b]
        /\ DOMAIN posts' = DOMAIN posts \ {p}
    BY <1>1 DEF Without
  <1>3. Moved(r) /\ todo'[r] = <<>>
    BY <1>1, MoveNot
  <1>4. MarksHeld(todo'[r], call'[r]) = {} /\ FoldersHeld(todo'[r], call'[r]) = {}
    BY <1>3, HoldsNothing DEF Elsewhere
  <1>5. Remembered
    BY <1>1, <1>2 DEF Remembered
  <1>6. Kept
    BY <1>2 DEF Kept
  <1>7. Single(bookmarks) /\ Owned(bookmarks, folders)
    BY OrderDef DEF BookmarksOK
  <1>8. Marks' \subseteq KnownMarks /\ Single(bookmarks')
    BY <1>6, <1>7, KeptMarks
  <1>9. Owned(bookmarks', folders')
    BY <1>1, <1>2, <1>7 DEF Owned
  <1>10. \A f \in DOMAIN folders' : <<f, folders'[f]>> \in KnownFolders
    BY <1>1, Known
  <1> QED BY <1>3, <1>4, <1>5, <1>8, <1>9, <1>10, BooksKept

LEMMA DeleteMarkBooks ==
  ASSUME RequestsOK, RowsOK, BookmarksOK, NEW r \in Requests, DeleteMark(r)
  PROVE  BookmarksOK'
  <1> DEFINE b == call[r].mark
  <1>1. \/ UNCHANGED <<bookmarks, gone>>
        \/ /\ bookmarks' = Without(bookmarks, {b}) /\ gone' = gone \cup {b}
    BY DEF DeleteMark
  <1>2. /\ DOMAIN bookmarks' \subseteq DOMAIN bookmarks
        /\ \A a \in DOMAIN bookmarks' : bookmarks'[a] = bookmarks[a]
        /\ DOMAIN bookmarks \cup gone \subseteq DOMAIN bookmarks' \cup gone' /\ gone \subseteq gone'
    BY <1>1 DEF Without
  <1>3. Moved(r) /\ todo'[r] = <<>> /\ UNCHANGED folders
    BY MoveOut DEF DeleteMark
  <1>4. MarksHeld(todo'[r], call'[r]) = {} /\ FoldersHeld(todo'[r], call'[r]) = {}
    BY <1>3, HoldsNothing DEF Elsewhere
  <1>5. Remembered
    <2>1. DOMAIN posts \subseteq DOMAIN posts'
      BY BookmarksSteady DEF BookmarksOK, BookmarksStep, Steady
    <2> QED BY <1>2, <1>3, <2>1 DEF Remembered
  <1>6. Kept
    BY <1>2 DEF Kept
  <1>7. Single(bookmarks) /\ Owned(bookmarks, folders)
    BY OrderDef DEF BookmarksOK
  <1>8. Marks' \subseteq KnownMarks /\ Single(bookmarks')
    BY <1>6, <1>7, KeptMarks
  <1>9. Owned(bookmarks', folders')
    BY <1>2, <1>3, <1>7 DEF Owned
  <1>10. \A f \in DOMAIN folders' : <<f, folders'[f]>> \in KnownFolders
    BY <1>3, Known
  <1> QED BY <1>3, <1>4, <1>5, <1>8, <1>9, <1>10, BooksKept

LEMMA DeleteFolderBooks ==
  ASSUME RequestsOK, RowsOK, BookmarksOK, NEW r \in Requests, NEW u, NEW f \in Folder, DeleteFolder(r, u, f)
  PROVE  BookmarksOK'
  <1>1. /\ todo[r] = <<>> /\ UNCHANGED <<todo, call, posts>>
        /\ folders' = Without(folders, {f}) /\ gone' = gone \cup {f}
        /\ bookmarks' = [b \in DOMAIN bookmarks |->
                           IF bookmarks[b].folder = f THEN [bookmarks[b] EXCEPT !.folder = None] ELSE bookmarks[b]]
    BY DEF DeleteFolder, AtOnce, requestVars
  <1>2. /\ DOMAIN folders' = DOMAIN folders \ {f} /\ \A g \in DOMAIN folders' : folders'[g] = folders[g]
    BY <1>1 DEF Without
  <1>3. DOMAIN bookmarks' = DOMAIN bookmarks
    BY <1>1
  <1>4. ASSUME NEW b \in DOMAIN bookmarks
        PROVE  /\ bookmarks'[b].post = bookmarks[b].post /\ bookmarks'[b].user = bookmarks[b].user
               /\ bookmarks'[b].folder \in {None, bookmarks[b].folder} /\ bookmarks'[b].folder # f
    <2>1. bookmarks[b] \in BookmarkRow
      BY DEF RowsOK, MarksFit, BookmarksTypeOK
    <2>2. /\ [bookmarks[b] EXCEPT !.folder = None].post = bookmarks[b].post
          /\ [bookmarks[b] EXCEPT !.folder = None].user = bookmarks[b].user
          /\ [bookmarks[b] EXCEPT !.folder = None].folder = None
      BY <2>1 DEF BookmarkRow
    <2>3. bookmarks'[b] = IF bookmarks[b].folder = f THEN [bookmarks[b] EXCEPT !.folder = None] ELSE bookmarks[b]
      BY <1>1
    <2>4. f # None
      BY BookmarksAssumption
    <2> QED BY <2>2, <2>3, <2>4
  <1>5. Moved(r) /\ todo'[r] = <<>>
    BY <1>1, MoveNot
  <1>6. MarksHeld(todo'[r], call'[r]) = {} /\ FoldersHeld(todo'[r], call'[r]) = {}
    BY <1>5, HoldsNothing DEF Elsewhere
  <1>7. Remembered
    BY <1>1, <1>2, <1>3 DEF Remembered
  <1>8. Kept
    BY <1>3, <1>4 DEF Kept
  <1>9. Single(bookmarks) /\ Owned(bookmarks, folders)
    BY OrderDef DEF BookmarksOK
  <1>10. Marks' \subseteq KnownMarks /\ Single(bookmarks')
    BY <1>8, <1>9, KeptMarks
  <1>11. Owned(bookmarks', folders')
    BY <1>2, <1>3, <1>4, <1>9 DEF Owned
  <1>12. \A g \in DOMAIN folders' : <<g, folders'[g]>> \in KnownFolders
    BY <1>2, Known
  <1> QED BY <1>5, <1>6, <1>7, <1>10, <1>11, <1>12, BooksKept

\* A folder gets a new id.
LEMMA CreateFolderBooks ==
  ASSUME RequestsOK, RowsOK, BookmarksOK, NEW r \in Requests, NEW u, CreateFolder(r, u)
  PROVE  BookmarksOK'
  <1>1. PICK f \in Fresh(Folder, folders) : folders' = With(folders, f, u)
    BY DEF CreateFolder
  <1>2. UNCHANGED <<posts, decisions, gone, bookmarks, todo, call>> /\ todo[r] = <<>>
    BY DEF CreateFolder, postVars, AtOnce, requestVars
  <1>3. /\ DOMAIN folders' = DOMAIN folders \cup {f} /\ folders'[f] = u /\ f \notin DOMAIN folders \cup gone
        /\ \A g \in DOMAIN folders : folders'[g] = folders[g]
    BY <1>1 DEF Fresh, With
  <1>4. Moved(r) /\ todo'[r] = <<>>
    BY <1>2, MoveNot
  <1>5. MarksHeld(todo'[r], call'[r]) = {} /\ FoldersHeld(todo'[r], call'[r]) = {}
    BY <1>4, HoldsNothing DEF Elsewhere
  <1>6. MarksAgree'
    <2>1. PICK N : N = {}
      OBVIOUS
    <2>2. Marks' = Marks
      BY <1>2 DEF Marks
    <2>3. /\ Marks' \subseteq KnownMarks \cup N /\ MarksHeld(todo'[r], call'[r]) \subseteq KnownMarks \cup N
          /\ \A x, y \in N : x = y
          /\ \A x \in N : /\ x[1] \notin DOMAIN bookmarks \cup gone
                          /\ x[1] \in DOMAIN bookmarks' \cup gone' /\ x[2] \in DOMAIN posts' \cup gone'
      BY <1>5, <2>1, <2>2 DEF KnownMarks
    <2> QED BY <1>2, <1>4, <2>3, MarksGrow DEF BookmarksOK
  <1>7. FoldersAgree'
    <2>1. PICK N : N = {<<f, u>>}
      OBVIOUS
    <2>2. /\ \A g \in DOMAIN folders' : <<g, folders'[g]>> \in KnownFolders \cup N
          /\ FoldersHeld(todo'[r], call'[r]) \subseteq KnownFolders \cup N
          /\ \A x, y \in N : x = y
          /\ \A x \in N : x[1] \notin DOMAIN folders \cup gone /\ x[1] \in DOMAIN folders' \cup gone'
      BY <1>3, <1>5, <2>1, Known
    <2> QED BY <1>2, <1>3, <1>4, <2>2, FoldersGrow DEF BookmarksOK
  <1>8. CopiesAgree'
    BY <1>4, CopiesStay DEF BookmarksOK
  <1>9. Single(bookmarks) /\ Owned(bookmarks, folders)
    BY OrderDef DEF BookmarksOK
  <1>10. Owned(bookmarks', folders') /\ Single(bookmarks')
    BY <1>2, <1>3, <1>9 DEF Owned
  <1> QED BY <1>6, <1>7, <1>8, <1>10, OrderDef DEF BookmarksOK

\* A bookmark gets a new id.
LEMMA InsertMarkBooks ==
  ASSUME RequestsOK, RowsOK, BookmarksOK, NEW r \in Requests, InsertMark(r)
  PROVE  BookmarksOK'
  <1> DEFINE row == [post |-> call[r].post, user |-> call[r].user, folder |-> call[r].folder]
  <1>1. Moved(r) /\ todo'[r] = <<>> /\ UNCHANGED <<decisions, gone, folders>>
    BY MoveOut DEF InsertMark
  <1>2. DOMAIN posts \subseteq DOMAIN posts'
    BY BookmarksSteady DEF BookmarksOK, BookmarksStep, Steady
  <1>3. CASE UNCHANGED bookmarks
    BY <1>1, <1>2, <1>3, BooksAside DEF Elsewhere, bookmarkVars
  <1>4. CASE /\ Exists(row.post) /\ MarksOf(row.post, {row.user}) = {} /\ row.folder \in {None} \cup DOMAIN folders
             /\ \E b \in Fresh(Bookmark, bookmarks) : bookmarks' = With(bookmarks, b, row)
    <2>1. PICK b \in Fresh(Bookmark, bookmarks) : bookmarks' = With(bookmarks, b, row)
      BY <1>4
    <2>2. /\ DOMAIN bookmarks' = DOMAIN bookmarks \cup {b} /\ bookmarks'[b] = row
          /\ b \notin DOMAIN bookmarks \cup gone
          /\ \A a \in DOMAIN bookmarks : bookmarks'[a] = bookmarks[a]
      BY <2>1 DEF Fresh, With
    <2>3. row.post = call[r].post /\ row.user = call[r].user /\ row.folder = call[r].folder
      OBVIOUS
    <2> HIDE DEF row
    <2>4. MarksHeld(todo'[r], call'[r]) = {} /\ FoldersHeld(todo'[r], call'[r]) = {}
      BY <1>1, HoldsNothing DEF Elsewhere
    <2>5. MarksAgree'
      <3>1. PICK N : N = {<<b, row.post, row.user>>}
        OBVIOUS
      <3>2. Marks' \subseteq KnownMarks \cup N
        <4>1. Marks' = {<<a, bookmarks'[a].post, bookmarks'[a].user>> : a \in DOMAIN bookmarks'}
          BY DEF Marks
        <4> QED BY <2>2, <3>1, <4>1, Known
      <3>3. /\ MarksHeld(todo'[r], call'[r]) \subseteq KnownMarks \cup N
            /\ \A x, y \in N : x = y
            /\ \A x \in N : /\ x[1] \notin DOMAIN bookmarks \cup gone
                            /\ x[1] \in DOMAIN bookmarks' \cup gone' /\ x[2] \in DOMAIN posts' \cup gone'
        BY <1>2, <1>4, <2>2, <2>4, <3>1 DEF Exists
      <3> QED BY <1>1, <1>2, <2>2, <3>2, <3>3, MarksGrow DEF BookmarksOK
    <2>6. FoldersAgree'
      <3>1. PICK N : N = {}
        OBVIOUS
      <3>2. /\ \A g \in DOMAIN folders' : <<g, folders'[g]>> \in KnownFolders \cup N
            /\ FoldersHeld(todo'[r], call'[r]) \subseteq KnownFolders \cup N
            /\ \A x, y \in N : x = y
            /\ \A x \in N : x[1] \notin DOMAIN folders \cup gone /\ x[1] \in DOMAIN folders' \cup gone'
        BY <1>1, <2>4, <3>1, Known
      <3> QED BY <1>1, <3>2, FoldersGrow DEF BookmarksOK
    <2>7. CopiesAgree'
      BY <1>1, CopiesStay DEF BookmarksOK
    <2>8. Single(bookmarks) /\ Owned(bookmarks, folders)
      BY OrderDef DEF BookmarksOK
    <2>9. Single(bookmarks')
      <3>1. \A a \in DOMAIN bookmarks : ~(bookmarks[a].post = row.post /\ bookmarks[a].user = row.user)
        BY <1>4 DEF MarksOf
      <3> QED BY <2>2, <2>8, <3>1 DEF Single
    <2>10. row.folder # None => row.folder \in DOMAIN folders /\ folders[row.folder] = row.user
      <3>1. ASSUME row.folder # None
            PROVE  folders[row.folder] = row.user
        <4>1. todo[r] = <<"insertMark">>
          BY AtBookmarks DEF InsertMark
        <4>2. FoldersHeld(todo[r], call[r]) = OwnFolder(row.folder, row.user)
          BY <2>3, <4>1 DEF FoldersHeld, Loaded
        <4>3. <<row.folder, row.user>> \in KnownFolders
          BY <3>1, <4>2, Known DEF OwnFolder
        <4>4. row.folder \in DOMAIN folders /\ <<row.folder, folders[row.folder]>> \in KnownFolders
          BY <1>4, <3>1, Known
        <4> QED BY <4>3, <4>4 DEF BookmarksOK, FoldersAgree
      <3> QED BY <1>4, <3>1
    <2>11. Owned(bookmarks', folders')
      BY <1>1, <2>2, <2>8, <2>10 DEF Owned
    <2> QED BY <2>5, <2>6, <2>7, <2>9, <2>11, OrderDef DEF BookmarksOK
  <1> QED BY <1>3, <1>4 DEF InsertMark

\* What Save writes is what the request read: the same bookmark in a folder of the same owner.
LEMMA SavedBooks ==
  ASSUME RowsOK, BookmarksOK, NEW r \in Requests, Loaded(todo[r], call[r])
  PROVE  /\ \A f \in DOMAIN FoldersSaved(r) : <<f, FoldersSaved(r)[f]>> \in KnownFolders
         /\ DOMAIN folders \subseteq DOMAIN FoldersSaved(r)
         /\ \A f \in DOMAIN folders : FoldersSaved(r)[f] = folders[f]
         /\ FolderHolds(r) /\ RowSaved(r).folder # None =>
              RowSaved(r).folder \in DOMAIN FoldersSaved(r) /\ FoldersSaved(r)[RowSaved(r).folder] = RowSaved(r).user
         /\ <<call[r].mark, RowSaved(r).post, RowSaved(r).user>> \in KnownMarks
         /\ call[r].mark \in DOMAIN bookmarks =>
              /\ bookmarks[call[r].mark].post = RowSaved(r).post
              /\ bookmarks[call[r].mark].user = RowSaved(r).user
  <1> DEFINE row == call[r].row
  <1>1. row \in MarkRow /\ row.user = call[r].user
    BY DEF Loaded
  <1>2. RowSaved(r).post = row.post /\ RowSaved(r).user = row.user
        /\ RowSaved(r).folder = IF row.was = None THEN row.folder ELSE row.was
    BY DEF RowSaved
  <1>3. OwnFolder(row.was, call[r].user) \subseteq KnownFolders /\ OwnFolder(row.folder, call[r].user) \subseteq KnownFolders
    <2>1. OwnFolder(row.was, call[r].user) \cup OwnFolder(row.folder, call[r].user) \subseteq FoldersHeld(todo[r], call[r])
      BY DEF FoldersHeld
    <2> QED BY <2>1, Known
  <1>4. <<call[r].mark, row.post, row.user>> \in KnownMarks
    <2>1. MarksHeld(todo[r], call[r]) = {<<call[r].mark, row.post, row.user>>}
      BY DEF MarksHeld
    <2> QED BY <2>1, Known
  <1> HIDE DEF row
  <1>5. /\ row.was # None => <<row.was, row.user>> \in KnownFolders
        /\ row.folder # None => <<row.folder, row.user>> \in KnownFolders
    BY <1>1, <1>3 DEF OwnFolder
  <1>6. \A f, u : f \in DOMAIN folders /\ <<f, u>> \in KnownFolders => folders[f] = u
    <2>1. ASSUME NEW f \in DOMAIN folders, NEW u, <<f, u>> \in KnownFolders
          PROVE  folders[f] = u
      <3>1. <<f, folders[f]>> \in KnownFolders
        BY Known
      <3>2. <<f, folders[f]>>[1] = <<f, u>>[1] => <<f, folders[f]>> = <<f, u>>
        BY <2>1, <3>1 DEF BookmarksOK, FoldersAgree
      <3> QED BY <3>2
    <2> QED BY <2>1
  <1>7. FoldersSaved(r) = IF row.was \in {None} \cup DOMAIN folders THEN folders
                          ELSE [k \in DOMAIN folders \cup {row.was} |-> IF k = row.was THEN row.user ELSE folders[k]]
    BY <1>1 DEF FoldersSaved, With, row
  <1>8. \A f \in DOMAIN FoldersSaved(r) : <<f, FoldersSaved(r)[f]>> \in KnownFolders
    BY <1>5, <1>7, Known
  <1>9. /\ DOMAIN folders \subseteq DOMAIN FoldersSaved(r)
        /\ \A f \in DOMAIN folders : FoldersSaved(r)[f] = folders[f]
    BY <1>7
  <1>10. ASSUME FolderHolds(r), RowSaved(r).folder # None
         PROVE  RowSaved(r).folder \in DOMAIN FoldersSaved(r)
                /\ FoldersSaved(r)[RowSaved(r).folder] = RowSaved(r).user
    <2>1. RowSaved(r).folder \in DOMAIN FoldersSaved(r)
      BY <1>10 DEF FolderHolds
    <2>2. <<RowSaved(r).folder, row.user>> \in KnownFolders
      BY <1>2, <1>5, <1>10
    <2>3. CASE RowSaved(r).folder \in DOMAIN folders
      BY <1>2, <1>6, <1>9, <2>1, <2>2, <2>3
    <2>4. CASE RowSaved(r).folder \notin DOMAIN folders
      BY <1>2, <1>7, <2>1, <2>4
    <2> QED BY <2>1, <2>3, <2>4
  <1>11. ASSUME call[r].mark \in DOMAIN bookmarks
         PROVE  bookmarks[call[r].mark].post = row.post /\ bookmarks[call[r].mark].user = row.user
    <2> DEFINE x == <<call[r].mark, bookmarks[call[r].mark].post, bookmarks[call[r].mark].user>>
               y == <<call[r].mark, row.post, row.user>>
    <2>1. x \in KnownMarks /\ y \in KnownMarks /\ x[1] = y[1]
      BY <1>4, <1>11, Known
    <2> HIDE DEF x, y
    <2>2. x = y
      BY <2>1 DEF BookmarksOK, MarksAgree
    <2> QED BY <2>2 DEF x, y
  <1> QED BY <1>2, <1>4, <1>8, <1>9, <1>10, <1>11

LEMMA SaveMarkBooks ==
  ASSUME RequestsOK, RowsOK, BookmarksOK, NEW r \in Requests, SaveMark(r)
  PROVE  BookmarksOK'
  <1> DEFINE b == call[r].mark
             saved == RowSaved(r)
  <1>1. todo[r] = <<"saveMark">> /\ Loaded(todo[r], call[r]) /\ UNCHANGED gone
    BY AtBookmarks DEF SaveMark
  <1>2. /\ DOMAIN folders \subseteq DOMAIN FoldersSaved(r)
        /\ \A f \in DOMAIN folders : FoldersSaved(r)[f] = folders[f]
        /\ \A f \in DOMAIN FoldersSaved(r) : <<f, FoldersSaved(r)[f]>> \in KnownFolders
        /\ FolderHolds(r) /\ saved.folder # None =>
             saved.folder \in DOMAIN FoldersSaved(r) /\ FoldersSaved(r)[saved.folder] = saved.user
        /\ b \in DOMAIN bookmarks => bookmarks[b].post = saved.post /\ bookmarks[b].user = saved.user
    BY <1>1, SavedBooks
  <1>3. Moved(r) /\ (todo'[r] = <<>> \/ (todo'[r] = <<"putMark">> /\ call'[r] = call[r]))
    <2>1. CASE Quit(r)
      BY <2>1, MoveOut
    <2>2. CASE Go(r, <<"putMark">>, call[r])
      <3>1. Shape(<<"putMark">>, call[r]) /\ <<"putMark">> # <<>>
        BY <1>1 DEF Shape, Changes, Loaded
      <3> QED BY <2>2, <3>1, MoveOn
    <2> QED BY <2>1, <2>2 DEF SaveMark
  <1>4. MarksHeld(todo'[r], call'[r]) \subseteq KnownMarks /\ FoldersHeld(todo'[r], call'[r]) \subseteq KnownFolders
    <2>1. CASE todo'[r] = <<>>
      BY <2>1, HoldsNothing DEF Elsewhere
    <2>2. CASE todo'[r] = <<"putMark">> /\ call'[r] = call[r]
      <3>1. Loaded(<<"putMark">>, call[r])
        BY <1>1 DEF Loaded
      <3>2. MarksHeld(todo'[r], call'[r]) = MarksHeld(todo[r], call[r])
        BY <1>1, <2>2, <3>1 DEF MarksHeld
      <3>3. FoldersHeld(todo'[r], call'[r]) = FoldersHeld(todo[r], call[r])
        BY <1>1, <2>2, <3>1 DEF FoldersHeld
      <3> QED BY <3>2, <3>3, Known
    <2> QED BY <1>3, <2>1, <2>2
  <1>5. /\ \/ UNCHANGED folders
           \/ folders' = FoldersSaved(r) /\ (b \in DOMAIN bookmarks => FolderHolds(r))
        /\ \/ UNCHANGED bookmarks
           \/ /\ b \in DOMAIN bookmarks /\ FolderHolds(r) /\ folders' = FoldersSaved(r)
              /\ bookmarks' = [bookmarks EXCEPT ![b] = saved]
    BY DEF SaveMark
  <1> HIDE DEF saved, b
  <1>6. /\ DOMAIN folders \subseteq DOMAIN folders' /\ \A f \in DOMAIN folders : folders'[f] = folders[f]
        /\ \A f \in DOMAIN folders' : <<f, folders'[f]>> \in KnownFolders
    <2>1. CASE UNCHANGED folders
      BY <2>1, Known
    <2> QED BY <1>2, <1>5, <2>1
  <1>7. Single(bookmarks) /\ Owned(bookmarks, folders)
    BY OrderDef DEF BookmarksOK
  <1>8. /\ DOMAIN bookmarks' = DOMAIN bookmarks
        /\ \A a \in DOMAIN bookmarks : a # b => bookmarks'[a] = bookmarks[a]
        /\ bookmarks' # bookmarks => b \in DOMAIN bookmarks /\ bookmarks'[b] = saved
    BY <1>5 DEF RowsOK, MarksFit, BookmarksTypeOK
  <1>9. Kept
    BY <1>2, <1>8 DEF Kept
  <1>10. Marks' \subseteq KnownMarks /\ Single(bookmarks')
    BY <1>7, <1>9, KeptMarks
  <1>11. Owned(bookmarks', folders')
    <2>1. CASE UNCHANGED bookmarks
      BY <1>6, <1>7, <2>1 DEF Owned
    <2>2. CASE bookmarks' # bookmarks
      BY <1>2, <1>5, <1>6, <1>7, <1>8, <2>2 DEF Owned
    <2> QED BY <2>1, <2>2
  <1>12. Remembered
    <2>1. DOMAIN posts \subseteq DOMAIN posts'
      BY BookmarksSteady DEF BookmarksOK, BookmarksStep, Steady
    <2> QED BY <1>1, <1>6, <1>8, <2>1 DEF Remembered
  <1>13. ~(todo'[r] # <<>> /\ Head(todo'[r]) = "saveFolder")
    BY <1>3
  <1> QED BY <1>3, <1>4, <1>6, <1>10, <1>11, <1>12, <1>13, BooksKept

LEMMA PutMarkBooks ==
  ASSUME RequestsOK, RowsOK, BookmarksOK, NEW r \in Requests, PutMark(r)
  PROVE  BookmarksOK'
  <1> DEFINE b == call[r].mark
             saved == RowSaved(r)
  <1>1. Loaded(todo[r], call[r]) /\ UNCHANGED gone /\ Moved(r) /\ todo'[r] = <<>>
    BY AtBookmarks, MoveOut DEF PutMark
  <1>2. DOMAIN posts \subseteq DOMAIN posts'
    BY BookmarksSteady DEF BookmarksOK, BookmarksStep, Steady
  <1>3. CASE UNCHANGED bookmarkVars
    BY <1>1, <1>2, <1>3, BooksAside DEF Elsewhere
  <1>4. CASE /\ FolderHolds(r) /\ MarksOf(saved.post, {saved.user}) \subseteq {b}
             /\ folders' = FoldersSaved(r) /\ bookmarks' = With(bookmarks, b, saved)
    <2>1. /\ DOMAIN folders \subseteq DOMAIN folders'
          /\ \A f \in DOMAIN folders : folders'[f] = folders[f]
          /\ \A f \in DOMAIN folders' : <<f, folders'[f]>> \in KnownFolders
          /\ saved.folder # None => saved.folder \in DOMAIN folders' /\ folders'[saved.folder] = saved.user
          /\ <<b, saved.post, saved.user>> \in KnownMarks
      BY <1>1, <1>4, SavedBooks
    <2>2. /\ DOMAIN bookmarks' = DOMAIN bookmarks \cup {b} /\ bookmarks'[b] = saved
          /\ \A a \in DOMAIN bookmarks : a # b => bookmarks'[a] = bookmarks[a]
      BY <1>4 DEF With
    <2>3. \A a \in DOMAIN bookmarks : bookmarks[a].post = saved.post /\ bookmarks[a].user = saved.user => a = b
      BY <1>4 DEF MarksOf
    <2> HIDE DEF saved, b
    <2>4. MarksHeld(todo'[r], call'[r]) = {} /\ FoldersHeld(todo'[r], call'[r]) = {}
      BY <1>1, HoldsNothing DEF Elsewhere
    <2>5. Marks' \subseteq KnownMarks
      <3>1. Marks' = {<<a, bookmarks'[a].post, bookmarks'[a].user>> : a \in DOMAIN bookmarks'}
        BY DEF Marks
      <3> QED BY <2>1, <2>2, <3>1, Known
    <2>6. Single(bookmarks) /\ Owned(bookmarks, folders)
      BY OrderDef DEF BookmarksOK
    <2>7. Single(bookmarks')
      BY <2>2, <2>3, <2>6 DEF Single
    <2>8. Owned(bookmarks', folders')
      BY <2>1, <2>2, <2>6 DEF Owned
    <2>9. Remembered
      BY <1>1, <1>2, <2>1, <2>2 DEF Remembered
    <2> QED BY <1>1, <2>1, <2>4, <2>5, <2>7, <2>8, <2>9, BooksKept
  <1> QED BY <1>3, <1>4 DEF PutMark

\* What Save of a folder makes of the bookmarks.
FolderSaved(r) ==
  [b \in DOMAIN bookmarks \cup DOMAIN call[r].copies |->
     IF b \in Lost(r) THEN call[r].copies[b]
     ELSE IF b \in DOMAIN call[r].copies THEN [bookmarks[b] EXCEPT !.folder = call[r].folder]
     ELSE bookmarks[b]]

LEMMA SaveFolderBooks ==
  ASSUME RequestsOK, RowsOK, BookmarksOK, NEW r \in Requests, SaveFolder(r)
  PROVE  BookmarksOK'
  <1> DEFINE f == call[r].folder
             copies == call[r].copies
             u == call[r].user
  <1>1. /\ todo[r] = <<"saveFolder">> /\ call[r] \in FolderLocals /\ copies \in Copies /\ CopiesOK(call[r])
        /\ UNCHANGED gone /\ Moved(r) /\ todo'[r] = <<>>
    BY AtBookmarks, MoveOut DEF SaveFolder, BookmarksOK, CopiesAgree
  <1>2. f \in Folder /\ copies \in [DOMAIN copies -> BookmarkRow] /\ f # None
    BY <1>1, BookmarksAssumption DEF FolderLocals, Copies
  <1>3. /\ \A b \in DOMAIN copies : copies[b].user = u /\ copies[b].folder = f
        /\ \A a, b \in DOMAIN copies : copies[a].post = copies[b].post => a = b
    BY <1>1 DEF CopiesOK
  <1>4. \A b \in DOMAIN copies : <<b, copies[b].post, copies[b].user>> \in KnownMarks
    <2>1. ~Loaded(todo[r], call[r])
      BY <1>1 DEF Loaded
    <2>2. MarksHeld(todo[r], call[r]) = {<<b, copies[b].post, copies[b].user>> : b \in DOMAIN copies}
      BY <1>1, <2>1 DEF MarksHeld
    <2> QED BY <2>2, Known
  <1>5. <<f, u>> \in KnownFolders
    <2>1. ~Loaded(todo[r], call[r])
      BY <1>1 DEF Loaded
    <2>2. FoldersHeld(todo[r], call[r]) = OwnFolder(f, u)
      BY <1>1, <2>1 DEF FoldersHeld
    <2> QED BY <1>2, <2>2, Known DEF OwnFolder
  <1>6. DOMAIN posts \subseteq DOMAIN posts'
    BY BookmarksSteady DEF BookmarksOK, BookmarksStep, Steady
  <1>7. Single(bookmarks) /\ Owned(bookmarks, folders)
    BY OrderDef DEF BookmarksOK
  <1>8. MarksHeld(todo'[r], call'[r]) = {} /\ FoldersHeld(todo'[r], call'[r]) = {}
    BY <1>1, HoldsNothing DEF Elsewhere
  <1>9. CASE UNCHANGED bookmarks
    <2>1. folders' = folders \/ (f \notin DOMAIN folders /\ folders' = With(folders, f, u))
      BY DEF SaveFolder
    <2>2. /\ DOMAIN folders \subseteq DOMAIN folders' /\ \A g \in DOMAIN folders : folders'[g] = folders[g]
          /\ \A g \in DOMAIN folders' : <<g, folders'[g]>> \in KnownFolders
      BY <1>5, <2>1, Known DEF With
    <2>3. Owned(bookmarks', folders') /\ Single(bookmarks')
      BY <1>7, <1>9, <2>2 DEF Owned
    <2>4. Marks' \subseteq KnownMarks
      BY <1>9 DEF Marks, KnownMarks
    <2>5. Remembered
      BY <1>1, <1>6, <1>9, <2>2 DEF Remembered
    <2> QED BY <1>1, <1>8, <2>2, <2>3, <2>4, <2>5, BooksKept
  <1>10. CASE f \in DOMAIN folders /\ MayReturn(r) /\ bookmarks' = FolderSaved(r) /\ UNCHANGED folders
    <2>1. DOMAIN bookmarks' = DOMAIN bookmarks \cup DOMAIN copies /\ Lost(r) = DOMAIN copies \ DOMAIN bookmarks
      BY <1>10 DEF FolderSaved, Lost
    <2>2. \A b \in Lost(r) : bookmarks'[b] = copies[b]
      BY <1>10, <2>1 DEF FolderSaved
    <2>3. ASSUME NEW b \in DOMAIN bookmarks
          PROVE  /\ bookmarks'[b].post = bookmarks[b].post /\ bookmarks'[b].user = bookmarks[b].user
                 /\ bookmarks'[b].folder = IF b \in DOMAIN copies THEN f ELSE bookmarks[b].folder
      <3>1. bookmarks[b] \in BookmarkRow
        BY DEF RowsOK, MarksFit, BookmarksTypeOK
      <3>2. /\ [bookmarks[b] EXCEPT !.folder = f].post = bookmarks[b].post
            /\ [bookmarks[b] EXCEPT !.folder = f].user = bookmarks[b].user
            /\ [bookmarks[b] EXCEPT !.folder = f].folder = f
        BY <3>1 DEF BookmarkRow
      <3>3. bookmarks'[b] = IF b \in DOMAIN copies THEN [bookmarks[b] EXCEPT !.folder = f] ELSE bookmarks[b]
        BY <1>10, <2>1 DEF FolderSaved
      <3> QED BY <3>2, <3>3
    <2>4. folders[f] = u
      <3>1. <<f, folders[f]>> \in KnownFolders
        BY <1>10, Known
      <3>2. <<f, folders[f]>>[1] = <<f, u>>[1] => <<f, folders[f]>> = <<f, u>>
        BY <1>5, <3>1 DEF BookmarksOK, FoldersAgree
      <3> QED BY <3>2
    <2>5. \A b \in DOMAIN bookmarks \cap DOMAIN copies : bookmarks[b].user = u
      <3>1. ASSUME NEW b \in DOMAIN bookmarks \cap DOMAIN copies
            PROVE  bookmarks[b].user = u
        <4>1. <<b, bookmarks[b].post, bookmarks[b].user>> \in KnownMarks /\ <<b, copies[b].post, copies[b].user>> \in KnownMarks
          BY <1>4, Known
        <4>2. <<b, bookmarks[b].post, bookmarks[b].user>>[1] = <<b, copies[b].post, copies[b].user>>[1]
              => <<b, bookmarks[b].post, bookmarks[b].user>> = <<b, copies[b].post, copies[b].user>>
          BY <4>1 DEF BookmarksOK, MarksAgree
        <4> QED BY <1>3, <4>2
      <3> QED BY <3>1
    <2>6. Marks' \subseteq KnownMarks
      <3>1. Marks' = {<<a, bookmarks'[a].post, bookmarks'[a].user>> : a \in DOMAIN bookmarks'}
        BY DEF Marks
      <3>2. ASSUME NEW a \in DOMAIN bookmarks'
            PROVE  <<a, bookmarks'[a].post, bookmarks'[a].user>> \in KnownMarks
        <4>1. CASE a \in DOMAIN bookmarks
          BY <2>3, <4>1, Known
        <4>2. CASE a \in Lost(r)
          BY <1>4, <2>1, <2>2, <4>2
        <4> QED BY <2>1, <4>1, <4>2
      <3> QED BY <3>1, <3>2
    <2>7. Single(bookmarks')
      <3>1. \A b \in Lost(r), a \in DOMAIN bookmarks : ~(bookmarks[a].post = copies[b].post /\ bookmarks[a].user = copies[b].user)
        BY <1>10 DEF MayReturn, MarksOf
      <3>2. ASSUME NEW a \in DOMAIN bookmarks', NEW b \in DOMAIN bookmarks',
                   bookmarks'[a].post = bookmarks'[b].post, bookmarks'[a].user = bookmarks'[b].user
            PROVE  a = b
        <4>1. CASE a \in DOMAIN bookmarks /\ b \in DOMAIN bookmarks
          BY <1>7, <2>3, <3>2, <4>1 DEF Single
        <4>2. CASE a \in Lost(r) /\ b \in Lost(r)
          BY <1>3, <2>1, <2>2, <3>2, <4>2
        <4>3. CASE a \in Lost(r) /\ b \in DOMAIN bookmarks
          BY <2>2, <2>3, <3>1, <3>2, <4>3
        <4>4. CASE b \in Lost(r) /\ a \in DOMAIN bookmarks
          BY <2>2, <2>3, <3>1, <3>2, <4>4
        <4> QED BY <2>1, <4>1, <4>2, <4>3, <4>4
      <3> QED BY <3>2 DEF Single
    <2>8. Owned(bookmarks', folders')
      <3>1. ASSUME NEW b \in DOMAIN bookmarks', bookmarks'[b].folder # None
            PROVE  bookmarks'[b].folder \in DOMAIN folders /\ folders[bookmarks'[b].folder] = bookmarks'[b].user
        <4>1. CASE b \in Lost(r)
          BY <1>3, <1>10, <2>1, <2>2, <2>4, <4>1
        <4>2. CASE b \in DOMAIN bookmarks \cap DOMAIN copies
          BY <1>10, <2>3, <2>4, <2>5, <4>2
        <4>3. CASE b \in DOMAIN bookmarks \ DOMAIN copies
          BY <1>7, <2>3, <3>1, <4>3 DEF Owned
        <4> QED BY <2>1, <4>1, <4>2, <4>3
      <3> QED BY <1>10, <3>1 DEF Owned
    <2>9. Remembered
      BY <1>1, <1>6, <1>10, <2>1 DEF Remembered
    <2>10. \A g \in DOMAIN folders' : <<g, folders'[g]>> \in KnownFolders
      BY <1>10, Known
    <2> QED BY <1>1, <1>8, <2>6, <2>7, <2>8, <2>9, <2>10, BooksKept
  <1> QED BY <1>9, <1>10 DEF SaveFolder, FolderSaved

LEMMA ReadsBooks ==
  ASSUME RequestsOK, RowsOK, BookmarksOK, NEW r \in Requests,
         FindToggled(r) \/ FindMark(r) \/ FindFolder(r) \/ LoadMark(r) \/ MoveMark(r) \/ LoadFolder(r)
  PROVE  BookmarksOK'
  <1>1. UNCHANGED <<posts, gone, bookmarkVars>>
    BY DEF FindToggled, FindMark, FindFolder, LoadMark, MoveMark, LoadFolder, postVars
  <1>2. Moved(r) /\ todo'[r] \in MarkLands
    BY BookmarksMoves DEF BookmarksStep
  <1>3. Single(bookmarks) /\ Owned(bookmarks, folders)
    BY OrderDef DEF BookmarksOK
  <1>4. ASSUME MarksHeld(todo'[r], call'[r]) \subseteq KnownMarks,
               FoldersHeld(todo'[r], call'[r]) \subseteq KnownFolders,
               todo'[r] # <<>> /\ Head(todo'[r]) = "saveFolder" => CopiesOK(call'[r])
        PROVE  BookmarksOK'
    <2>1. Remembered
      BY <1>1 DEF Remembered, bookmarkVars
    <2>2. Marks' \subseteq KnownMarks
      BY <1>1 DEF Marks, KnownMarks, bookmarkVars
    <2>3. \A g \in DOMAIN folders' : <<g, folders'[g]>> \in KnownFolders
      BY <1>1, Known DEF bookmarkVars
    <2>4. Single(bookmarks') /\ Owned(bookmarks', folders')
      BY <1>1, <1>3 DEF bookmarkVars
    <2> QED BY <1>2, <1>4, <2>1, <2>2, <2>3, <2>4, BooksKept
  <1>5. ASSUME Elsewhere(todo'[r])
        PROVE  BookmarksOK'
    BY <1>1, <1>2, <1>5, BooksAside
  <1>6. CASE FindToggled(r)
    <2>1. todo'[r] \in {<<>>, <<"findMark">>}
      <3>1. todo[r] = <<"findToggled", "findMark">>
        BY <1>6, AtBookmarks DEF FindToggled
      <3>2. \/ Quit(r)
            \/ Go(r, <<"findMark">>, [call[r] EXCEPT !.hidden = posts[call[r].post].hidden])
        BY <1>6, <3>1 DEF FindToggled, AdvanceWith
      <3> QED BY <3>2, MoveOut DEF Go, RequestsOK
    <2> QED BY <1>5, <2>1 DEF Elsewhere
  <1>7. CASE FindMark(r)
    <2>1. /\ todo'[r] \in {<<>>, <<"deleteMark">>, <<"insertMark">>, <<"findFolder", "insertMark">>}
          /\ todo'[r] = <<"insertMark">> => call'[r] = call[r] /\ call[r].folder = None
      BY <1>7, FindMarkMoves
    <2>2. CASE todo'[r] = <<"insertMark">>
      <3>1. ~Loaded(<<"insertMark">>, call[r])
        BY DEF Loaded
      <3>2. /\ MarksHeld(<<"insertMark">>, call[r]) = {}
            /\ FoldersHeld(<<"insertMark">>, call[r]) = OwnFolder(None, call[r].user)
        BY <2>1, <2>2, <3>1 DEF MarksHeld, FoldersHeld
      <3>3. MarksHeld(todo'[r], call'[r]) = {} /\ FoldersHeld(todo'[r], call'[r]) = {}
        BY <2>1, <2>2, <3>2 DEF OwnFolder
      <3> QED BY <1>4, <2>2, <3>3
    <2>3. CASE todo'[r] # <<"insertMark">>
      BY <1>5, <2>1, <2>3 DEF Elsewhere
    <2> QED BY <2>2, <2>3
  <1>8. CASE LoadMark(r)
    <2>1. CASE todo'[r] = <<>>
      BY <1>5, <2>1 DEF Elsewhere
    <2>2. CASE todo'[r] # <<>>
      <3> DEFINE b == call[r].mark
      <3>1. /\ b \in DOMAIN bookmarks /\ bookmarks[b].user = call[r].user /\ Loaded(todo'[r], call'[r])
            /\ call'[r] = [call[r] EXCEPT !.row = Preloaded(b), !.copy = posts[bookmarks[b].post]]
            /\ todo'[r] = <<"moveMark", "saveMark">> => call[r].folder = None
        BY <1>8, <2>2, LoadMarkMoves
      <3>2. call[r] \in MarkLocals
        BY <1>8, AtBookmarks DEF LoadMark
      <3>3. /\ call'[r].mark = b /\ call'[r].user = call[r].user /\ call'[r].folder = call[r].folder
            /\ call'[r].row = Preloaded(b)
        BY <3>1, <3>2 DEF MarkLocals
      <3>4. /\ Preloaded(b).was = bookmarks[b].folder /\ Preloaded(b).folder = bookmarks[b].folder
            /\ Preloaded(b).post = bookmarks[b].post /\ Preloaded(b).user = bookmarks[b].user
        BY DEF Preloaded
      <3> HIDE DEF b
      <3>5. MarksHeld(todo'[r], call'[r]) \subseteq KnownMarks
        BY <3>1, <3>3, <3>4, Known DEF MarksHeld
      <3>6. OwnFolder(bookmarks[b].folder, call[r].user) \subseteq KnownFolders
        BY <1>3, <3>1, Known DEF OwnFolder, Owned
      <3>7. todo'[r] = <<"moveMark", "saveMark">> => OwnFolder(call[r].folder, call[r].user) = {}
        BY <3>1 DEF OwnFolder
      <3>8. FoldersHeld(todo'[r], call'[r]) \subseteq KnownFolders
        BY <3>1, <3>3, <3>4, <3>6, <3>7 DEF FoldersHeld
      <3>9. ~(todo'[r] # <<>> /\ Head(todo'[r]) = "saveFolder")
        BY <3>1 DEF Loaded
      <3> QED BY <1>4, <3>5, <3>8, <3>9
    <2> QED BY <2>1, <2>2
  <1>9. CASE MoveMark(r)
    <2> DEFINE b == call[r].mark
    <2>1. todo[r] = <<"moveMark", "saveMark">> /\ Loaded(todo[r], call[r])
      BY <1>9, AtBookmarks DEF MoveMark
    <2>2. /\ todo'[r] = <<"saveMark">> /\ Loaded(todo'[r], call'[r])
          /\ call'[r].mark = call[r].mark /\ call'[r].user = call[r].user
          /\ call'[r].row = [call[r].row EXCEPT !.folder = call[r].folder]
      BY <1>9, MoveMarkMoves
    <2>3. call[r].row \in MarkRow
      BY <2>1 DEF Loaded
    <2>4. /\ call'[r].row.post = call[r].row.post /\ call'[r].row.user = call[r].row.user
          /\ call'[r].row.was = call[r].row.was /\ call'[r].row.folder = call[r].folder
      BY <2>2, <2>3 DEF MarkRow
    <2>5. MarksHeld(todo'[r], call'[r]) = MarksHeld(todo[r], call[r])
      BY <2>1, <2>2, <2>4 DEF MarksHeld
    <2>6. FoldersHeld(todo'[r], call'[r]) \subseteq FoldersHeld(todo[r], call[r])
      BY <2>1, <2>2, <2>4 DEF FoldersHeld
    <2> QED BY <1>4, <2>2, <2>5, <2>6, Known
  <1>10. CASE LoadFolder(r)
    <2>1. todo'[r] \in {<<>>, <<"saveFolder">>}
      BY <1>10, LoadFolderMoves
    <2>2. CASE todo'[r] = <<>>
      BY <1>5, <2>2 DEF Elsewhere
    <2>3. CASE todo'[r] = <<"saveFolder">>
      <3> DEFINE f == call[r].folder
                 S == {b \in DOMAIN bookmarks : bookmarks[b].folder = f}
      <3>1. /\ f \in DOMAIN folders /\ folders[f] = call[r].user
            /\ call'[r].user = call[r].user /\ call'[r].folder = f
            /\ call'[r].copies = [b \in S |-> bookmarks[b]]
        <4>1. todo'[r] # <<>>
          BY <2>3
        <4> QED BY <1>10, <4>1, LoadFolderMoves
      <3>2. /\ DOMAIN call'[r].copies = S /\ \A b \in S : call'[r].copies[b] = bookmarks[b]
            /\ \A b \in S : b \in DOMAIN bookmarks /\ bookmarks[b].folder = f
        BY <3>1
      <3>3. f # None
        BY <3>1, BookmarksAssumption DEF RowsOK, MarksFit, BookmarksTypeOK
      <3>4. IsFiniteSet(S)
        BY FS_Subset DEF RowsOK, MarksFit
      <3> HIDE DEF S, f
      <3>5. \A b \in S : bookmarks[b].user = call[r].user
        BY <1>3, <3>1, <3>2, <3>3 DEF Owned
      <3>6. CopiesOK(call'[r])
        <4>1. \A a, b \in S : bookmarks[a].post = bookmarks[b].post => a = b
          BY <1>3, <3>2, <3>5 DEF Single
        <4> QED BY <3>1, <3>2, <3>4, <3>5, <4>1 DEF CopiesOK
      <3>7. ~Loaded(<<"saveFolder">>, call'[r])
        BY DEF Loaded
      <3>8. MarksHeld(todo'[r], call'[r]) \subseteq KnownMarks
        <4>1. MarksHeld(todo'[r], call'[r]) =
                {<<b, call'[r].copies[b].post, call'[r].copies[b].user>> : b \in DOMAIN call'[r].copies}
          BY <2>3, <3>7 DEF MarksHeld
        <4> QED BY <3>2, <4>1, Known
      <3>9. FoldersHeld(todo'[r], call'[r]) \subseteq KnownFolders
        <4>1. FoldersHeld(todo'[r], call'[r]) = OwnFolder(f, call[r].user)
          BY <2>3, <3>1, <3>7 DEF FoldersHeld
        <4> QED BY <3>1, <4>1, Known DEF OwnFolder
      <3> QED BY <1>4, <3>6, <3>8, <3>9
    <2> QED BY <2>1, <2>2, <2>3
  <1>11. CASE FindFolder(r)
    <2>1. todo'[r] \in {<<>>, Tail(todo[r])} /\ call'[r] \in {None, call[r]}
      BY <1>11, MoveAlong DEF FindFolder, Check, At, Reads
    <2>2. \/ call[r] \in ToggleLocals /\ call[r].folder \in Folder /\ todo[r] = <<"findFolder", "insertMark">>
          \/ /\ Loaded(todo[r], call[r]) /\ call[r].folder \in Folder
             /\ todo[r] = <<"findFolder", "moveMark", "saveMark">>
      BY <1>11, AtBookmarks DEF FindFolder
    <2>3. CASE todo'[r] = <<>>
      BY <1>5, <2>3 DEF Elsewhere
    <2>4. CASE todo'[r] # <<>>
      <3> DEFINE f == call[r].folder
      <3>1. f \in DOMAIN folders /\ folders[f] = call[r].user /\ Advance(r)
        BY <1>11, <2>4, MoveOut DEF FindFolder, Check
      <3>2. call'[r] = call[r] /\ todo'[r] = Tail(todo[r])
        BY <2>1, <2>4, <3>1 DEF Advance, AdvanceWith, Go, Quit, RequestsOK
      <3>3. OwnFolder(f, call[r].user) \subseteq KnownFolders
        BY <3>1, Known DEF OwnFolder
      <3> HIDE DEF f
      <3>4. CASE call[r] \in ToggleLocals /\ todo[r] = <<"findFolder", "insertMark">>
        <4>1. todo'[r] = <<"insertMark">>
          BY <3>2, <3>4
        <4>2. ~Loaded(<<"insertMark">>, call[r])
          BY DEF Loaded
        <4>3. MarksHeld(todo'[r], call'[r]) = {} /\ FoldersHeld(todo'[r], call'[r]) = OwnFolder(f, call[r].user)
          <5>1. /\ MarksHeld(<<"insertMark">>, call[r]) = {}
                /\ FoldersHeld(<<"insertMark">>, call[r]) = OwnFolder(f, call[r].user)
            BY <4>2 DEF MarksHeld, FoldersHeld, f
          <5> QED BY <3>2, <4>1, <5>1
        <4> QED BY <1>4, <3>3, <4>1, <4>3
      <3>5. CASE Loaded(todo[r], call[r]) /\ todo[r] = <<"findFolder", "moveMark", "saveMark">>
        <4>1. todo'[r] = <<"moveMark", "saveMark">>
          BY <3>2, <3>5
        <4>2. Loaded(todo'[r], call'[r])
          BY <3>2, <3>5, <4>1 DEF Loaded
        <4>3. MarksHeld(todo'[r], call'[r]) = MarksHeld(todo[r], call[r])
          BY <3>2, <3>5, <4>2 DEF MarksHeld
        <4>4. FoldersHeld(todo'[r], call'[r]) \subseteq FoldersHeld(todo[r], call[r]) \cup OwnFolder(f, call[r].user)
          BY <3>2, <3>5, <4>2 DEF FoldersHeld, f
        <4> QED BY <1>4, <3>3, <4>1, <4>3, <4>4, Known
      <3> QED BY <2>2, <3>4, <3>5
    <2> QED BY <2>3, <2>4
  <1> QED BY <1>6, <1>7, <1>8, <1>9, <1>10, <1>11

\* What a request about bookmarks does.
LEMMA BookmarksBooks ==
  ASSUME RequestsOK, RowsOK, BookmarksOK, NEW r \in Requests, BookmarksStep(r) \/ FoldersStart(r)
  PROVE  BookmarksOK'
  BY ReadsBooks, DeleteMarkBooks, InsertMarkBooks, SaveMarkBooks, PutMarkBooks, SaveFolderBooks,
     CreateFolderBooks, DeleteFolderBooks DEF BookmarksStep, FoldersStart

\* Ids mean what they meant.
LEMMA BooksStep ==
  ASSUME RequestsOK, RowsOK, LogBehind, BookmarksOK, [Next]_vars
  PROVE  BookmarksOK'
  <1>1. CASE Expire \/ UNCHANGED vars
    <2>1. UNCHANGED <<todo, call, posts, gone, bookmarks, folders>>
      BY <1>1 DEF Expire, ExpireList, ExpireMarker, vars, requestVars, postVars, bookmarkVars
    <2>2. Marks' = Marks /\ \A r \in Requests : HeldMarks(r)' = HeldMarks(r) /\ HeldFolders(r)' = HeldFolders(r)
      BY <2>1, HeldDef DEF Marks
    <2>3. KnownMarks' = KnownMarks /\ KnownFolders' = KnownFolders
      BY <2>1, <2>2 DEF KnownMarks, KnownFolders
    <2>4. MarksAgree' /\ FoldersAgree'
      BY <2>1, <2>3 DEF BookmarksOK, MarksAgree, FoldersAgree
    <2>5. CopiesAgree'
      BY <2>1 DEF BookmarksOK, CopiesAgree, CopiesOK, At
    <2>6. BookmarksInOrder'
      BY <2>1, OrderDef DEF BookmarksOK
    <2> QED BY <2>4, <2>5, <2>6 DEF BookmarksOK
  <1>2. ASSUME NEW r \in Requests, Request(r)
        PROVE  BookmarksOK'
    <2>1. Moved(r)
      BY <1>2, RequestMoves
    <2>2. CASE BookmarksStep(r) \/ FoldersStart(r)
      BY <2>2, BookmarksBooks
    <2>3. ASSUME NEW u \in Users \cup {None}, NEW p \in Post, RemovePost(r, u, p)
          PROVE  BookmarksOK'
      BY <2>3, RemoveBooks
    <2>4. ASSUME ~(BookmarksStep(r) \/ FoldersStart(r)),
                 ~\E u \in Users \cup {None}, p \in Post : RemovePost(r, u, p)
          PROVE  BookmarksOK'
      <3>1. DOMAIN posts \subseteq DOMAIN posts' /\ gone \subseteq gone'
        <4>1. LockPost(r) \/ Decide(r) \/ InsertReport(r) => DOMAIN posts \subseteq DOMAIN posts' /\ gone \subseteq gone'
          BY DEF LockPost, Decide, InsertReport, postVars, RowsOK, PostsTypeOK
        <4> QED BY <1>2, <2>4, <4>1, LogEffects DEF BookmarksOK, Steady
      <3>2. CASE Begins(r)
        BY <2>1, <3>1, <3>2, BooksAside DEF Begins, Entries, Elsewhere
      <3>3. CASE /\ todo[r] = <<>> /\ (TagsStart(r) \/ NotificationsStart(r)) /\ UNCHANGED bookmarkVars
        <4>1. todo'[r] = <<>>
          BY <3>3, AtOnceMoves
        <4> QED BY <2>1, <3>1, <3>3, <4>1, BooksAside DEF Elsewhere
      <3>4. CASE Common(r)
        <4>1. Elsewhere(todo'[r]) /\ UNCHANGED bookmarkVars
          BY <3>4, CommonMoves DEF Elsewhere, Common
        <4> QED BY <2>1, <3>1, <4>1, BooksAside
      <3>5. CASE ModerationStep(r) /\ UNCHANGED bookmarkVars
        <4>1. Elsewhere(todo'[r])
          BY <3>5, ModerationMoves DEF Elsewhere
        <4> QED BY <2>1, <3>1, <3>5, <4>1, BooksAside
      <3>6. CASE PostTagsStep(r) /\ UNCHANGED bookmarkVars
        <4>1. Elsewhere(todo'[r])
          BY <3>6, PostTagsMoves DEF Elsewhere, TagLands
        <4> QED BY <2>1, <3>1, <3>6, <4>1, BooksAside
      <3>7. CASE ReactionsStep(r) /\ UNCHANGED bookmarkVars
        <4>1. Elsewhere(todo'[r])
          BY <3>7, ReactionsMoves DEF Elsewhere
        <4> QED BY <2>1, <3>1, <3>7, <4>1, BooksAside
      <3>8. CASE Notify(r) /\ UNCHANGED bookmarkVars
        <4>1. Elsewhere(todo'[r])
          BY <3>8, NotifyMoves DEF Elsewhere
        <4> QED BY <2>1, <3>1, <3>8, <4>1, BooksAside
      <3>9. CASE FollowsStep(r) /\ UNCHANGED bookmarkVars
        <4>1. Elsewhere(todo'[r])
          BY <3>9, FollowsMoves DEF Elsewhere
        <4> QED BY <2>1, <3>1, <3>9, <4>1, BooksAside
      <3> QED BY <1>2, <2>4, <3>2, <3>3, <3>4, <3>5, <3>6, <3>7, <3>8, <3>9, StepCases DEF Proceed
    <2> QED BY <2>2, <2>3, <2>4
  <1> QED BY <1>1, <1>2 DEF Next

-----------------------------------------------------------------------------
(* The counters of posts.                                                  *)

\* The bookmarks of post p in table t.
Bookmarked(t, p) == {b \in DOMAIN t : t[b].post = p}

\* The row counts the likes, views and bookmarks of post p.
Counts(row, p, ls, vs, t) ==
  /\ row.likes = Cardinality(From(ls, p))
  /\ row.views = Cardinality(From(vs, p))
  /\ row.bookmarks = Cardinality(Bookmarked(t, p))

PostsCounted == \A p \in DOMAIN posts \ gone : Counts(posts[p], p, likes, views, bookmarks)

LEMMA CountsDef ==
  /\ RowsOK /\ CountsMatchRows => PostsCounted
  /\ RowsOK' /\ FollowsCounted' /\ PostsCounted' => CountsMatchRows'
  <1>1. ASSUME RowsOK, CountsMatchRows
        PROVE  PostsCounted
    <2>1. \A p : MarksOf(p, Users) = Bookmarked(bookmarks, p)
      BY <1>1 DEF RowsOK, MarksFit, BookmarksTypeOK, BookmarkRow, MarksOf, Bookmarked
    <2> QED BY <1>1, <2>1 DEF CountsMatchRows, PostsCounted, Counts, From
  <1>2. ASSUME RowsOK', FollowsCounted', PostsCounted'
        PROVE  CountsMatchRows'
    <2>1. \A p : MarksOf(p, Users)' = Bookmarked(bookmarks', p)
      BY <1>2 DEF RowsOK, MarksFit, BookmarksTypeOK, BookmarkRow, MarksOf, Bookmarked
    <2>2. ASSUME NEW p \in DOMAIN posts' \ gone'
          PROVE  /\ posts'[p].likes = Cardinality({x \in likes' : x[1] = p})
                 /\ posts'[p].views = Cardinality({x \in views' : x[1] = p})
                 /\ posts'[p].bookmarks = Cardinality(MarksOf(p, Users)')
      BY <1>2, <2>1 DEF PostsCounted, Counts, From
    <2> QED BY <1>2, <2>2 DEF CountsMatchRows, FollowsCounted
  <1> QED BY <1>1, <1>2

\* The rows of a post that is not new are as many as they were, and the counters are the same.
LEMMA CountsKept ==
  ASSUME PostsCounted, gone \subseteq gone',
         \A p \in DOMAIN posts' \ gone' :
           /\ p \in DOMAIN posts
           /\ posts'[p].likes = posts[p].likes /\ posts'[p].views = posts[p].views
           /\ posts'[p].bookmarks = posts[p].bookmarks
           /\ From(likes', p) = From(likes, p) /\ From(views', p) = From(views, p)
           /\ Bookmarked(bookmarks', p) = Bookmarked(bookmarks, p)
  PROVE  PostsCounted'
  <1>1. ASSUME NEW p \in DOMAIN posts' \ gone'
        PROVE  Counts(posts'[p], p, likes', views', bookmarks')
    <2>1. Counts(posts[p], p, likes, views, bookmarks)
      BY DEF PostsCounted
    <2> QED BY <2>1 DEF Counts
  <1> QED BY <1>1 DEF PostsCounted

LEMMA CountedRow ==
  ASSUME NEW table, table \in [DOMAIN table -> PostRow], NEW p, NEW n \in Int, NEW q \in DOMAIN table
  PROVE  /\ Counted(table, p, n)[q].likes = table[q].likes /\ Counted(table, p, n)[q].views = table[q].views
         /\ Counted(table, p, n)[q].bookmarks = table[q].bookmarks + IF q = p THEN n ELSE 0
  <1>1. table[q] \in PostRow
    OBVIOUS
  <1>2. Counted(table, p, n)[q] = IF q = p THEN [table[q] EXCEPT !.bookmarks = table[q].bookmarks + n] ELSE table[q]
    BY DEF Counted
  <1> QED BY <1>1, <1>2 DEF PostRow

\* Table t has bookmark b more than table s.
LEMMA OneMark ==
  ASSUME NEW s, NEW t, NEW b, IsFiniteSet(DOMAIN s), DOMAIN t = DOMAIN s \cup {b}, b \notin DOMAIN s,
         \A a \in DOMAIN s : t[a].post = s[a].post, NEW p
  PROVE  /\ Cardinality(Bookmarked(s, p)) \in Nat
         /\ Cardinality(Bookmarked(t, p)) = Cardinality(Bookmarked(s, p)) + IF t[b].post = p THEN 1 ELSE 0
  <1>1. IsFiniteSet(Bookmarked(s, p)) /\ b \notin Bookmarked(s, p)
    BY FS_Subset DEF Bookmarked
  <1>2. Bookmarked(t, p) = IF t[b].post = p THEN Bookmarked(s, p) \cup {b} ELSE Bookmarked(s, p)
    BY DEF Bookmarked
  <1>3. /\ Cardinality(Bookmarked(s, p)) \in Nat
        /\ Cardinality(Bookmarked(s, p) \cup {b}) = Cardinality(Bookmarked(s, p)) + 1
    BY <1>1, FS_AddElement, FS_CardinalityType
  <1> QED BY <1>2, <1>3

\* Likes and views.
LEMMA LikesCounts ==
  ASSUME RequestsOK, RowsOK, PostsCounted, NEW r \in Requests, InsertLike(r) \/ DeleteLike(r) \/ InsertView(r),
         UNCHANGED bookmarks
  PROVE  PostsCounted'
  <1> DEFINE p == call[r].post
             x == Mine(r)
  <1>1. UNCHANGED gone /\ x[1] = p
    BY DEF InsertLike, DeleteLike, InsertView, Mine
  <1>2. /\ IsFiniteSet(likes) /\ IsFiniteSet(views) /\ posts \in [DOMAIN posts -> PostRow]
        /\ likes \subseteq (DOMAIN posts) \X Users
    BY DEF RowsOK, ReactionsFit, ReactionsTypeOK, PostsTypeOK
  <1> HIDE DEF x, p
  <1>3. CASE UNCHANGED <<posts, likes, views>>
    BY <1>1, <1>3, CountsKept
  <1>4. CASE /\ x \notin likes /\ likes' = likes \cup {x} /\ UNCHANGED views
             /\ posts' = [posts EXCEPT ![p] = [posts[p] EXCEPT !.likes = posts[p].likes + 1]]
    <2>1. ASSUME NEW q \in DOMAIN posts' \ gone'
          PROVE  Counts(posts'[q], q, likes', views', bookmarks')
      <3>1. q \in DOMAIN posts \ gone /\ posts[q] \in PostRow
        BY <1>1, <1>2, <1>4
      <3>2. Counts(posts[q], q, likes, views, bookmarks)
        BY <3>1 DEF PostsCounted
      <3>3. /\ posts'[q].likes = posts[q].likes + (IF q = p THEN 1 ELSE 0)
            /\ posts'[q].views = posts[q].views /\ posts'[q].bookmarks = posts[q].bookmarks
        BY <1>2, <1>4, <3>1 DEF PostRow
      <3>4. Cardinality(From(likes \cup {x}, q)) = Cardinality(From(likes, q)) + (IF x[1] = q THEN 1 ELSE 0)
        BY <1>2, <1>4, OneMore
      <3> QED BY <1>1, <1>4, <3>2, <3>3, <3>4 DEF Counts
    <2> QED BY <2>1 DEF PostsCounted
  <1>5. CASE /\ x \in likes /\ likes' = likes \ {x} /\ UNCHANGED views
             /\ posts' = [posts EXCEPT ![p] = [posts[p] EXCEPT !.likes = posts[p].likes - 1]]
    <2>1. ASSUME NEW q \in DOMAIN posts' \ gone'
          PROVE  Counts(posts'[q], q, likes', views', bookmarks')
      <3>1. q \in DOMAIN posts \ gone /\ posts[q] \in PostRow
        BY <1>1, <1>2, <1>5
      <3>2. Counts(posts[q], q, likes, views, bookmarks)
        BY <3>1 DEF PostsCounted
      <3>3. /\ posts'[q].likes = posts[q].likes - (IF q = p THEN 1 ELSE 0)
            /\ posts'[q].views = posts[q].views /\ posts'[q].bookmarks = posts[q].bookmarks
        BY <1>2, <1>5, <3>1 DEF PostRow
      <3>4. IsFiniteSet(likes') /\ x \notin likes' /\ likes = likes' \cup {x}
        BY <1>2, <1>5, FS_RemoveElement
      <3>5. /\ Cardinality(From(likes', q)) \in Nat
            /\ Cardinality(From(likes' \cup {x}, q)) = Cardinality(From(likes', q)) + (IF x[1] = q THEN 1 ELSE 0)
        BY <3>4, OneMore
      <3>6. Cardinality(From(likes, q)) = Cardinality(From(likes', q)) + (IF p = q THEN 1 ELSE 0)
        BY <1>1, <3>4, <3>5
      <3>7. posts'[q].likes = Cardinality(From(likes', q))
        BY <3>2, <3>3, <3>5, <3>6 DEF Counts
      <3> QED BY <1>5, <3>2, <3>3, <3>7 DEF Counts
    <2> QED BY <2>1 DEF PostsCounted
  <1>6. CASE /\ x \notin views /\ views' = views \cup {x} /\ UNCHANGED likes
             /\ posts' = [posts EXCEPT ![p] = [posts[p] EXCEPT !.views = posts[p].views + 1]]
    <2>1. ASSUME NEW q \in DOMAIN posts' \ gone'
          PROVE  Counts(posts'[q], q, likes', views', bookmarks')
      <3>1. q \in DOMAIN posts \ gone /\ posts[q] \in PostRow
        BY <1>1, <1>2, <1>6
      <3>2. Counts(posts[q], q, likes, views, bookmarks)
        BY <3>1 DEF PostsCounted
      <3>3. /\ posts'[q].views = posts[q].views + (IF q = p THEN 1 ELSE 0)
            /\ posts'[q].likes = posts[q].likes /\ posts'[q].bookmarks = posts[q].bookmarks
        BY <1>2, <1>6, <3>1 DEF PostRow
      <3>4. Cardinality(From(views \cup {x}, q)) = Cardinality(From(views, q)) + (IF x[1] = q THEN 1 ELSE 0)
        BY <1>2, <1>6, OneMore
      <3> QED BY <1>1, <1>6, <3>2, <3>3, <3>4 DEF Counts
    <2> QED BY <2>1 DEF PostsCounted
  <1> QED BY <1>3, <1>4, <1>5, <1>6 DEF InsertLike, DeleteLike, InsertView, x, p

\* A post gets its first row, which counts nothing; there is nothing to count.
LEMMA InsertCounts ==
  ASSUME RowsOK, PostsCounted, NEW p, NEW u, InsertPost(p, u), UNCHANGED <<likes, views, bookmarks>>
  PROVE  PostsCounted'
  <1>1. /\ DOMAIN posts' = DOMAIN posts \cup {p} /\ p \notin DOMAIN posts \cup gone
        /\ posts'[p] = NewPost(u) /\ \A q \in DOMAIN posts : posts'[q] = posts[q]
        /\ UNCHANGED gone
    BY InsertSteady
  <1>2. From(likes, p) = {} /\ From(views, p) = {} /\ Bookmarked(bookmarks, p) = {}
    BY <1>1 DEF From, Bookmarked, RowsOK, ReactionsFit, ReactionsTypeOK, MarksFit, Exists
  <1>3. Counts(posts'[p], p, likes', views', bookmarks')
    BY <1>1, <1>2, FS_EmptySet DEF Counts, NewPost
  <1>4. ASSUME NEW q \in DOMAIN posts' \ gone', q # p
        PROVE  Counts(posts'[q], q, likes', views', bookmarks')
    BY <1>1, <1>4 DEF PostsCounted
  <1> QED BY <1>3, <1>4 DEF PostsCounted

LEMMA DecideCounts ==
  ASSUME RowsOK, PostsCounted, NEW r, Decide(r), UNCHANGED <<likes, views, bookmarks>>
  PROVE  PostsCounted'
  <1> DEFINE p == call[r].post
             hide == call[r].kind = "hide"
  <1>1. /\ UNCHANGED gone
        /\ posts' = posts \/ posts' = [posts EXCEPT ![p].hidden = hide]
    BY DEF Decide
  <1> HIDE DEF p, hide
  <1>2. DOMAIN posts' = DOMAIN posts
    BY <1>1 DEF RowsOK, PostsTypeOK
  <1>3. ASSUME NEW q \in DOMAIN posts
        PROVE  /\ posts'[q].likes = posts[q].likes /\ posts'[q].views = posts[q].views
               /\ posts'[q].bookmarks = posts[q].bookmarks
    <2>1. posts[q] \in PostRow
      BY DEF RowsOK, PostsTypeOK
    <2>2. posts'[q] = posts[q] \/ posts'[q] = [posts[q] EXCEPT !.hidden = hide]
      BY <1>1 DEF RowsOK, PostsTypeOK
    <2> QED BY <2>1, <2>2 DEF PostRow
  <1> QED BY <1>1, <1>2, <1>3, CountsKept

LEMMA RemoveCounts ==
  ASSUME RowsOK, PostsCounted, NEW r, NEW u, NEW p, RemovePost(r, u, p)
  PROVE  PostsCounted'
  <1>1. /\ posts' = Without(posts, {p}) /\ gone \subseteq gone'
        /\ likes' = {x \in likes : x[1] # p} /\ views' = {x \in views : x[1] # p}
        /\ bookmarks' = Without(bookmarks, MarksOf(p, Users))
    BY DEF RemovePost, DeletePost, CascadeReactions, CascadeBookmarks
  <1>2. /\ DOMAIN posts' = DOMAIN posts \ {p} /\ \A q \in DOMAIN posts' : posts'[q] = posts[q]
        /\ DOMAIN bookmarks' = DOMAIN bookmarks \ MarksOf(p, Users)
        /\ \A b \in DOMAIN bookmarks' : bookmarks'[b] = bookmarks[b]
    BY <1>1 DEF Without
  <1>3. ASSUME NEW q \in DOMAIN posts'
        PROVE  /\ From(likes', q) = From(likes, q) /\ From(views', q) = From(views, q)
               /\ Bookmarked(bookmarks', q) = Bookmarked(bookmarks, q)
    <2>1. q # p
      BY <1>2
    <2>2. \A b \in DOMAIN bookmarks : bookmarks[b].post = q => b \in DOMAIN bookmarks'
      BY <1>2, <2>1 DEF MarksOf
    <2> QED BY <1>1, <1>2, <2>1, <2>2 DEF From, Bookmarked
  <1> QED BY <1>1, <1>2, <1>3, CountsKept

\* Bookmarks come and go, and the posts they are of come back.
LEMMA DeleteMarkCounts ==
  ASSUME RowsOK, PostsCounted, NEW r, DeleteMark(r), UNCHANGED <<likes, views>>
  PROVE  PostsCounted'
  <1>1. gone \subseteq gone'
    BY DEF DeleteMark
  <1>2. CASE UNCHANGED <<posts, bookmarks>>
    BY <1>1, <1>2, CountsKept
  <1>3. ASSUME NEW b \in DOMAIN bookmarks, bookmarks' = Without(bookmarks, {b}),
               posts' = Counted(posts, bookmarks[b].post, -1)
        PROVE  PostsCounted'
    <2>1. posts \in [DOMAIN posts -> PostRow] /\ IsFiniteSet(DOMAIN bookmarks)
      BY DEF RowsOK, PostsTypeOK, MarksFit
    <2>2. /\ DOMAIN bookmarks' = DOMAIN bookmarks \ {b} /\ \A a \in DOMAIN bookmarks' : bookmarks'[a] = bookmarks[a]
          /\ DOMAIN posts' = DOMAIN posts
      BY <1>3, <2>1, CountedTyped DEF Without
    <2> DEFINE p == bookmarks[b].post
    <2> HIDE DEF p
    <2>3. ASSUME NEW q \in DOMAIN posts' \ gone'
          PROVE  Counts(posts'[q], q, likes', views', bookmarks')
      <3>1. q \in DOMAIN posts \ gone
        BY <1>1, <2>2
      <3>2. Counts(posts[q], q, likes, views, bookmarks)
        BY <3>1 DEF PostsCounted
      <3>3. /\ posts'[q].likes = posts[q].likes /\ posts'[q].views = posts[q].views
            /\ posts'[q].bookmarks = posts[q].bookmarks + IF q = p THEN -1 ELSE 0
        BY <1>3, <2>1, <3>1, CountedRow DEF p
      <3>4. IsFiniteSet(DOMAIN bookmarks')
        BY <2>1, <2>2, FS_RemoveElement
      <3>5. /\ Cardinality(Bookmarked(bookmarks', q)) \in Nat
            /\ Cardinality(Bookmarked(bookmarks, q)) = Cardinality(Bookmarked(bookmarks', q)) + IF p = q THEN 1 ELSE 0
        <4>1. DOMAIN bookmarks = DOMAIN bookmarks' \cup {b} /\ b \notin DOMAIN bookmarks'
          BY <1>3, <2>2
        <4>2. \A a \in DOMAIN bookmarks' : bookmarks[a].post = bookmarks'[a].post
          BY <2>2
        <4>3. \A x : /\ Cardinality(Bookmarked(bookmarks', x)) \in Nat
                     /\ Cardinality(Bookmarked(bookmarks, x))
                          = Cardinality(Bookmarked(bookmarks', x)) + IF bookmarks[b].post = x THEN 1 ELSE 0
          BY <3>4, <4>1, <4>2, OneMark
        <4> QED BY <4>3 DEF p
      <3> QED BY <3>2, <3>3, <3>5 DEF Counts
    <2> QED BY <2>3 DEF PostsCounted
  <1> QED BY <1>2, <1>3 DEF DeleteMark

LEMMA InsertMarkCounts ==
  ASSUME RowsOK, PostsCounted, NEW r, InsertMark(r), UNCHANGED <<likes, views>>
  PROVE  PostsCounted'
  <1> DEFINE row == [post |-> call[r].post, user |-> call[r].user, folder |-> call[r].folder]
  <1>1. UNCHANGED gone
    BY DEF InsertMark
  <1>2. CASE UNCHANGED <<posts, bookmarks>>
    BY <1>1, <1>2, CountsKept
  <1>3. ASSUME NEW b \in Fresh(Bookmark, bookmarks), bookmarks' = With(bookmarks, b, row), posts' = Counted(posts, row.post, 1)
        PROVE  PostsCounted'
    <2> HIDE DEF row
    <2>1. posts \in [DOMAIN posts -> PostRow] /\ IsFiniteSet(DOMAIN bookmarks) /\ b \notin DOMAIN bookmarks
      BY DEF RowsOK, PostsTypeOK, MarksFit, Fresh
    <2>2. /\ DOMAIN bookmarks' = DOMAIN bookmarks \cup {b} /\ bookmarks'[b] = row
          /\ \A a \in DOMAIN bookmarks : bookmarks'[a].post = bookmarks[a].post
          /\ DOMAIN posts' = DOMAIN posts
      BY <1>3, <2>1, CountedTyped DEF With
    <2>3. ASSUME NEW q \in DOMAIN posts' \ gone'
          PROVE  Counts(posts'[q], q, likes', views', bookmarks')
      <3>1. Counts(posts[q], q, likes, views, bookmarks) /\ q \in DOMAIN posts
        BY <1>1, <2>2 DEF PostsCounted
      <3>2. /\ posts'[q].likes = posts[q].likes /\ posts'[q].views = posts[q].views
            /\ posts'[q].bookmarks = posts[q].bookmarks + IF q = row.post THEN 1 ELSE 0
        BY <1>3, <2>1, <3>1, CountedRow
      <3>3. /\ Cardinality(Bookmarked(bookmarks, q)) \in Nat
            /\ Cardinality(Bookmarked(bookmarks', q))
                 = Cardinality(Bookmarked(bookmarks, q)) + IF bookmarks'[b].post = q THEN 1 ELSE 0
        BY <2>1, <2>2, OneMark
      <3> QED BY <2>2, <3>1, <3>2, <3>3 DEF Counts
    <2> QED BY <2>3 DEF PostsCounted
  <1> QED BY <1>2, <1>3 DEF InsertMark

LEMMA SaveMarkCounts ==
  ASSUME RequestsOK, RowsOK, BookmarksOK, PostsCounted, NEW r \in Requests, SaveMark(r), UNCHANGED <<likes, views>>
  PROVE  PostsCounted'
  <1> DEFINE b == call[r].mark
  <1>1. Loaded(todo[r], call[r]) /\ UNCHANGED gone /\ DOMAIN posts' \subseteq DOMAIN posts \cup gone
    BY AtBookmarks, BookmarksSteady DEF SaveMark, BookmarksOK, BookmarksStep
  <1>2. \A p \in DOMAIN posts : posts'[p] = posts[p]
    BY DEF SaveMark, PostsSaved, With, Exists
  <1>3. /\ DOMAIN bookmarks' = DOMAIN bookmarks
        /\ \A a \in DOMAIN bookmarks : bookmarks'[a].post = bookmarks[a].post
    <2>1. \/ bookmarks' = bookmarks
          \/ b \in DOMAIN bookmarks /\ bookmarks' = [bookmarks EXCEPT ![b] = RowSaved(r)]
      BY DEF SaveMark
    <2>2. b \in DOMAIN bookmarks => bookmarks[b].post = RowSaved(r).post
      BY <1>1, SavedBooks
    <2> HIDE DEF b
    <2> QED BY <2>1, <2>2 DEF RowsOK, MarksFit, BookmarksTypeOK
  <1>4. \A p : Bookmarked(bookmarks', p) = Bookmarked(bookmarks, p)
    BY <1>3 DEF Bookmarked
  <1>5. \A p \in DOMAIN posts' \ gone' : p \in DOMAIN posts
    BY <1>1
  <1> QED BY <1>1, <1>2, <1>4, <1>5, CountsKept

LEMMA PutMarkCounts ==
  ASSUME RequestsOK, RowsOK, BookmarksOK, PostsCounted, NEW r \in Requests, PutMark(r), UNCHANGED <<likes, views>>
  PROVE  PostsCounted'
  <1> DEFINE b == call[r].mark
             saved == RowSaved(r)
  <1>1. Loaded(todo[r], call[r]) /\ UNCHANGED gone /\ DOMAIN posts' \subseteq DOMAIN posts \cup gone
    BY AtBookmarks, BookmarksSteady DEF PutMark, BookmarksOK, BookmarksStep
  <1>2. /\ \A p \in DOMAIN posts : PostsSaved(r)[p] = posts[p]
        /\ DOMAIN PostsSaved(r) = DOMAIN posts \cup {saved.post}
        /\ PostsSaved(r) \in [DOMAIN PostsSaved(r) -> PostRow]
    BY <1>1, SavedRow DEF PostsSaved, With, Exists
  <1>3. CASE UNCHANGED <<posts, bookmarks>>
    BY <1>1, <1>3, CountsKept
  <1>4. CASE b \in DOMAIN bookmarks /\ posts' = PostsSaved(r) /\ bookmarks' = With(bookmarks, b, saved)
    <2>1. bookmarks[b].post = saved.post
      BY <1>1, <1>4, SavedBooks
    <2>2. /\ DOMAIN bookmarks' = DOMAIN bookmarks
          /\ \A a \in DOMAIN bookmarks : bookmarks'[a].post = bookmarks[a].post
      BY <1>4, <2>1 DEF With
    <2>3. \A p : Bookmarked(bookmarks', p) = Bookmarked(bookmarks, p)
      BY <2>2 DEF Bookmarked
    <2>4. \A p \in DOMAIN posts' \ gone' : p \in DOMAIN posts /\ posts'[p] = posts[p]
      BY <1>1, <1>2, <1>4
    <2> QED BY <1>1, <2>3, <2>4, CountsKept
  <1>5. CASE /\ b \notin DOMAIN bookmarks /\ posts' = Counted(PostsSaved(r), saved.post, 1)
             /\ bookmarks' = With(bookmarks, b, saved)
    <2> HIDE DEF b, saved
    <2>1. IsFiniteSet(DOMAIN bookmarks)
      BY DEF RowsOK, MarksFit
    <2>2. /\ DOMAIN bookmarks' = DOMAIN bookmarks \cup {b} /\ bookmarks'[b] = saved
          /\ \A a \in DOMAIN bookmarks : bookmarks'[a].post = bookmarks[a].post
      BY <1>5 DEF With
    <2>3. ASSUME NEW q \in DOMAIN posts' \ gone'
          PROVE  Counts(posts'[q], q, likes', views', bookmarks')
      <3>1. q \in DOMAIN posts \ gone
        BY <1>1
      <3>2. Counts(posts[q], q, likes, views, bookmarks)
        BY <3>1 DEF PostsCounted
      <3>3. /\ posts'[q].likes = posts[q].likes /\ posts'[q].views = posts[q].views
            /\ posts'[q].bookmarks = posts[q].bookmarks + IF q = saved.post THEN 1 ELSE 0
        <4>1. q \in DOMAIN PostsSaved(r) /\ PostsSaved(r)[q] = posts[q]
          BY <1>2, <3>1
        <4> QED BY <1>2, <1>5, <4>1, CountedRow
      <3>4. /\ Cardinality(Bookmarked(bookmarks, q)) \in Nat
            /\ Cardinality(Bookmarked(bookmarks', q))
                 = Cardinality(Bookmarked(bookmarks, q)) + IF bookmarks'[b].post = q THEN 1 ELSE 0
        BY <1>5, <2>1, <2>2, OneMark
      <3> QED BY <2>2, <3>2, <3>3, <3>4 DEF Counts
    <2> QED BY <2>3 DEF PostsCounted
  <1> QED BY <1>3, <1>4, <1>5 DEF PutMark, bookmarkVars

LEMMA SaveFolderCounts ==
  ASSUME RequestsOK, RowsOK, BookmarksOK, PostsCounted, NEW r \in Requests, SaveFolder(r), UNCHANGED <<likes, views>>
  PROVE  PostsCounted'
  <1> DEFINE copies == call[r].copies
             Back(p) == {b \in Lost(r) : copies[b].post = p}
             back == [p \in DOMAIN posts |-> Cardinality(Back(p))]
  <1>1. /\ copies \in Copies /\ IsFiniteSet(DOMAIN copies) /\ IsFiniteSet(DOMAIN bookmarks) /\ UNCHANGED gone
    BY AtBookmarks DEF SaveFolder, BookmarksOK, CopiesAgree, CopiesOK, RowsOK, MarksFit
  <1>2. CASE UNCHANGED <<posts, bookmarks>>
    BY <1>1, <1>2, CountsKept
  <1>3. CASE /\ bookmarks' = FolderSaved(r)
             /\ posts' = [p \in DOMAIN posts |-> [posts[p] EXCEPT !.bookmarks = @ + back[p]]]
    <2>1. DOMAIN posts' = DOMAIN posts
      BY <1>3
    <2>2. DOMAIN bookmarks' = DOMAIN bookmarks \cup Lost(r) /\ Lost(r) \cap DOMAIN bookmarks = {}
      BY <1>3 DEF FolderSaved, Lost
    <2>3. /\ \A b \in Lost(r) : bookmarks'[b] = copies[b]
          /\ \A b \in DOMAIN bookmarks : bookmarks'[b].post = bookmarks[b].post
      <3>1. \A b \in Lost(r) : bookmarks'[b] = copies[b]
        BY <1>3, <2>2 DEF FolderSaved
      <3>2. ASSUME NEW b \in DOMAIN bookmarks
            PROVE  bookmarks'[b].post = bookmarks[b].post
        <4>1. bookmarks[b] \in BookmarkRow
          BY DEF RowsOK, MarksFit, BookmarksTypeOK
        <4>2. [bookmarks[b] EXCEPT !.folder = call[r].folder].post = bookmarks[b].post
          BY <4>1 DEF BookmarkRow
        <4>3. bookmarks'[b] \in {[bookmarks[b] EXCEPT !.folder = call[r].folder], bookmarks[b]}
          BY <1>3, <2>2 DEF FolderSaved
        <4> QED BY <4>2, <4>3
      <3> QED BY <3>1, <3>2
    <2>4. ASSUME NEW p
          PROVE  Bookmarked(bookmarks', p) = Bookmarked(bookmarks, p) \cup Back(p)
      BY <2>2, <2>3 DEF Bookmarked
    <2>5. ASSUME NEW p
          PROVE  /\ Cardinality(Back(p)) \in Nat /\ Cardinality(Bookmarked(bookmarks, p)) \in Nat
                 /\ Cardinality(Bookmarked(bookmarks', p)) = Cardinality(Bookmarked(bookmarks, p)) + Cardinality(Back(p))
      <3>1. IsFiniteSet(Back(p)) /\ IsFiniteSet(Bookmarked(bookmarks, p))
        BY <1>1, FS_Subset DEF Lost, Bookmarked
      <3>2. Bookmarked(bookmarks, p) \cap Back(p) = {}
        BY <2>2 DEF Bookmarked
      <3> HIDE DEF Back
      <3>3. /\ Cardinality(Back(p)) \in Nat /\ Cardinality(Bookmarked(bookmarks, p)) \in Nat
        BY <3>1, FS_CardinalityType
      <3>4. Cardinality(Bookmarked(bookmarks, p) \cup Back(p)) = Cardinality(Bookmarked(bookmarks, p)) + Cardinality(Back(p))
        <4>1. Cardinality(Bookmarked(bookmarks, p) \cap Back(p)) = 0
          BY <3>2, FS_EmptySet
        <4>2. Cardinality(Bookmarked(bookmarks, p) \cup Back(p))
                = Cardinality(Bookmarked(bookmarks, p)) + Cardinality(Back(p))
                    - Cardinality(Bookmarked(bookmarks, p) \cap Back(p))
          BY <3>1, FS_Union
        <4> QED BY <3>3, <4>1, <4>2
      <3> QED BY <2>4, <3>3, <3>4
    <2> HIDE DEF Back, copies
    <2>6. ASSUME NEW q \in DOMAIN posts' \ gone'
          PROVE  Counts(posts'[q], q, likes', views', bookmarks')
      <3>1. Counts(posts[q], q, likes, views, bookmarks) /\ q \in DOMAIN posts /\ posts[q] \in PostRow
        BY <1>1, <2>1 DEF PostsCounted, RowsOK, PostsTypeOK
      <3>2. posts'[q] = [posts[q] EXCEPT !.bookmarks = posts[q].bookmarks + Cardinality(Back(q))]
        BY <1>3, <3>1
      <3>3. /\ posts'[q].likes = posts[q].likes /\ posts'[q].views = posts[q].views
            /\ posts'[q].bookmarks = posts[q].bookmarks + Cardinality(Back(q))
        BY <3>1, <3>2 DEF PostRow
      <3> QED BY <2>5, <3>1, <3>3 DEF Counts
    <2> QED BY <2>6 DEF PostsCounted
  <1> QED BY <1>2, <1>3 DEF SaveFolder, FolderSaved

\* The counters say how many rows there are.
LEMMA CountsStep ==
  ASSUME RequestsOK, RowsOK, BookmarksOK, CountsMatchRows, RowsOK', FollowsCounted', [Next]_vars
  PROVE  CountsMatchRows'
  <1>1. PostsCounted
    BY CountsDef
  <1>2. ASSUME UNCHANGED <<posts, likes, views, bookmarks>>, gone \subseteq gone'
        PROVE  PostsCounted'
    BY <1>1, <1>2, CountsKept
  <1>3. CASE Expire \/ UNCHANGED vars
    <2>1. UNCHANGED <<posts, likes, views, bookmarks>> /\ gone \subseteq gone'
      BY <1>3 DEF Expire, ExpireList, ExpireMarker, vars, postVars, reactionVars, bookmarkVars
    <2> QED BY <1>2, <2>1, CountsDef
  <1>4. ASSUME NEW r \in Requests, Request(r)
        PROVE  PostsCounted'
    <2>1. CASE Begins(r)
      BY <1>2, <2>1 DEF Begins, postVars, reactionVars, bookmarkVars
    <2>2. ASSUME NEW u \in Users \cup {None}, NEW p \in Post, RemovePost(r, u, p)
          PROVE  PostsCounted'
      BY <1>1, <2>2, RemoveCounts
    <2>3. CASE (PostTagsStep(r) \/ TagsStart(r)) /\ UNCHANGED <<reactionVars, bookmarkVars>>
      <3>1. UNCHANGED <<likes, views, bookmarks>>
        BY <2>3 DEF reactionVars, bookmarkVars
      <3>2. UNCHANGED posts \/ \E p \in Post : InsertPost(p, call[r].user)
        BY <2>3, TagsSteady
      <3>3. gone \subseteq gone'
        BY <2>3, TagsSteady
      <3> QED BY <1>1, <1>2, <3>1, <3>2, <3>3, InsertCounts
    <2>4. CASE (BookmarksStep(r) \/ FoldersStart(r)) /\ UNCHANGED reactionVars
      <3>1. UNCHANGED <<likes, views>>
        BY <2>4 DEF reactionVars
      <3>2. CASE FindToggled(r) \/ FindMark(r) \/ FindFolder(r) \/ LoadMark(r) \/ MoveMark(r) \/ LoadFolder(r)
                   \/ \E u \in Users : CreateFolder(r, u)
        BY <1>2, <3>1, <3>2 DEF FindToggled, FindMark, FindFolder, LoadMark, MoveMark, LoadFolder, CreateFolder,
                                postVars, bookmarkVars
      <3>3. CASE DeleteMark(r) \/ InsertMark(r) \/ SaveMark(r) \/ PutMark(r) \/ SaveFolder(r)
        BY <1>1, <3>1, <3>3, DeleteMarkCounts, InsertMarkCounts, SaveMarkCounts, PutMarkCounts, SaveFolderCounts
      <3>4. ASSUME NEW u \in Users, NEW f \in Folder, DeleteFolder(r, u, f)
            PROVE  PostsCounted'
        <4>1. UNCHANGED posts /\ gone \subseteq gone'
              /\ bookmarks' = [b \in DOMAIN bookmarks |->
                                 IF bookmarks[b].folder = f THEN [bookmarks[b] EXCEPT !.folder = None] ELSE bookmarks[b]]
          BY <3>4 DEF DeleteFolder
        <4>2. ASSUME NEW b \in DOMAIN bookmarks
              PROVE  bookmarks'[b].post = bookmarks[b].post
          <5>1. bookmarks[b] \in BookmarkRow
            BY DEF RowsOK, MarksFit, BookmarksTypeOK
          <5>2. [bookmarks[b] EXCEPT !.folder = None].post = bookmarks[b].post
            BY <5>1 DEF BookmarkRow
          <5> QED BY <4>1, <5>2
        <4>3. \A p : Bookmarked(bookmarks', p) = Bookmarked(bookmarks, p)
          BY <4>1, <4>2 DEF Bookmarked
        <4> QED BY <1>1, <3>1, <4>1, <4>3, CountsKept
      <3> QED BY <2>4, <3>2, <3>3, <3>4 DEF BookmarksStep, FoldersStart
    <2>5. CASE (Notify(r) \/ NotificationsStart(r)) /\ UNCHANGED <<reactionVars, bookmarkVars>>
      BY <1>2, <2>5 DEF Notify, NotificationsStart, MarkAsRead, MarkAllAsRead, postVars, reactionVars, bookmarkVars
    <2>6. CASE ModerationStep(r) /\ UNCHANGED <<reactionVars, bookmarkVars>>
      <3>1. UNCHANGED <<likes, views, bookmarks>>
        BY <2>6 DEF reactionVars, bookmarkVars
      <3>2. Decide(r) \/ UNCHANGED <<posts, gone>>
        BY <2>6 DEF ModerationStep, FindReported, InsertReport, LockPost, postVars
      <3> QED BY <1>1, <1>2, <3>1, <3>2, DecideCounts
    <2>7. CASE ReactionsStep(r) /\ UNCHANGED bookmarkVars
      <3>1. UNCHANGED bookmarks
        BY <2>7 DEF bookmarkVars
      <3>2. InsertLike(r) \/ DeleteLike(r) \/ InsertView(r) \/ UNCHANGED <<posts, gone, likes, views>>
        BY <2>7 DEF ReactionsStep, CheckLike, FindView, MarkViewed, InsertComment, FindComment, SaveComment,
                    DeleteComment, postVars, reactionVars
      <3> QED BY <1>1, <1>2, <3>1, <3>2, LikesCounts
    <2>8. CASE FollowsStep(r) /\ UNCHANGED <<reactionVars, bookmarkVars>>
      BY <1>2, <2>8 DEF FollowsStep, CheckFollow, InsertFollow, DeleteFollow, postVars, reactionVars, bookmarkVars
    <2>9. CASE Common(r)
      BY <1>2, <2>9 DEF Common, FindPost, FindOpenPost, postVars, reactionVars, bookmarkVars
    <2> QED BY <1>4, <2>1, <2>2, <2>3, <2>4, <2>5, <2>6, <2>7, <2>8, <2>9, StepCases DEF Proceed
  <1> QED BY <1>3, <1>4, CountsDef DEF Next

-----------------------------------------------------------------------------
(* Tags.                                                                   *)

\* The names post p has by the rows g of posts_to_tags and the rows t of tags.
NamesOf(g, t, p) == {t[k] : k \in {k \in DOMAIN t : <<p, k>> \in g}}

IdsOf(c) == {x.id : x \in c.found}

\* The rows a request with c for its locals attaches.
Given(c) == {c.post} \X IdsOf(c)

LEMMA TagsDef ==
  /\ TagsOK <=>
       /\ \A r \in Requests : Writing(todo[r], call[r]) => FoundOK(call[r])
       /\ \A r \in Requests : At(r, "detach") /\ asked[call[r].post] = r => Given(call[r]) \subseteq tagged
       /\ \A p \in DOMAIN posts \ gone :
            asked[p] \notin {None} \cup Requests => NamesOf(tagged, tags, p) = asked[p]
  /\ TagsOK' <=>
       /\ \A r \in Requests : Writing(todo'[r], call'[r]) => FoundOK(call'[r])
       /\ \A r \in Requests : At(r, "detach")' /\ asked'[call'[r].post] = r => Given(call'[r]) \subseteq tagged'
       /\ \A p \in DOMAIN posts' \ gone' :
            asked'[p] \notin {None} \cup Requests => NamesOf(tagged', tags', p) = asked'[p]
  <1>1. /\ \A r : {call[r].post} \X Ids(r) = Given(call[r])
        /\ \A r : ({call[r].post} \X Ids(r))' = Given(call'[r])
    BY DEF Given, Ids, IdsOf
  <1>2. TagsAsAsked <=> \A p \in DOMAIN posts \ gone :
           asked[p] \notin {None} \cup Requests => NamesOf(tagged, tags, p) = asked[p]
    BY DEF TagsAsAsked, TagsOf, NamesOf
  <1>3. TagsAsAsked' <=> \A p \in DOMAIN posts' \ gone' :
           asked'[p] \notin {None} \cup Requests => NamesOf(tagged', tags', p) = asked'[p]
    BY DEF TagsAsAsked, TagsOf, NamesOf
  <1>4. \A r \in Requests : /\ (Writing(todo[r], call[r]) => FoundOK(call[r]))'
                               <=> (Writing(todo'[r], call'[r]) => FoundOK(call'[r]))
    BY DEF Writing, CreatingPost, UpdatingPost, FoundOK
  <1> QED BY <1>1, <1>2, <1>3, <1>4 DEF TagsOK

\* No other request loses what it has attached, and the names a post was given
\* are those it has.
LEMMA TagsKept ==
  ASSUME RequestsOK, TagsOK, NEW r \in Requests, Moved(r), gone \subseteq gone',
         Writing(todo'[r], call'[r]) => FoundOK(call'[r]),
         todo'[r] = <<"detach">> /\ asked'[call'[r].post] = r => Given(call'[r]) \subseteq tagged',
         \A p \in Post : \A q \in Requests \ {r} : asked'[p] = q =>
           asked[p] = q /\ \A t : <<p, t>> \in tagged => <<p, t>> \in tagged',
         \A p \in DOMAIN posts' \ gone' : asked'[p] \notin {None} \cup Requests =>
           \/ NamesOf(tagged', tags', p) = asked'[p]
           \/ p \in DOMAIN posts /\ asked'[p] = asked[p] /\ NamesOf(tagged', tags', p) = NamesOf(tagged, tags, p)
  PROVE  TagsOK'
  <1>1. ASSUME NEW q \in Requests
        PROVE  Writing(todo'[q], call'[q]) => FoundOK(call'[q])
    <2>1. CASE q = r
      BY <2>1
    <2>2. CASE q # r
      BY <2>2, Alone, TagsDef
    <2> QED BY <2>1, <2>2
  <1>2. ASSUME NEW q \in Requests, At(q, "detach")', asked'[call'[q].post] = q
        PROVE  Given(call'[q]) \subseteq tagged'
    <2>1. CASE q = r
      <3>1. todo'[r] = <<"detach">>
        BY <1>2, <2>1, HeadOf DEF At, Moved
      <3> QED BY <1>2, <2>1, <3>1
    <2>2. CASE q # r
      <3>1. At(q, "detach") /\ call'[q] = call[q]
        BY <1>2, <2>2, Alone DEF At
      <3>2. call[q].post \in Post
        BY <3>1, AtTags DEF UpdatingPost
      <3>3. asked[call[q].post] = q /\ \A t : <<call[q].post, t>> \in tagged => <<call[q].post, t>> \in tagged'
        BY <1>2, <2>2, <3>1, <3>2
      <3>4. Given(call[q]) \subseteq tagged
        BY <3>1, <3>3, TagsDef
      <3> QED BY <3>1, <3>3, <3>4 DEF Given
    <2> QED BY <2>1, <2>2
  <1>3. ASSUME NEW p \in DOMAIN posts' \ gone', asked'[p] \notin {None} \cup Requests
        PROVE  NamesOf(tagged', tags', p) = asked'[p]
    BY <1>3, TagsDef
  <1> QED BY <1>1, <1>2, <1>3, TagsDef

\* Who is elsewhere writes no post.
Tagging == {"insertPost", "findTag", "insertTag", "findTagAgain", "findOwn", "attach", "detach"}

Untagged(t) == t = <<>> \/ Head(t) \notin Tagging

LEMMA NotWriting ==
  ASSUME NEW t, NEW c, Untagged(t)
  PROVE  ~Writing(t, c) /\ t # <<"detach">>
  BY DEF Untagged, Tagging, Writing, CreatingPost, UpdatingPost

\* The request does not concern itself with tags.
LEMMA TagsAside ==
  ASSUME RequestsOK, TagsOK, NEW r \in Requests, Moved(r), Untagged(todo'[r]),
         UNCHANGED <<tags, tagged, asked>>, gone \subseteq gone', DOMAIN posts' \subseteq DOMAIN posts \cup gone
  PROVE  TagsOK'
  <1>1. ~Writing(todo'[r], call'[r]) /\ todo'[r] # <<"detach">>
    BY NotWriting
  <1> QED BY <1>1, TagsKept

\* It goes on writing its post, and knows what it has found.
LEMMA TagsOnward ==
  ASSUME RequestsOK, TagsOK, NEW r \in Requests, Moved(r), UNCHANGED <<posts, gone, tags, tagged, asked>>,
         Writing(todo'[r], call'[r]) => FoundOK(call'[r]), todo'[r] # <<"detach">>
  PROVE  TagsOK'
  BY TagsKept

LEMMA RememberedFound ==
  ASSUME NEW r, NEW rest \in Rests, WriteOK(rest, call[r]), NEW t \in Tags, NEW n \in call[r].names, FoundOK(call[r])
  PROVE  FoundOK(Remember(r, t, n))
  <1>1. n \in TagNames
    BY DEF WriteOK, WriteLocals
  <1> DEFINE c == call[r]
             d == Remember(r, t, n)
  <1>2. /\ d.names = c.names \ {n} /\ d.wants = c.wants
        /\ d.found = c.found \cup {[id |-> t, name |-> n]}
    BY <1>1, TagRemembered
  <1>3. c.names \subseteq c.wants /\ {x.name : x \in c.found} = c.wants \ c.names
    BY DEF FoundOK
  <1> HIDE DEF c, d
  <1>4. {x.name : x \in d.found} = {x.name : x \in c.found} \cup {n}
    <2> DEFINE e == [id |-> t, name |-> n]
    <2>1. d.found = c.found \cup {e} /\ e.name = n
      BY <1>2
    <2> HIDE DEF e
    <2>2. \A x \in d.found : x \in c.found \/ x.name = n
      BY <2>1
    <2> QED BY <2>1, <2>2
  <1> QED BY <1>2, <1>3, <1>4 DEF FoundOK, c, d

\* The next name is looked up.
LEMMA NameTags ==
  ASSUME RequestsOK, RowsOK, TagsOK, NEW r \in Requests, NEW t \in Tags, NEW n \in call[r].names,
         At(r, "findTag") \/ At(r, "insertTag") \/ At(r, "findTagAgain"), NextName(r, Remember(r, t, n))
  PROVE  Moved(r) /\ FoundOK(call'[r]) /\ todo'[r] # <<"detach">>
  <1>1. Tail(todo[r]) \in Rests /\ WriteOK(Tail(todo[r]), call[r])
    BY AtName
  <1>2. n \in TagNames
    BY <1>1 DEF WriteOK, WriteLocals
  <1>3. FoundOK(call[r])
    BY AtTags, TagsDef
  <1>4. FoundOK(Remember(r, t, n)) /\ WriteOK(Tail(todo[r]), Remember(r, t, n))
    BY <1>1, <1>2, <1>3, RememberedFound, TagRemembered
  <1> QED BY <1>1, <1>4, NextNameMoves

LEMMA FindTagTags ==
  ASSUME RequestsOK, RowsOK, TagsOK, NEW r \in Requests, FindTag(r) \/ FindTagAgain(r)
  PROVE  TagsOK'
  <1>1. UNCHANGED <<posts, gone, tags, tagged, asked>>
    BY DEF FindTag, FindTagAgain, postVars, tagVars
  <1>2. At(r, "findTag") \/ At(r, "findTagAgain")
    BY DEF FindTag, FindTagAgain
  <1>3. /\ Tail(todo[r]) \in Rests /\ WriteOK(Tail(todo[r]), call[r]) /\ FoundOK(call[r])
        /\ At(r, "findTagAgain") => call[r].tag \in call[r].names
    BY <1>2, AtName, AtTags, TagsDef
  <1>4. \A n : TagNamed(n) \subseteq Tags
    BY DEF TagNamed, RowsOK, TagsFit, PostTagsTypeOK
  <1>5. \/ \E n \in call[r].names : \E t \in Tags : NextName(r, Remember(r, t, n))
        \/ \E n \in call[r].names : Go(r, <<"insertTag">> \o Tail(todo[r]), [call[r] EXCEPT !.tag = n])
        \/ Quit(r)
    BY <1>3, <1>4 DEF FindTag, FindTagAgain
  <1>6. ASSUME NEW n \in call[r].names, NEW t \in Tags, NextName(r, Remember(r, t, n))
        PROVE  TagsOK'
    BY <1>1, <1>2, <1>6, NameTags, TagsOnward
  <1>7. ASSUME NEW n \in call[r].names, Go(r, <<"insertTag">> \o Tail(todo[r]), [call[r] EXCEPT !.tag = n])
        PROVE  TagsOK'
    <2> DEFINE c == [call[r] EXCEPT !.tag = n]
    <2>1. /\ WriteOK(Tail(todo[r]), c) /\ c.tag = n /\ c.names = call[r].names
          /\ c.wants = call[r].wants /\ c.found = call[r].found
      BY <1>3 DEF WriteOK, WriteLocals
    <2>2. Go(r, <<"insertTag">> \o Tail(todo[r]), c)
      BY <1>7
    <2> HIDE DEF c
    <2>3. FoundOK(c)
      BY <1>3, <2>1 DEF FoundOK
    <2> DEFINE t == <<"insertTag">> \o Tail(todo[r])
    <2>5. Shape(t, c) /\ t \notin {<<>>, <<"detach">>}
      BY <1>3, <2>1, WriteShape
    <2>6. Go(r, t, c)
      BY <2>2
    <2> HIDE DEF t
    <2>4. Moved(r) /\ call'[r] = c /\ todo'[r] # <<"detach">>
      BY <2>5, <2>6, MoveOn
    <2> QED BY <1>1, <2>3, <2>4, TagsOnward
  <1>8. CASE Quit(r)
    <2>1. Moved(r) /\ Untagged(todo'[r])
      BY <1>8, MoveOut DEF Untagged
    <2> QED BY <1>1, <2>1, TagsAside
  <1> QED BY <1>5, <1>6, <1>7, <1>8

\* A tag nobody has yet.
LEMMA NewTagNames ==
  ASSUME RowsOK, NEW t \in Fresh(Tags, tags), NEW n
  PROVE  \A p : NamesOf(tagged, With(tags, t, n), p) = NamesOf(tagged, tags, p)
  <1>1. \A p : <<p, t>> \notin tagged
    BY DEF RowsOK, TagsFit, PostTagsTypeOK, Fresh
  <1>2. PICK w : w = With(tags, t, n)
    OBVIOUS
  <1>3. DOMAIN w = DOMAIN tags \cup {t} /\ \A k \in DOMAIN tags : k # t => w[k] = tags[k]
    BY <1>2 DEF With
  <1>4. t \notin DOMAIN tags
    BY DEF Fresh
  <1>5. ASSUME NEW p
        PROVE  NamesOf(tagged, w, p) = NamesOf(tagged, tags, p)
    <2>1. {k \in DOMAIN w : <<p, k>> \in tagged} = {k \in DOMAIN tags : <<p, k>> \in tagged}
      BY <1>1, <1>3
    <2> QED BY <1>3, <1>4, <2>1 DEF NamesOf
  <1> QED BY <1>2, <1>5

LEMMA InsertTagTags ==
  ASSUME RequestsOK, RowsOK, TagsOK, NEW r \in Requests, InsertTag(r)
  PROVE  TagsOK'
  <1>1. UNCHANGED <<posts, gone, tagged, asked>> /\ At(r, "insertTag")
    BY DEF InsertTag, postVars
  <1>2. /\ Tail(todo[r]) \in Rests /\ WriteOK(Tail(todo[r]), call[r]) /\ FoundOK(call[r])
        /\ call[r].tag \in call[r].names
    BY <1>1, AtName, AtTags, TagsDef
  <1>3. ASSUME NEW t \in Fresh(Tags, tags), tags' = With(tags, t, call[r].tag), NextName(r, Remember(r, t, call[r].tag))
        PROVE  TagsOK'
    <2>1. Moved(r) /\ FoundOK(call'[r]) /\ todo'[r] # <<"detach">>
      BY <1>1, <1>2, <1>3, NameTags DEF Fresh
    <2>2. \A p : NamesOf(tagged', tags', p) = NamesOf(tagged, tags, p)
      BY <1>1, <1>3, NewTagNames
    <2> QED BY <1>1, <2>1, <2>2, TagsKept
  <1>4. CASE Go(r, <<"findTagAgain">> \o Tail(todo[r]), call[r]) /\ UNCHANGED tags
    <2>1. Moved(r) /\ call'[r] = call[r] /\ todo'[r] # <<"detach">>
      BY <1>2, <1>4, WriteShape, MoveOn
    <2> QED BY <1>1, <1>2, <1>4, <2>1, TagsOnward
  <1> QED BY <1>3, <1>4 DEF InsertTag

\* What has been settled is what was asked for.
LEMMA SettledNames ==
  ASSUME NEW c, NEW g, NEW t, NEW p, FoundOK(c), c.names = {},
         \A x \in c.found : x.id \in DOMAIN t /\ t[x.id] = x.name,
         \A k \in DOMAIN t : <<p, k>> \in g <=> k \in IdsOf(c)
  PROVE  NamesOf(g, t, p) = c.wants
  <1>1. {k \in DOMAIN t : <<p, k>> \in g} = IdsOf(c)
    BY DEF IdsOf
  <1>2. NamesOf(g, t, p) = {t[k] : k \in IdsOf(c)}
    BY <1>1 DEF NamesOf
  <1>3. {t[k] : k \in IdsOf(c)} = {x.name : x \in c.found}
    BY DEF IdsOf
  <1> QED BY <1>2, <1>3 DEF FoundOK

\* Tags that are saved with a post change nothing for others.
LEMMA SavedNames ==
  ASSUME RowsOK, NEW r, call[r].found \subseteq [id : Tags, name : TagNames]
  PROVE  \A p, q : q # p => NamesOf(tagged \cup ({p} \X Ids(r)), TagsSaved(r), q) = NamesOf(tagged, tags, q)
  <1>1. PICK w : w = TagsSaved(r)
    OBVIOUS
  <1>2. DOMAIN tags \subseteq DOMAIN w /\ \A k \in DOMAIN tags : w[k] = tags[k]
    BY <1>1, SavedTags
  <1>3. ASSUME NEW p, NEW q, q # p
        PROVE  NamesOf(tagged \cup ({p} \X Ids(r)), w, q) = NamesOf(tagged, tags, q)
    <2>1. PICK g : g = tagged \cup ({p} \X Ids(r))
      OBVIOUS
    <2>2. \A k : <<q, k>> \in g <=> <<q, k>> \in tagged
      BY <1>3, <2>1
    <2>3. \A k : <<q, k>> \in tagged => k \in DOMAIN tags
      BY DEF RowsOK, TagsFit, PostTagsTypeOK
    <2>4. {k \in DOMAIN w : <<q, k>> \in g} = {k \in DOMAIN tags : <<q, k>> \in tagged}
      BY <1>2, <2>2, <2>3
    <2> QED BY <1>2, <2>1, <2>4 DEF NamesOf
  <1> QED BY <1>1, <1>3

\* What a post is given by Settle is no request.
LEMMA Settled ==
  ASSUME RowsOK, NEW r \in Requests, call[r].wants \subseteq TagNames, NEW p \in Post, NEW t, Settle(r, p, t)
  PROVE  /\ \A q \in Post \ {p} : asked'[q] = asked[q]
         /\ asked'[p] \notin Requests
         /\ asked'[p] # None =>
              /\ asked'[p] = call[r].wants
              /\ \A x \in call[r].found : x.id \in DOMAIN t /\ t[x.id] = x.name
  <1>1. asked' = [asked EXCEPT ![p] = IF \A x \in call[r].found : <<x.id, x.name>> \in Named(t)
                                      THEN call[r].wants ELSE None]
    BY DEF Settle
  <1>2. DOMAIN asked = Post
    BY DEF RowsOK, TagsFit
  <1>3. None \notin Requests /\ call[r].wants \notin Requests \cup {None}
    BY PostTagsAssumption
  <1>4. \A x \in call[r].found : <<x.id, x.name>> \in Named(t) => x.id \in DOMAIN t /\ t[x.id] = x.name
    BY DEF Named
  <1> QED BY <1>1, <1>2, <1>3, <1>4

LEMMA InsertPostTags ==
  ASSUME RequestsOK, RowsOK, TagsOK, NEW r \in Requests, InsertTaggedPost(r)
  PROVE  TagsOK'
  <1>1. Moved(r) /\ Untagged(todo'[r]) /\ todo'[r] # <<"detach">> /\ ~Writing(todo'[r], call'[r])
    BY MoveOut, NotWriting DEF InsertTaggedPost, Untagged
  <1>2. CASE UNCHANGED <<postVars, tags, tagged, asked>>
    BY <1>1, <1>2, TagsAside DEF postVars
  <1>3. ASSUME NEW p \in Post, InsertPost(p, call[r].user), Ids(r) \subseteq DOMAIN TagsSaved(r),
               tags' = TagsSaved(r), tagged' = tagged \cup ({p} \X Ids(r)), Settle(r, p, TagsSaved(r))
        PROVE  TagsOK'
    <2>1. At(r, "insertPost")
      BY DEF InsertTaggedPost
    <2>2. call[r] \in WriteLocals /\ call[r].names = {} /\ FoundOK(call[r])
      BY <2>1, AtTags, TagsDef DEF Writing, CreatingPost
    <2>3. call[r].found \subseteq [id : Tags, name : TagNames] /\ call[r].wants \subseteq TagNames
      BY <2>2 DEF WriteLocals
    <2>4. /\ DOMAIN posts' = DOMAIN posts \cup {p} /\ p \notin DOMAIN posts \cup gone /\ UNCHANGED gone
      BY <1>3, InsertSteady
    <2>5. /\ \A q \in Post \ {p} : asked'[q] = asked[q]
          /\ asked'[p] \notin Requests
          /\ asked'[p] # None =>
               /\ asked'[p] = call[r].wants
               /\ \A x \in call[r].found : x.id \in DOMAIN tags' /\ tags'[x.id] = x.name
      BY <1>3, <2>3, Settled
    <2>6. \A q : q # p => NamesOf(tagged', tags', q) = NamesOf(tagged, tags, q)
      <3>1. \A q : q # p => NamesOf(tagged', TagsSaved(r), q) = NamesOf(tagged, tags, q)
        BY <1>3, <2>3, SavedNames
      <3> QED BY <1>3, <3>1
    <2>7. asked'[p] # None => NamesOf(tagged', tags', p) = asked'[p]
      <3>1. \A k : <<p, k>> \notin tagged
        BY <2>4 DEF RowsOK, TagsFit, PostTagsTypeOK
      <3>2. \A k : <<p, k>> \in tagged' <=> k \in IdsOf(call[r])
        BY <1>3, <3>1 DEF Ids, IdsOf
      <3> QED BY <2>2, <2>5, <3>2, SettledNames
    <2>8. \A q \in DOMAIN posts' : q \in Post
      BY <2>4 DEF RowsOK, PostsTypeOK
    <2>9. \A q \in DOMAIN posts' \ gone' : asked'[q] \notin {None} \cup Requests =>
            \/ NamesOf(tagged', tags', q) = asked'[q]
            \/ q \in DOMAIN posts /\ asked'[q] = asked[q] /\ NamesOf(tagged', tags', q) = NamesOf(tagged, tags, q)
      BY <2>4, <2>5, <2>6, <2>7, <2>8
    <2>10. \A q \in Post : \A x \in Requests \ {r} : asked'[q] = x =>
             asked[q] = x /\ \A t : <<q, t>> \in tagged => <<q, t>> \in tagged'
      BY <1>3, <2>5
    <2> QED BY <1>1, <2>4, <2>9, <2>10, TagsKept
  <1> QED BY <1>2, <1>3 DEF InsertTaggedPost

LEMMA AttachTags ==
  ASSUME RequestsOK, RowsOK, TagsOK, NEW r \in Requests, Attach(r)
  PROVE  TagsOK'
  <1> DEFINE p == call[r].post
  <1>1. UNCHANGED <<posts, gone>> /\ At(r, "attach")
    BY DEF Attach, postVars
  <1>2. /\ call[r] \in WriteLocals /\ p \in Post /\ call[r].names = {} /\ FoundOK(call[r])
        /\ todo[r] = <<"attach", "detach">>
    BY <1>1, AtTags, TagsDef DEF Writing, UpdatingPost
  <1>3. CASE Quit(r) /\ UNCHANGED <<tags, tagged, asked>>
    <2>1. Moved(r) /\ Untagged(todo'[r])
      BY <1>3, MoveOut DEF Untagged
    <2> QED BY <1>1, <1>3, <2>1, TagsAside
  <1>4. CASE /\ tags' = TagsSaved(r) /\ tagged' = tagged \cup ({p} \X Ids(r))
             /\ asked' = [asked EXCEPT ![p] = r] /\ Advance(r)
    <2>1. Go(r, <<"detach">>, call[r])
      BY <1>2, <1>4, Tail2 DEF Advance, AdvanceWith
    <2>2. Shape(<<"detach">>, call[r]) /\ <<"detach">> # <<>>
      BY <1>2 DEF Shape, UpdatingPost
    <2>3. Moved(r) /\ call'[r] = call[r]
      BY <2>1, <2>2, MoveOn
    <2>4. Given(call[r]) \subseteq tagged'
      BY <1>4 DEF Given, Ids, IdsOf
    <2>5. call[r].found \subseteq [id : Tags, name : TagNames]
      BY <1>2 DEF WriteLocals
    <2>6. \A q : q # p => NamesOf(tagged', tags', q) = NamesOf(tagged, tags, q)
      <3>1. \A q : q # p => NamesOf(tagged', TagsSaved(r), q) = NamesOf(tagged, tags, q)
        BY <1>4, <2>5, SavedNames
      <3> QED BY <1>4, <3>1
    <2>7. asked'[p] = r /\ \A q \in Post \ {p} : asked'[q] = asked[q]
      BY <1>2, <1>4 DEF RowsOK, TagsFit
    <2>8. \A q \in Post : \A x \in Requests \ {r} : asked'[q] = x =>
             asked[q] = x /\ \A t : <<q, t>> \in tagged => <<q, t>> \in tagged'
      BY <1>4, <2>7
    <2>9. \A q \in DOMAIN posts' \ gone' : asked'[q] \notin {None} \cup Requests =>
             q \in DOMAIN posts /\ asked'[q] = asked[q] /\ NamesOf(tagged', tags', q) = NamesOf(tagged, tags, q)
      <3>1. \A q \in DOMAIN posts : q \in Post
        BY DEF RowsOK, PostsTypeOK
      <3> QED BY <1>1, <2>6, <2>7, <3>1
    <2> HIDE DEF p
    <2> QED BY <1>1, <1>2, <2>3, <2>4, <2>8, <2>9, TagsKept
  <1> QED BY <1>3, <1>4 DEF Attach

LEMMA DetachTags ==
  ASSUME RequestsOK, RowsOK, TagsOK, NEW r \in Requests, Detach(r)
  PROVE  TagsOK'
  <1> DEFINE p == call[r].post
  <1>1. UNCHANGED <<posts, gone, tags>> /\ At(r, "detach") /\ tagged' = {x \in tagged : x[1] = p => x[2] \in Ids(r)}
    BY DEF Detach, postVars
  <1>2. call[r] \in WriteLocals /\ p \in Post /\ call[r].names = {} /\ FoundOK(call[r])
    BY <1>1, AtTags, TagsDef DEF Writing, UpdatingPost
  <1>3. call[r].wants \subseteq TagNames
    BY <1>2 DEF WriteLocals
  <1>4. Moved(r) /\ Untagged(todo'[r]) /\ todo'[r] # <<"detach">> /\ ~Writing(todo'[r], call'[r])
    BY MoveOut, NotWriting DEF Detach, Untagged
  <1>5. \A q, t : q # p => (<<q, t>> \in tagged <=> <<q, t>> \in tagged')
    BY <1>1
  <1>6. \A q : q # p => NamesOf(tagged', tags', q) = NamesOf(tagged, tags, q)
    BY <1>1, <1>5 DEF NamesOf
  <1>7. /\ \A q \in Post \ {p} : asked'[q] = asked[q]
        /\ asked'[p] \notin Requests
        /\ asked'[p] # None => NamesOf(tagged', tags', p) = asked'[p]
    <2>1. CASE asked[p] = r
      <3>1. Settle(r, p, tags)
        BY <2>1 DEF Detach
      <3>2. /\ \A q \in Post \ {p} : asked'[q] = asked[q]
            /\ asked'[p] \notin Requests
            /\ asked'[p] # None =>
                 /\ asked'[p] = call[r].wants
                 /\ \A x \in call[r].found : x.id \in DOMAIN tags /\ tags[x.id] = x.name
        BY <1>2, <1>3, <3>1, Settled
      <3>3. Given(call[r]) \subseteq tagged
        BY <1>1, <2>1, TagsDef
      <3>4. \A k : <<p, k>> \in tagged' <=> k \in IdsOf(call[r])
        BY <1>1, <3>3 DEF Given, Ids, IdsOf
      <3>5. asked'[p] # None => NamesOf(tagged', tags', p) = asked'[p]
        BY <1>1, <1>2, <3>2, <3>4, SettledNames
      <3> QED BY <3>2, <3>5
    <2>2. CASE asked[p] # r
      <3>1. asked' = [asked EXCEPT ![p] = None]
        BY <2>2 DEF Detach
      <3> QED BY <1>2, <3>1, PostTagsAssumption DEF RowsOK, TagsFit
    <2> QED BY <2>1, <2>2
  <1>8. \A q \in Post : \A x \in Requests \ {r} : asked'[q] = x =>
          asked[q] = x /\ \A t : <<q, t>> \in tagged => <<q, t>> \in tagged'
    BY <1>5, <1>7
  <1>9. \A q \in DOMAIN posts' \ gone' : asked'[q] \notin {None} \cup Requests =>
          \/ NamesOf(tagged', tags', q) = asked'[q]
          \/ q \in DOMAIN posts /\ asked'[q] = asked[q] /\ NamesOf(tagged', tags', q) = NamesOf(tagged, tags, q)
    <2>1. \A q \in DOMAIN posts : q \in Post
      BY DEF RowsOK, PostsTypeOK
    <2> QED BY <1>1, <1>6, <1>7, <2>1
  <1> QED BY <1>1, <1>4, <1>8, <1>9, TagsKept

\* A post is deleted, with its tags.
LEMMA RemoveTags ==
  ASSUME RequestsOK, RowsOK, TagsOK, NEW r \in Requests, NEW u, NEW p \in Post, RemovePost(r, u, p)
  PROVE  TagsOK'
  <1>1. /\ posts' = Without(posts, {p}) /\ gone \subseteq gone' /\ UNCHANGED <<tags, todo, call>> /\ todo[r] = <<>>
        /\ tagged' = {x \in tagged : x[1] # p} /\ asked' = [asked EXCEPT ![p] = None]
    BY DEF RemovePost, AtOnce, requestVars, DeletePost, CascadeTagged
  <1>2. Moved(r) /\ ~Writing(todo'[r], call'[r]) /\ todo'[r] # <<"detach">>
    BY <1>1, MoveNot, NotWriting DEF Untagged
  <1>3. DOMAIN posts' = DOMAIN posts \ {p}
    BY <1>1 DEF Without
  <1>4. \A q, t : q # p => (<<q, t>> \in tagged <=> <<q, t>> \in tagged')
    BY <1>1
  <1>5. \A q : q # p => NamesOf(tagged', tags', q) = NamesOf(tagged, tags, q)
    BY <1>1, <1>4 DEF NamesOf
  <1>6. asked'[p] = None /\ \A q \in Post \ {p} : asked'[q] = asked[q]
    BY <1>1 DEF RowsOK, TagsFit
  <1>7. \A q \in Post : \A x \in Requests \ {r} : asked'[q] = x =>
          asked[q] = x /\ \A t : <<q, t>> \in tagged => <<q, t>> \in tagged'
    BY <1>4, <1>6, PostTagsAssumption
  <1>8. \A q \in DOMAIN posts' \ gone' : asked'[q] \notin {None} \cup Requests =>
          q \in DOMAIN posts /\ asked'[q] = asked[q] /\ NamesOf(tagged', tags', q) = NamesOf(tagged, tags, q)
    <2>1. \A q \in DOMAIN posts : q \in Post
      BY DEF RowsOK, PostsTypeOK
    <2> QED BY <1>3, <1>5, <1>6, <2>1
  <1> QED BY <1>1, <1>2, <1>7, <1>8, TagsKept

\* Tags come and go by themselves.
LEMMA StartTags ==
  ASSUME RequestsOK, RowsOK, TagsOK, NEW r \in Requests, todo[r] = <<>>, TagsStart(r)
  PROVE  TagsOK'
  <1>1. Moved(r) /\ todo'[r] = <<>>
    BY AtOnceMoves
  <1>2. ~Writing(todo'[r], call'[r]) /\ todo'[r] # <<"detach">>
    BY <1>1, NotWriting DEF Untagged
  <1>3. ASSUME NEW n \in TagNames, CreateTag(r, n)
        PROVE  TagsOK'
    <2>1. PICK t \in Fresh(Tags, tags) : tags' = With(tags, t, n)
      BY <1>3 DEF CreateTag
    <2>2. UNCHANGED <<posts, gone, tagged, asked>>
      BY <1>3 DEF CreateTag, postVars
    <2>3. \A p : NamesOf(tagged', tags', p) = NamesOf(tagged, tags, p)
      BY <2>1, <2>2, NewTagNames
    <2> QED BY <1>1, <1>2, <2>2, <2>3, TagsKept
  <1>4. CASE asked' = [p \in Post |-> None] /\ UNCHANGED posts /\ gone \subseteq gone'
    <2>1. \A p \in Post : asked'[p] = None
      BY <1>4
    <2>2. \A p \in Post : \A q \in Requests \ {r} : asked'[p] # q
      BY <2>1, PostTagsAssumption
    <2>3. \A p \in DOMAIN posts' \ gone' : asked'[p] = None
      BY <1>4, <2>1 DEF RowsOK, PostsTypeOK
    <2> QED BY <1>1, <1>2, <1>4, <2>2, <2>3, TagsKept
  <1>5. ASSUME ~\E n \in TagNames : CreateTag(r, n)
        PROVE  asked' = [p \in Post |-> None] /\ UNCHANGED posts /\ gone \subseteq gone'
    BY <1>5 DEF TagsStart, UpdateTag, DeleteTag, TagsChange, postVars
  <1> QED BY <1>3, <1>4, <1>5

LEMMA PostTagsTags ==
  ASSUME RequestsOK, RowsOK, TagsOK, NEW r \in Requests, PostTagsStep(r)
  PROVE  TagsOK'
  <1>1. CASE FindOwn(r)
    <2>1. /\ UNCHANGED <<posts, gone, tags, tagged, asked>> /\ At(r, "findOwn")
          /\ Go(r, Tail(todo[r]), call[r]) \/ Quit(r)
      BY <1>1 DEF FindOwn, Check, Advance, AdvanceWith, postVars, tagVars
    <2>2. UpdatingPost(todo[r], call[r]) /\ call[r].names = {} /\ FoundOK(call[r])
      BY <2>1, AtTags, TagsDef DEF Writing
    <2>3. Tail(todo[r]) = <<"attach", "detach">>
      <3>1. todo[r] = <<"findOwn", "attach", "detach">>
        BY <2>1, AtTags
      <3> QED BY <3>1, Tail3
    <2>4. CASE Quit(r)
      <3>1. Moved(r) /\ Untagged(todo'[r])
        BY <2>4, MoveOut DEF Untagged
      <3> QED BY <2>1, <3>1, TagsAside
    <2>5. CASE Go(r, <<"attach", "detach">>, call[r])
      <3>1. Shape(<<"attach", "detach">>, call[r]) /\ <<"attach", "detach">> # <<>>
        BY <2>2 DEF Shape, UpdatingPost
      <3>2. Moved(r) /\ call'[r] = call[r] /\ todo'[r] = <<"attach", "detach">>
        BY <2>5, <3>1, MoveOn
      <3> QED BY <2>1, <2>2, <3>2, TagsOnward
    <2> QED BY <2>1, <2>3, <2>4, <2>5
  <1>2. CASE LookUp(r) \/ Query(r) \/ Store(r)
    <2>1. UNCHANGED <<posts, gone, tags, tagged, asked>>
      BY <1>2 DEF LookUp, Query, Store, postVars, tagVars
    <2>2. /\ LookUp(r) => todo'[r] \in {<<>>, <<"query", "store">>}
          /\ Query(r) => todo'[r] = <<"store">>
          /\ Store(r) => todo'[r] = <<>>
      <3>1. ASSUME LookUp(r)
            PROVE  todo'[r] \in {<<>>, <<"query", "store">>}
        <4>1. todo'[r] \in {<<>>, Tail(todo[r])}
          BY <3>1, MoveAlong DEF LookUp, Check, At, Reads
        <4>2. todo[r] = <<"lookUp", "query", "store">>
          BY <3>1, AtTags DEF LookUp
        <4> QED BY <4>1, <4>2, Tail3
      <3>2. ASSUME Query(r)
            PROVE  todo'[r] = <<"store">>
        <4>1. todo[r] = <<"query", "store">>
          BY <3>2, AtTags DEF Query
        <4>2. Tail(todo[r]) = <<"store">> /\ <<"store">> # <<>>
          BY <4>1
        <4>3. \E c : Go(r, Tail(todo[r]), c)
          BY <3>2 DEF Query, AdvanceWith
        <4>4. todo' = [todo EXCEPT ![r] = <<"store">>]
          BY <4>2, <4>3 DEF Go
        <4> QED BY <4>4 DEF RequestsOK
      <3>3. ASSUME Store(r)
            PROVE  todo'[r] = <<>>
        BY <3>3, MoveOut DEF Store
      <3> QED BY <3>1, <3>2, <3>3
    <2>3. Untagged(todo'[r])
      BY <1>2, <2>2 DEF Untagged, Tagging
    <2>4. Moved(r)
      BY PostTagsMoves
    <2> QED BY <2>1, <2>3, <2>4, TagsAside
  <1> QED BY <1>1, <1>2, FindTagTags, InsertTagTags, InsertPostTags, AttachTags, DetachTags DEF PostTagsStep

\* A request that is to write a post begins with nothing found.
LEMMA Starts ==
  ASSUME RequestsOK, NEW r \in Requests, NEW op, NEW c, NEW t, Enter(r, op, c, t)
  PROVE  todo'[r] = t /\ call'[r] = c
  BY DEF Enter, RequestsOK

LEMMA WritesFound ==
  ASSUME NEW u, NEW p, NEW names
  PROVE  FoundOK(Writes(u, p, names))
  <1> DEFINE c == [user |-> u, post |-> p, began |-> Len(decisions),
                   wants |-> names, names |-> names, tag |-> None, found |-> {}]
  <1>1. c.wants = names /\ c.names = names /\ c.found = {}
    OBVIOUS
  <1>2. Writes(u, p, names) = c
    BY DEF Writes
  <1> HIDE DEF c
  <1> QED BY <1>1, <1>2 DEF FoundOK

LEMMA BeginsFound ==
  ASSUME RequestsOK, RowsOK, NEW r \in Requests, todo[r] = <<>>, Arrive(r)
  PROVE  /\ Writing(todo'[r], call'[r]) => FoundOK(call'[r])
         /\ todo'[r] # <<"detach">>
  <1>1. CASE todo'[r] = <<>>
    BY <1>1, NotWriting DEF Untagged
  <1>2. ASSUME NEW t, Untagged(t), todo'[r] = t
        PROVE  ~Writing(todo'[r], call'[r]) /\ todo'[r] # <<"detach">>
    BY <1>2, NotWriting
  <1>3. CASE ModerationStart(r)
    <2>1. todo'[r] \in {<<"findReported", "insertReport">>, <<"lockPost", "decide">>}
      BY <1>3, Starts DEF ModerationStart, ReportPost, ModeratePost
    <2>2. Untagged(todo'[r])
      BY <2>1 DEF Untagged, Tagging
    <2> QED BY <1>2, <2>2
  <1>4. CASE ReactionsStart(r)
    <2>1. todo'[r] \in {<<"findOpenPost", "notLiked", "insertLike">>, <<"findPost", "liked", "deleteLike">>,
                        <<"findOpenPost", "findView", "insertView", "mark">>,
                        <<"findOpenPost", "insertComment", "notify">>,
                        <<"ownComment", "saveComment">>, <<"ownComment", "deleteComment">>,
                        <<"anyComment", "deleteComment">>}
      BY <1>4, Starts DEF ReactionsStart, LikePost, UnlikePost, RecordView, CreateComment, EditComment,
                          RemoveComment, ModerateComment
    <2>2. Untagged(todo'[r])
      BY <2>1 DEF Untagged, Tagging
    <2> QED BY <1>2, <2>2
  <1>5. CASE BookmarksStart(r)
    <2>1. \/ todo'[r] \in {<<"findToggled", "findMark">>, <<"loadMark", "saveMark">>,
                           <<"loadMark", "moveMark", "saveMark">>,
                           <<"loadMark", "findFolder", "moveMark", "saveMark">>,
                           <<"loadFolder", "saveFolder">>}
          \/ FoldersStart(r)
      BY <1>5, Starts DEF BookmarksStart, ToggleBookmark, MoveBookmark, UpdateBookmark, UpdateFolder, FoldersStart
    <2>2. FoldersStart(r) => todo'[r] = <<>>
      BY AtOnceMoves
    <2>3. Untagged(todo'[r])
      BY <2>1, <2>2 DEF Untagged, Tagging
    <2> QED BY <1>2, <2>3
  <1>6. CASE FollowsStart(r)
    <2>1. todo'[r] \in {<<"notFollowing", "insertFollow", "notify">>, <<"following", "deleteFollow">>}
      BY <1>6, Starts DEF FollowsStart, FollowUser, UnfollowUser
    <2>2. Untagged(todo'[r])
      BY <2>1 DEF Untagged, Tagging
    <2> QED BY <1>2, <2>2
  <1>7. CASE NotificationsStart(r) \/ \E u \in Users \cup {None}, p \in Post : RemovePost(r, u, p)
    BY <1>1, <1>7, AtOnceMoves
  <1>8. CASE PostTagsStart(r)
    <2>1. ASSUME NEW u, NEW names \in SUBSET TagNames, CreatePost(r, u, names)
          PROVE  FoundOK(call'[r]) /\ todo'[r] # <<"detach">>
      <3>1. call'[r] = Writes(u, None, names) /\ todo'[r] = Loop(names, <<"insertPost">>)
        BY <2>1, Starts DEF CreatePost
      <3>2. Loop(names, <<"insertPost">>) \in {<<"insertPost">>, <<"findTag", "insertPost">>}
        BY Prepend DEF Loop
      <3>3. Loop(names, <<"insertPost">>) # <<"detach">>
        BY <3>2
      <3> QED BY <3>1, <3>3, WritesFound
    <2>2. ASSUME NEW u, NEW p, NEW names \in SUBSET TagNames, UpdatePost(r, u, p, names)
          PROVE  FoundOK(call'[r]) /\ todo'[r] # <<"detach">>
      <3>1. call'[r] = Writes(u, p, names) /\ todo'[r] = Loop(names, <<"findOwn", "attach", "detach">>)
        BY <2>2, Starts DEF UpdatePost
      <3>2. Loop(names, <<"findOwn", "attach", "detach">>)
              \in {<<"findOwn", "attach", "detach">>, <<"findTag", "findOwn", "attach", "detach">>}
        BY Prepend DEF Loop
      <3>3. Loop(names, <<"findOwn", "attach", "detach">>) # <<"detach">>
        BY <3>2
      <3> QED BY <3>1, <3>3, WritesFound
    <2>3. ASSUME NEW kind, GetList(r, kind)
          PROVE  ~Writing(todo'[r], call'[r]) /\ todo'[r] # <<"detach">>
      <3>1. todo'[r] = <<"lookUp", "query", "store">>
        BY <2>3, Starts DEF GetList
      <3>2. Untagged(todo'[r])
        BY <3>1 DEF Untagged, Tagging
      <3> QED BY <1>2, <3>2
    <2>4. TagsStart(r) => todo'[r] = <<>>
      BY AtOnceMoves
    <2> QED BY <1>1, <1>8, <2>1, <2>2, <2>3, <2>4 DEF PostTagsStart, TagsStart
  <1> QED BY <1>3, <1>4, <1>5, <1>6, <1>7, <1>8 DEF Arrive

\* Posts have the tags their authors asked for.
LEMMA TagsStep ==
  ASSUME RequestsOK, RowsOK, MarksAgree, TagsOK, [Next]_vars
  PROVE  TagsOK'
  <1>1. CASE Expire \/ UNCHANGED vars
    <2>1. UNCHANGED <<todo, call, posts, gone, tags, tagged, asked>>
      BY <1>1 DEF Expire, ExpireList, ExpireMarker, vars, requestVars, postVars, tagVars
    <2>2. \A r : At(r, "detach")' = At(r, "detach")
      BY <2>1 DEF At
    <2> QED BY <2>1, <2>2, TagsDef
  <1>2. ASSUME NEW r \in Requests, Request(r)
        PROVE  TagsOK'
    <2>1. Moved(r)
      BY <1>2, RequestMoves
    <2>2. CASE Begins(r)
      <3>1. todo[r] = <<>> /\ UNCHANGED <<posts, gone, tags, tagged, asked>>
        BY <2>2 DEF Begins, postVars, tagVars
      <3>2. Arrive(r)
        BY <1>2, <3>1 DEF Request
      <3> QED BY <2>1, <3>1, <3>2, BeginsFound, TagsOnward
    <2>3. ASSUME NEW u \in Users \cup {None}, NEW p \in Post, RemovePost(r, u, p)
          PROVE  TagsOK'
      BY <2>3, RemoveTags
    <2>4. CASE todo[r] = <<>> /\ TagsStart(r)
      BY <2>4, StartTags
    <2>5. CASE PostTagsStep(r)
      BY <2>5, PostTagsTags
    <2>6. CASE (BookmarksStep(r) \/ FoldersStart(r)) /\ UNCHANGED tagVars
      <3>1. BookmarksStep(r) => todo'[r] \in MarkLands
        BY BookmarksMoves
      <3>2. FoldersStart(r) => todo'[r] = <<>>
        BY <2>6 DEF FoldersStart, CreateFolder, DeleteFolder, AtOnce, requestVars
      <3>3. Untagged(todo'[r])
        BY <2>6, <3>1, <3>2 DEF Untagged, Tagging, MarkLands
      <3>4. gone \subseteq gone' /\ DOMAIN posts' \subseteq DOMAIN posts \cup gone
        BY <2>6, BookmarksSteady
      <3> QED BY <2>1, <2>6, <3>3, <3>4, TagsAside DEF tagVars
    <2>7. CASE (Notify(r) \/ NotificationsStart(r)) /\ UNCHANGED tagVars
      <3>1. todo'[r] = <<>>
        BY <2>7, NotifyMoves DEF NotificationsStart, MarkAsRead, MarkAllAsRead, AtOnce, requestVars
      <3>2. UNCHANGED <<posts, gone>>
        BY <2>7 DEF Notify, NotificationsStart, MarkAsRead, MarkAllAsRead, postVars
      <3> QED BY <2>1, <2>7, <3>1, <3>2, TagsAside DEF tagVars, Untagged
    <2>8. CASE ModerationStep(r) /\ UNCHANGED tagVars
      <3>1. Untagged(todo'[r])
        BY <2>8, ModerationMoves DEF Untagged, Tagging
      <3>2. UNCHANGED gone /\ DOMAIN posts' = DOMAIN posts
        BY <2>8 DEF ModerationStep, FindReported, InsertReport, LockPost, Decide, postVars, RowsOK, PostsTypeOK
      <3> QED BY <2>1, <2>8, <3>1, <3>2, TagsAside DEF tagVars
    <2>9. CASE ReactionsStep(r) /\ UNCHANGED tagVars
      <3>1. Untagged(todo'[r])
        BY <2>9, ReactionsMoves DEF Untagged, Tagging
      <3> QED BY <2>1, <2>9, <3>1, ReactionsSteady, TagsAside DEF tagVars
    <2>10. CASE FollowsStep(r) /\ UNCHANGED tagVars
      <3>1. Untagged(todo'[r])
        BY <2>10, FollowsMoves DEF Untagged, Tagging
      <3>2. UNCHANGED <<posts, gone>>
        BY <2>10 DEF FollowsStep, CheckFollow, InsertFollow, DeleteFollow, postVars
      <3> QED BY <2>1, <2>10, <3>1, <3>2, TagsAside DEF tagVars
    <2>11. CASE Common(r)
      <3>1. Untagged(todo'[r])
        BY <2>11, CommonMoves DEF Untagged, Tagging
      <3>2. UNCHANGED <<posts, gone, tags, tagged, asked>>
        BY <2>11 DEF Common, FindPost, FindOpenPost, postVars, tagVars
      <3> QED BY <2>1, <3>1, <3>2, TagsAside
    <2> QED BY <1>2, <2>2, <2>3, <2>4, <2>5, <2>6, <2>7, <2>8, <2>9, <2>10, <2>11, StepCases DEF Proceed
  <1> QED BY <1>1, <1>2 DEF Next

-----------------------------------------------------------------------------
(* Hidden posts.                                                           *)

\* Post p was open since there were n decisions in log d, or is among the posts g that are gone.
SeenIn(d, g, p, n) == p \in g \/ OpenIn(d, p, n)

Watched == PastOpenPost \cup {<<"findMark">>, <<"store">>}

\* What is known of a request with t to do and c for its locals.
Recall(t, c, d, g) ==
  /\ t # <<>> => c.began <= Len(d)
  /\ t \in PastOpenPost => SeenIn(d, g, c.post, c.began)
  /\ t = <<"findMark">> /\ ~c.hidden => SeenIn(d, g, c.post, c.began)
  /\ t = <<"store">> => \A p \in c.shows : SeenIn(d, g, p, c.began)

LEMMA SeenDef ==
  /\ SeenOpen <=> \A r \in Requests : Recall(todo[r], call[r], decisions, gone)
  /\ SeenOpen' <=> \A r \in Requests : Recall(todo'[r], call'[r], decisions', gone')
  <1>1. /\ \A r, p : Seen(r, p) <=> SeenIn(decisions, gone, p, call[r].began)
        /\ \A r, p : Seen(r, p)' <=> SeenIn(decisions', gone', p, call'[r].began)
    BY LogDef DEF Seen, SeenIn
  <1> QED BY <1>1 DEF SeenOpen, Recall

LEMMA WatchedShape ==
  ASSUME NEW t, NEW c, Shape(t, c)
  PROVE  /\ t # <<>> => c.began \in Nat
         /\ t \in PastOpenPost \cup {<<"findMark">>} => c.post \in Post
         /\ t = <<"store">> => c.shows \subseteq Post
  <1>1. t # <<>> => c.began \in Nat
    BY DEF Shape, Reporting, Moderating, Liking, Viewing, Commenting, Following, Notifying,
           EditingOne, CreatingPost, UpdatingPost, Listing, Toggling, Changes, Loaded, Foldering,
           Locals, ModerateLocals, TellLocals, EditLocals, WriteLocals, ListLocals, ToggleLocals, MarkLocals,
           FolderLocals
  <1>2. t = <<"store">> => c.shows \subseteq Post
    BY DEF Shape, Reporting, Moderating, Liking, Viewing, Commenting, Following, Notifying,
           EditingOne, CreatingPost, UpdatingPost, Listing, Toggling, Changes, Loaded, Foldering, ListLocals
  <1>3. t \in PastOpenPost \cup {<<"findMark">>} => c.post \in Post
    <2>1. t \in PastOpenPost \cup {<<"findMark">>} =>
            c \in Locals \/ (c \in TellLocals /\ c.post \in Post) \/ c \in ToggleLocals
      BY DEF PastOpenPost, Shape, Reporting, Moderating, Liking, Viewing, Commenting, Following, Notifying,
             EditingOne, CreatingPost, UpdatingPost, Listing, Toggling, Changes, Loaded, Foldering
    <2> QED BY <2>1 DEF Locals, ToggleLocals
  <1> QED BY <1>1, <1>2, <1>3

\* A decision does not make a post that was open one that was not ...
LEMMA OpenAppend ==
  ASSUME NEW d \in Seq(Decision), NEW e \in Decision, NEW p, NEW n \in Nat, n <= Len(d), OpenIn(d, p, n)
  PROVE  OpenIn(Append(d, e), p, n)
  <1> DEFINE a == Append(d, e)
  <1>1. /\ \A i \in DOMAIN d : a[i] = d[i]
        /\ Turns(d, p) \subseteq Turns(a, p)
    BY TurnsAppend
  <1>2. Last(a, p, n) = Last(d, p, n)
    BY LastAppend
  <1> HIDE DEF a
  <1>3. \A i \in Turns(d, p) : i \in Turns(a, p) /\ a[i] = d[i]
    BY <1>1 DEF Turns
  <1>4. OpenIn(a, p, n)
    BY <1>2, <1>3 DEF OpenIn
  <1> QED BY <1>4 DEF a

\* ... and neither does anything else.
LEMMA SeenLasts ==
  ASSUME RequestsOK, RowsOK, LogOK, MarksAgree, NEW r \in Requests, Request(r)
  PROVE  /\ Len(decisions) \in Nat /\ Len(decisions') \in Nat /\ Len(decisions) <= Len(decisions')
         /\ \A p \in Post, n \in Nat : n <= Len(decisions) /\ SeenIn(decisions, gone, p, n)
              => SeenIn(decisions', gone', p, n)
  <1>1. decisions \in Seq(Decision) /\ Len(decisions) \in Nat
    BY DEF RowsOK, PostsTypeOK
  <1>2. CASE UNCHANGED decisions /\ gone \subseteq gone'
    BY <1>1, <1>2 DEF SeenIn
  <1>3. CASE Decide(r)
    <2> DEFINE e == [post |-> call[r].post, kind |-> call[r].kind]
    <2>1. call[r] \in ModerateLocals
      BY <1>3, AtModeration DEF Decide
    <2>2. e \in Decision
      BY <2>1 DEF ModerateLocals, Decision
    <2>3. decisions' = Append(decisions, e) /\ UNCHANGED gone
      BY <1>3 DEF Decide
    <2> HIDE DEF e
    <2>4. Len(decisions') = Len(decisions) + 1
      BY <1>1, <2>2, <2>3, TurnsAppend
    <2> QED BY <1>1, <2>2, <2>3, <2>4, OpenAppend DEF SeenIn
  <1>4. ASSUME NEW u \in Users \cup {None}, NEW x \in Post, RemovePost(r, u, x)
        PROVE  /\ Len(decisions') = Len(decisions)
               /\ \A p \in Post, n \in Nat : SeenIn(decisions, gone, p, n) => SeenIn(decisions', gone', p, n)
    <2>1. /\ decisions' = [i \in DOMAIN decisions |->
                             IF decisions[i].post = x THEN [decisions[i] EXCEPT !.post = None] ELSE decisions[i]]
          /\ gone \cup {x} \subseteq gone'
      BY <1>4 DEF RemovePost, DeletePost
    <2>2. /\ DOMAIN decisions' = DOMAIN decisions /\ Len(decisions') = Len(decisions)
          /\ \A i \in DOMAIN decisions :
               /\ decisions'[i].kind = decisions[i].kind
               /\ decisions'[i].post = IF decisions[i].post = x THEN None ELSE decisions[i].post
      BY <1>1, <2>1, Forgets
    <2>3. ASSUME NEW p \in Post, NEW n \in Nat, SeenIn(decisions, gone, p, n)
          PROVE  SeenIn(decisions', gone', p, n)
      <3>1. CASE p \in gone \/ p = x
        BY <2>1, <3>1 DEF SeenIn
      <3>2. CASE OpenIn(decisions, p, n) /\ p # x
        <4>1. \A i \in DOMAIN decisions :
                decisions'[i].kind = decisions[i].kind /\ (decisions'[i].post = p <=> decisions[i].post = p)
          BY <2>2, <3>2, PostsAssumption
        <4>2. \A m \in Int : OpenIn(decisions, p, m) => OpenIn(decisions', p, m)
          BY <1>1, <2>2, <4>1, TellsForget
        <4> QED BY <3>2, <4>2 DEF SeenIn
      <3> QED BY <2>3, <3>1, <3>2 DEF SeenIn
    <2> QED BY <2>2, <2>3
  <1>5. LockPost(r) \/ InsertReport(r) => UNCHANGED <<decisions, gone>>
    BY DEF LockPost, InsertReport, postVars
  <1> QED BY <1>1, <1>2, <1>3, <1>4, <1>5, LogEffects DEF LogOK

\* What is open now has been open since whenever.
LEMMA OpenNow ==
  ASSUME RowsOK, LogOK, NEW p \in DOMAIN posts, ~posts[p].hidden, NEW n \in Nat, n <= Len(decisions)
  PROVE  SeenIn(decisions, gone, p, n)
  <1> DEFINE d == decisions
             N == Len(decisions)
  <1>1. /\ d \in Seq(Decision) /\ N \in Nat /\ DOMAIN d = 1..N
        /\ \A i \in DOMAIN d : d[i].kind \in {"hide", "unhide", "dismiss"}
    <2>1. d \in Seq(Decision) /\ N \in Nat /\ DOMAIN d = 1..N /\ \A i \in DOMAIN d : d[i] \in Decision
      BY DEF RowsOK, PostsTypeOK
    <2> QED BY <2>1 DEF Decision, Kinds
  <1>2. CASE p \in gone
    BY <1>2 DEF SeenIn
  <1>3. CASE p \notin gone
    <2>1. Last(d, p, N) # "hide"
      BY <1>3, LogDef DEF LogOK, LogAccounts, Tells
    <2> HIDE DEF d, N
    <2>2. Turns(d, p) \subseteq 1..N /\ \A i \in Turns(d, p) : d[i].kind \in {"hide", "unhide"}
      BY <1>1 DEF Turns
    <2>3. PICK S : S = {i \in Turns(d, p) : i <= N}
      OBVIOUS
    <2>4. S = Turns(d, p)
      BY <1>1, <2>2, <2>3
    <2>5. CASE S = {}
      <3>1. {i \in Turns(d, p) : i <= n} = {}
        BY <2>4, <2>5
      <3>2. Last(d, p, n) = "unhide"
        BY <3>1 DEF Last, Latest
      <3> QED BY <3>2 DEF SeenIn, OpenIn, d
    <2>6. CASE S # {}
      <3> DEFINE last == CHOOSE i \in S : \A j \in S : j <= i
      <3>1. last \in S /\ \A j \in S : j <= last
        <4>1. \E i \in S : \A j \in S : j <= i
          BY <1>1, <2>2, <2>4, <2>6, Greatest
        <4> QED BY <4>1
      <3>2. Last(d, p, N) = d[last].kind
        BY <2>3, <2>6 DEF Last, Latest
      <3>3. d[last].kind = "unhide"
        BY <2>1, <2>2, <2>4, <3>1, <3>2
      <3> HIDE DEF last
      <3>4. CASE last > n
        BY <2>4, <3>1, <3>3, <3>4 DEF SeenIn, OpenIn, d
      <3>5. CASE ~(last > n)
        <4>1. last \in Int
          BY <2>2, <2>4, <3>1
        <4>2. {i \in Turns(d, p) : i <= n} = S
          BY <2>2, <2>4, <3>1, <3>5, <4>1
        <4>3. Last(d, p, n) = Last(d, p, N)
          BY <2>3, <4>2 DEF Last
        <4> QED BY <3>2, <3>3, <4>3 DEF SeenIn, OpenIn, d
      <3> QED BY <3>4, <3>5
    <2> QED BY <2>5, <2>6
  <1> QED BY <1>2, <1>3

LEMMA SeenKept ==
  ASSUME RequestsOK, RequestsOK', RowsOK, LogOK, MarksAgree, SeenOpen, NEW r \in Requests, Request(r), Moved(r),
         Recall(todo'[r], call'[r], decisions, gone)
  PROVE  SeenOpen'
  <1>1. ASSUME NEW q \in Requests
        PROVE  Recall(todo'[q], call'[q], decisions', gone')
    <2>1. Recall(todo'[q], call'[q], decisions, gone)
      <3>1. CASE q = r
        BY <3>1
      <3>2. CASE q # r
        BY <3>2, Alone, SeenDef
      <3> QED BY <3>1, <3>2
    <2>2. /\ todo'[q] # <<>> => call'[q].began \in Nat
          /\ todo'[q] \in PastOpenPost \cup {<<"findMark">>} => call'[q].post \in Post
          /\ todo'[q] = <<"store">> => call'[q].shows \subseteq Post
      <3>1. Shape(todo'[q], call'[q])
        BY DEF RequestsOK
      <3> QED BY <3>1, WatchedShape
    <2>3. /\ Len(decisions) \in Nat /\ Len(decisions') \in Nat /\ Len(decisions) <= Len(decisions')
          /\ \A p \in Post, n \in Nat : n <= Len(decisions) /\ SeenIn(decisions, gone, p, n)
               => SeenIn(decisions', gone', p, n)
      BY SeenLasts
    <2>4. <<>> \notin PastOpenPost \cup {<<"findMark">>, <<"store">>}
      BY DEF PastOpenPost
    <2>5. PICK t, c : t = todo'[q] /\ c = call'[q]
      OBVIOUS
    <2>6. t # <<>> => c.began \in Nat /\ c.began <= Len(decisions) /\ c.began <= Len(decisions')
      BY <2>1, <2>2, <2>3, <2>5 DEF Recall
    <2>7. t \in PastOpenPost => SeenIn(decisions', gone', c.post, c.began)
      BY <2>1, <2>2, <2>3, <2>4, <2>5, <2>6 DEF Recall
    <2>8. t = <<"findMark">> /\ ~c.hidden => SeenIn(decisions', gone', c.post, c.began)
      BY <2>1, <2>2, <2>3, <2>4, <2>5, <2>6 DEF Recall
    <2>9. t = <<"store">> => \A p \in c.shows : SeenIn(decisions', gone', p, c.began)
      BY <2>1, <2>2, <2>3, <2>4, <2>5, <2>6 DEF Recall
    <2> QED BY <2>5, <2>6, <2>7, <2>8, <2>9 DEF Recall
  <1> QED BY <1>1, SeenDef

\* A request remembers when it began.
Onward(r) == todo'[r] = <<>> \/ \E t, c : Go(r, t, c) /\ c.began = call[r].began

LEMMA OnwardBegan ==
  ASSUME RequestsOK, NEW r \in Requests, Onward(r)
  PROVE  todo'[r] = <<>> \/ call'[r].began = call[r].began
  BY DEF Onward, Go, Quit, RequestsOK

LEMMA OnwardSimply ==
  ASSUME RequestsOK, NEW r \in Requests, Quit(r) \/ Advance(r) \/ \E t : Go(r, t, call[r])
  PROVE  Onward(r)
  BY MoveOut DEF Onward, Advance, AdvanceWith

LEMMA TagsOnwards ==
  ASSUME RequestsOK, RowsOK, NEW r \in Requests, PostTagsStep(r)
  PROVE  Onward(r)
  <1>1. \A n : TagNamed(n) \subseteq Tags
    BY DEF TagNamed, RowsOK, TagsFit, PostTagsTypeOK
  <1>2. ASSUME NEW t, NEW n, call[r] \in WriteLocals
        PROVE  Remember(r, t, n).began = call[r].began
    BY <1>2 DEF Remember, WriteLocals
  <1>3. CASE FindTag(r) \/ InsertTag(r) \/ FindTagAgain(r)
    <2>1. call[r] \in WriteLocals
      BY <1>3, AtTags DEF FindTag, InsertTag, FindTagAgain, Writing, CreatingPost, UpdatingPost
    <2>2. \/ \E t, n : NextName(r, Remember(r, t, n))
          \/ \E n : Go(r, <<"insertTag">> \o Tail(todo[r]), [call[r] EXCEPT !.tag = n])
          \/ Go(r, <<"findTagAgain">> \o Tail(todo[r]), call[r])
          \/ Quit(r)
      BY <1>3 DEF FindTag, InsertTag, FindTagAgain
    <2>3. ASSUME NEW n
          PROVE  [call[r] EXCEPT !.tag = n].began = call[r].began
      BY <2>1 DEF WriteLocals
    <2>4. CASE \E t, n : NextName(r, Remember(r, t, n))
      BY <1>2, <2>1, <2>4 DEF NextName, Onward
    <2>5. CASE \E n : Go(r, <<"insertTag">> \o Tail(todo[r]), [call[r] EXCEPT !.tag = n])
      BY <2>3, <2>5 DEF Onward
    <2>6. CASE Quit(r) \/ Go(r, <<"findTagAgain">> \o Tail(todo[r]), call[r])
      BY <2>6, OnwardSimply
    <2> QED BY <2>2, <2>4, <2>5, <2>6
  <1>4. CASE Query(r)
    <2>1. call[r] \in ListLocals
      BY <1>4, AtTags DEF Query
    <2>2. PICK S : Go(r, Tail(todo[r]), [call[r] EXCEPT !.shows = S])
      BY <1>4 DEF Query, AdvanceWith
    <2>3. [call[r] EXCEPT !.shows = S].began = call[r].began
      BY <2>1 DEF ListLocals
    <2> QED BY <2>2, <2>3 DEF Onward
  <1>5. CASE InsertTaggedPost(r) \/ FindOwn(r) \/ Attach(r) \/ Detach(r) \/ LookUp(r) \/ Store(r)
    <2>1. Quit(r) \/ Advance(r)
      BY <1>5 DEF InsertTaggedPost, FindOwn, Attach, Detach, LookUp, Store, Check
    <2> QED BY <2>1, OnwardSimply
  <1> QED BY <1>3, <1>4, <1>5 DEF PostTagsStep

LEMMA ReactionsOnwards ==
  ASSUME RequestsOK, RowsOK, NEW r \in Requests, ReactionsStep(r)
  PROVE  Onward(r)
  <1>1. CASE InsertComment(r)
    <2>1. call[r] \in TellLocals
      BY <1>1, AtReactions DEF InsertComment
    <2>2. Quit(r) \/ \E u : Go(r, Tail(todo[r]), [call[r] EXCEPT !.tell = u])
      BY <1>1 DEF InsertComment, AdvanceWith
    <2>3. ASSUME NEW u
          PROVE  [call[r] EXCEPT !.tell = u].began = call[r].began
      BY <2>1 DEF TellLocals
    <2> QED BY <2>2, <2>3, OnwardSimply DEF Onward
  <1>2. CASE FindComment(r)
    <2>1. call[r] \in EditLocals
      BY <1>2, AtReactions DEF FindComment
    <2>2. Quit(r) \/ \E x : Go(r, Tail(todo[r]), [call[r] EXCEPT !.row = x])
      BY <1>2 DEF FindComment, AdvanceWith
    <2>3. ASSUME NEW x
          PROVE  [call[r] EXCEPT !.row = x].began = call[r].began
      BY <2>1 DEF EditLocals
    <2> QED BY <2>2, <2>3, OnwardSimply DEF Onward
  <1>3. CASE ~InsertComment(r) /\ ~FindComment(r)
    <2>1. Quit(r) \/ Advance(r) \/ \E t : Go(r, t, call[r])
      BY <1>3 DEF ReactionsStep, CheckLike, InsertLike, DeleteLike, FindView, InsertView, MarkViewed, SaveComment,
                  DeleteComment, Check
    <2> QED BY <2>1, OnwardSimply
  <1> QED BY <1>1, <1>2, <1>3

LEMMA BookmarksOnwards ==
  ASSUME RequestsOK, RowsOK, NEW r \in Requests, BookmarksStep(r)
  PROVE  Onward(r)
  <1>1. CASE FindToggled(r) \/ FindMark(r)
    <2>1. call[r] \in ToggleLocals
      BY <1>1, AtBookmarks DEF FindToggled, FindMark
    <2>2. \/ Quit(r) \/ \E t : Go(r, t, call[r])
          \/ \E t, h : Go(r, t, [call[r] EXCEPT !.hidden = h])
          \/ \E t, b : Go(r, t, [call[r] EXCEPT !.mark = b])
      BY <1>1 DEF FindToggled, FindMark, AdvanceWith
    <2>3. ASSUME NEW x
          PROVE  /\ [call[r] EXCEPT !.hidden = x].began = call[r].began
                 /\ [call[r] EXCEPT !.mark = x].began = call[r].began
      BY <2>1 DEF ToggleLocals
    <2>4. CASE Quit(r) \/ \E t : Go(r, t, call[r])
      BY <2>4, OnwardSimply
    <2>5. CASE \E t, h : Go(r, t, [call[r] EXCEPT !.hidden = h])
      BY <2>3, <2>5 DEF Onward
    <2>6. CASE \E t, b : Go(r, t, [call[r] EXCEPT !.mark = b])
      BY <2>3, <2>6 DEF Onward
    <2> QED BY <2>2, <2>4, <2>5, <2>6
  <1>2. CASE LoadMark(r)
    <2>1. call[r] \in MarkLocals
      BY <1>2, AtBookmarks DEF LoadMark
    <2>2. Quit(r) \/ \E x, y : Go(r, Tail(todo[r]), [call[r] EXCEPT !.row = x, !.copy = y])
      BY <1>2 DEF LoadMark, AdvanceWith
    <2>3. ASSUME NEW x, NEW y, Go(r, Tail(todo[r]), [call[r] EXCEPT !.row = x, !.copy = y])
          PROVE  Onward(r)
      <3>1. [call[r] EXCEPT !.row = x, !.copy = y].began = call[r].began
        BY <2>1 DEF MarkLocals
      <3> QED BY <2>3, <3>1 DEF Onward
    <2> QED BY <2>2, <2>3, OnwardSimply
  <1>3. CASE MoveMark(r)
    <2>1. call[r] \in MarkLocals
      BY <1>3, AtBookmarks DEF MoveMark, Loaded
    <2>2. Go(r, Tail(todo[r]), [call[r] EXCEPT !.row.folder = call[r].folder])
      BY <1>3 DEF MoveMark, AdvanceWith
    <2>3. [call[r] EXCEPT !.row.folder = call[r].folder].began = call[r].began
      BY <2>1 DEF MarkLocals
    <2> QED BY <2>2, <2>3 DEF Onward
  <1>4. CASE LoadFolder(r)
    <2>1. call[r] \in FolderLocals
      BY <1>4, AtBookmarks DEF LoadFolder
    <2>2. Quit(r) \/ \E x : Go(r, Tail(todo[r]), [call[r] EXCEPT !.copies = x])
      BY <1>4 DEF LoadFolder, AdvanceWith
    <2>3. ASSUME NEW x
          PROVE  [call[r] EXCEPT !.copies = x].began = call[r].began
      BY <2>1 DEF FolderLocals
    <2> QED BY <2>2, <2>3, OnwardSimply DEF Onward
  <1>5. CASE DeleteMark(r) \/ FindFolder(r) \/ InsertMark(r) \/ SaveMark(r) \/ PutMark(r) \/ SaveFolder(r)
    <2>1. Quit(r) \/ Advance(r) \/ \E t : Go(r, t, call[r])
      BY <1>5 DEF DeleteMark, FindFolder, InsertMark, SaveMark, PutMark, SaveFolder, Check
    <2> QED BY <2>1, OnwardSimply
  <1> QED BY <1>1, <1>2, <1>3, <1>4, <1>5 DEF BookmarksStep

LEMMA BeganStays ==
  ASSUME RequestsOK, RowsOK, NEW r \in Requests, Proceed(r)
  PROVE  todo'[r] = <<>> \/ call'[r].began = call[r].began
  <1>1. CASE Common(r) \/ ModerationStep(r) \/ Notify(r) \/ FollowsStep(r)
    <2>1. Quit(r) \/ Advance(r) \/ \E t : Go(r, t, call[r])
      BY <1>1 DEF Common, FindPost, FindOpenPost, Fail, ModerationStep, FindReported, InsertReport, LockPost, Decide,
                  Notify, FollowsStep, CheckFollow, InsertFollow, DeleteFollow, Check
    <2> QED BY <2>1, OnwardSimply, OnwardBegan
  <1> QED BY <1>1, TagsOnwards, ReactionsOnwards, BookmarksOnwards, OnwardBegan DEF Proceed

LEMMA BeganThen ==
  ASSUME RequestsOK, RowsOK, SeenOpen, NEW r \in Requests, Request(r)
  PROVE  todo'[r] # <<>> => call'[r].began <= Len(decisions)
  <1>1. Len(decisions) \in Nat
    BY DEF RowsOK, PostsTypeOK
  <1>2. todo[r] # <<>> => call[r].began <= Len(decisions)
    BY DEF SeenOpen
  <1>3. CASE Begins(r)
    BY <1>1, <1>3 DEF Begins
  <1>4. CASE UNCHANGED <<todo, call>>
    BY <1>2, <1>4
  <1>5. CASE todo[r] # <<>> /\ Proceed(r)
    BY <1>2, <1>5, BeganStays
  <1> QED BY <1>3, <1>4, <1>5, StepCases, AtOnceMoves

LEMMA Unwatched ==
  ASSUME NEW t, NEW c, NEW d, NEW g, t # <<>> => c.began <= Len(d), t \notin Watched
  PROVE  Recall(t, c, d, g)
  BY DEF Recall, Watched

\* A request that has seen its post open goes on.
LEMMA SawOpen ==
  ASSUME NEW t \in PastOpenPost \cup {<<"findMark">>}, NEW c, NEW d, NEW g,
         c.began <= Len(d), SeenIn(d, g, c.post, c.began)
  PROVE  Recall(t, c, d, g)
  <1>1. t # <<"store">>
    BY DEF PastOpenPost
  <1> QED BY <1>1 DEF Recall

LEMMA OpenHere ==
  ASSUME RequestsOK, RowsOK, LogOK, SeenOpen, NEW r \in Requests, todo[r] # <<>>,
         NEW p \in DOMAIN posts, ~posts[p].hidden
  PROVE  call[r].began <= Len(decisions) /\ SeenIn(decisions, gone, p, call[r].began)
  <1>1. Shape(todo[r], call[r])
    BY DEF RequestsOK
  <1>2. call[r].began \in Nat
    BY <1>1, WatchedShape
  <1>3. call[r].began <= Len(decisions)
    BY DEF SeenOpen
  <1> QED BY <1>2, <1>3, OpenNow

LEMMA CommonRecall ==
  ASSUME RequestsOK, RowsOK, LogOK, SeenOpen, NEW r \in Requests, todo[r] # <<>>, Common(r),
         todo'[r] # <<>> => call'[r].began <= Len(decisions)
  PROVE  Recall(todo'[r], call'[r], decisions, gone)
  <1>1. CASE todo'[r] \notin Watched
    BY <1>1, Unwatched
  <1>2. CASE todo'[r] \in Watched
    <2>1. <<>> \notin Watched
      BY DEF Watched, PastOpenPost
    <2>2. FindOpenPost(r)
      <3>1. ~Fail(r)
        BY <1>2, <2>1, MoveOut DEF Fail
      <3>2. ASSUME FindPost(r)
            PROVE  FALSE
        <4>1. todo[r] = <<"findPost", "liked", "deleteLike">>
          BY <3>2, AtCommon DEF FindPost
        <4>2. todo'[r] \in {<<>>, Tail(todo[r])}
          BY <3>2, MoveAlong DEF FindPost, Check, At, Reads
        <4>3. todo'[r] \in {<<>>, <<"liked", "deleteLike">>}
          BY <4>1, <4>2
        <4> QED BY <1>2, <4>3 DEF Watched, PastOpenPost
      <3> QED BY <3>1, <3>2 DEF Common
    <2>3. Exists(call[r].post) /\ ~posts[call[r].post].hidden /\ Advance(r)
      BY <1>2, <2>1, <2>2, MoveOut DEF FindOpenPost, Check
    <2>4. call'[r] = call[r]
      BY <1>2, <2>1, <2>3, MoveOut DEF Advance, AdvanceWith, Go, RequestsOK
    <2>5. todo'[r] \in PastOpenPost
      BY <1>2, CommonMoves DEF Watched, PastOpenPost
    <2> QED BY <2>3, <2>4, <2>5, OpenHere, SawOpen DEF Exists
  <1> QED BY <1>1, <1>2

LEMMA ModerationRecall ==
  ASSUME RequestsOK, RowsOK, LogOK, SeenOpen, NEW r \in Requests, todo[r] # <<>>, ModerationStep(r),
         todo'[r] # <<>> => call'[r].began <= Len(decisions)
  PROVE  Recall(todo'[r], call'[r], decisions, gone)
  <1>1. CASE todo'[r] \notin Watched
    BY <1>1, Unwatched
  <1>2. CASE todo'[r] \in Watched
    <2>1. <<>> \notin Watched
      BY DEF Watched, PastOpenPost
    <2>2. FindReported(r)
      <3>1. ~InsertReport(r) /\ ~Decide(r)
        BY <1>2, <2>1, MoveOut DEF InsertReport, Decide
      <3>2. ASSUME LockPost(r)
            PROVE  FALSE
        <4>1. todo[r] = <<"lockPost", "decide">>
          BY <3>2, AtModeration DEF LockPost
        <4>2. todo'[r] \in {<<>>, Tail(todo[r])}
          BY <3>2, MoveAlong DEF LockPost, Check, At, Reads
        <4>3. todo'[r] \in {<<>>, <<"decide">>}
          BY <4>1, <4>2
        <4> QED BY <1>2, <4>3 DEF Watched, PastOpenPost
      <3> QED BY <3>1, <3>2 DEF ModerationStep
    <2>3. Exists(call[r].post) /\ ~posts[call[r].post].hidden /\ Advance(r)
      BY <1>2, <2>1, <2>2, MoveOut DEF FindReported, Check
    <2>4. call'[r] = call[r]
      BY <1>2, <2>1, <2>3, MoveOut DEF Advance, AdvanceWith, Go, RequestsOK
    <2>5. todo'[r] \in PastOpenPost
      BY <1>2, ModerationMoves DEF Watched, PastOpenPost
    <2> QED BY <2>3, <2>4, <2>5, OpenHere, SawOpen DEF Exists
  <1> QED BY <1>1, <1>2

LEMMA AdvancedRecall ==
  ASSUME RequestsOK, SeenOpen, NEW r \in Requests, Advance(r), todo'[r] \in PastOpenPost,
         todo[r] \in PastOpenPost
  PROVE  Recall(todo'[r], call'[r], decisions, gone)
  <1>1. todo[r] # <<>> /\ todo'[r] # <<>>
    BY DEF PastOpenPost
  <1>2. call'[r] = call[r]
    BY <1>1, MoveOut DEF Advance, AdvanceWith, Go, RequestsOK
  <1>3. SeenIn(decisions, gone, call[r].post, call[r].began) /\ call[r].began <= Len(decisions)
    BY <1>1, SeenDef DEF Recall
  <1> QED BY <1>2, <1>3, SawOpen

LEMMA ReactionsRecall ==
  ASSUME RequestsOK, RowsOK, LogOK, SeenOpen, NEW r \in Requests, todo[r] # <<>>, ReactionsStep(r),
         todo'[r] # <<>> => call'[r].began <= Len(decisions)
  PROVE  Recall(todo'[r], call'[r], decisions, gone)
  <1>1. CASE todo'[r] \notin Watched
    BY <1>1, Unwatched
  <1>2. CASE todo'[r] \in Watched
    <2>1. todo'[r] \in {<<"insertLike">>, <<"insertView", "mark">>}
      BY <1>2, ReactionsMoves DEF Watched, PastOpenPost
    <2>2. CASE CheckLike(r)
      <3>1. Advance(r)
        BY <2>1, <2>2, MoveOut DEF CheckLike, Check
      <3>2. At(r, "notLiked")
        <4>1. ASSUME At(r, "liked")
              PROVE  FALSE
          <5>1. todo[r] = <<"liked", "deleteLike">>
            BY <4>1, AtReactions
          <5>2. todo'[r] \in {<<>>, Tail(todo[r])}
            BY <2>2, <4>1, MoveAlong DEF CheckLike, Check, At, Reads
          <5> QED BY <2>1, <5>1, <5>2
        <4> QED BY <2>2, <4>1 DEF CheckLike
      <3>3. todo[r] = <<"notLiked", "insertLike">>
        BY <3>2, AtReactions
      <3>4. todo[r] \in PastOpenPost /\ todo'[r] \in PastOpenPost
        BY <2>1, <3>3 DEF PastOpenPost
      <3> QED BY <3>1, <3>4, AdvancedRecall
    <2>3. CASE FindView(r)
      <3>1. todo[r] = <<"findView", "insertView", "mark">>
        BY <2>3, AtReactions DEF FindView
      <3>2. Advance(r)
        BY <2>1, <2>3 DEF FindView, Go, Quit, RequestsOK
      <3>3. todo[r] \in PastOpenPost /\ todo'[r] \in PastOpenPost
        BY <2>1, <3>1 DEF PastOpenPost
      <3> QED BY <3>2, <3>3, AdvancedRecall
    <2>4. CASE InsertView(r)
      <3>1. todo[r] = <<"insertView", "mark">>
        BY <2>4, AtReactions DEF InsertView
      <3>2. todo'[r] \in {<<>>, Tail(todo[r])}
        BY <2>4, MoveAlong DEF InsertView, At, Reads
      <3> QED BY <2>1, <3>1, <3>2
    <2>5. CASE InsertComment(r) \/ FindComment(r)
      <3>1. todo[r] \in {<<"insertComment", "notify">>, <<"ownComment", "saveComment">>,
                         <<"ownComment", "deleteComment">>, <<"anyComment", "deleteComment">>}
        BY <2>5, AtReactions DEF InsertComment, FindComment
      <3>2. Tail(todo[r]) \in {<<"notify">>, <<"saveComment">>, <<"deleteComment">>}
        BY <3>1, Tail2
      <3>3. todo'[r] \in {<<>>, Tail(todo[r])}
        BY <2>5 DEF InsertComment, FindComment, AdvanceWith, Go, Quit, RequestsOK
      <3>4. todo'[r] \in {<<>>, <<"notify">>, <<"saveComment">>, <<"deleteComment">>}
        BY <3>2, <3>3
      <3> QED BY <2>1, <3>4
    <2>6. CASE InsertLike(r) \/ DeleteLike(r) \/ MarkViewed(r) \/ SaveComment(r) \/ DeleteComment(r)
      <3>1. todo'[r] = <<>>
        BY <2>6, MoveOut DEF InsertLike, DeleteLike, MarkViewed, SaveComment, DeleteComment
      <3> QED BY <2>1, <3>1
    <2> QED BY <2>2, <2>3, <2>4, <2>5, <2>6 DEF ReactionsStep
  <1> QED BY <1>1, <1>2

LEMMA NamesUnwatched ==
  ASSUME RequestsOK, NEW r \in Requests, FindTag(r) \/ InsertTag(r) \/ FindTagAgain(r)
  PROVE  todo'[r] \notin Watched
  <1> DEFINE rest == Tail(todo[r])
  <1>1. rest \in Rests
    BY AtName DEF FindTag, InsertTag, FindTagAgain
  <1>2. \/ todo'[r] = <<>> \/ todo'[r] = rest
        \/ todo'[r] = <<"findTag">> \o rest \/ todo'[r] = <<"insertTag">> \o rest \/ todo'[r] = <<"findTagAgain">> \o rest
    BY DEF FindTag, InsertTag, FindTagAgain, NextName, Loop, Go, Quit, RequestsOK
  <1> HIDE DEF rest
  <1>3. CASE rest = <<"insertPost">>
    <2>1. \A s \in {"findTag", "insertTag", "findTagAgain"} : <<s>> \o rest = <<s, "insertPost">>
      BY <1>3, Prepend
    <2>2. todo'[r] \in {<<>>, <<"insertPost">>, <<"findTag", "insertPost">>, <<"insertTag", "insertPost">>,
                         <<"findTagAgain", "insertPost">>}
      BY <1>2, <1>3, <2>1
    <2> QED BY <2>2 DEF Watched, PastOpenPost
  <1>4. CASE rest = <<"findOwn", "attach", "detach">>
    <2>1. \A s \in {"findTag", "insertTag", "findTagAgain"} : <<s>> \o rest = <<s, "findOwn", "attach", "detach">>
      BY <1>4, Prepend
    <2>2. todo'[r] \in {<<>>, <<"findOwn", "attach", "detach">>, <<"findTag", "findOwn", "attach", "detach">>,
                         <<"insertTag", "findOwn", "attach", "detach">>,
                         <<"findTagAgain", "findOwn", "attach", "detach">>}
      BY <1>2, <1>4, <2>1
    <2> QED BY <2>2 DEF Watched, PastOpenPost
  <1> QED BY <1>1, <1>3, <1>4 DEF Rests

LEMMA TagsRecall ==
  ASSUME RequestsOK, RowsOK, LogOK, SeenOpen, NEW r \in Requests, todo[r] # <<>>, PostTagsStep(r),
         todo'[r] # <<>> => call'[r].began <= Len(decisions)
  PROVE  Recall(todo'[r], call'[r], decisions, gone)
  <1>1. CASE todo'[r] \notin Watched
    BY <1>1, Unwatched
  <1>2. CASE todo'[r] \in Watched
    <2>1. todo'[r] = <<"store">>
      BY <1>2, PostTagsMoves DEF Watched, PastOpenPost, TagLands
    <2>2. Query(r)
      <3>1. ~FindTag(r) /\ ~InsertTag(r) /\ ~FindTagAgain(r)
        BY <1>2, NamesUnwatched
      <3>2. ~InsertTaggedPost(r) /\ ~Detach(r) /\ ~Store(r)
        BY <2>1, MoveOut DEF InsertTaggedPost, Detach, Store
      <3>3. ASSUME FindOwn(r) \/ Attach(r) \/ LookUp(r)
            PROVE  FALSE
        <4>1. todo'[r] \in {<<>>, Tail(todo[r])}
          BY <3>3, MoveAlong DEF FindOwn, Attach, LookUp, Check, At, Reads
        <4>2. todo[r] = <<"findOwn", "attach", "detach">> \/ todo[r] = <<"attach", "detach">>
                \/ todo[r] = <<"lookUp", "query", "store">>
          BY <3>3, AtTags DEF FindOwn, Attach, LookUp
        <4>3. CASE todo[r] = <<"findOwn", "attach", "detach">>
          BY <2>1, <4>1, <4>3
        <4>4. CASE todo[r] = <<"attach", "detach">>
          BY <2>1, <4>1, <4>4
        <4>5. CASE todo[r] = <<"lookUp", "query", "store">>
          BY <2>1, <4>1, <4>5
        <4> QED BY <4>2, <4>3, <4>4, <4>5
      <3> QED BY <3>1, <3>2, <3>3 DEF PostTagsStep
    <2>3. todo[r] = <<"query", "store">> /\ call[r] \in ListLocals
      BY <2>2, AtTags DEF Query
    <2>4. PICK S \in SUBSET OpenPosts : Go(r, <<"store">>, [call[r] EXCEPT !.shows = S])
      <3>1. Tail(todo[r]) = <<"store">>
        BY <2>3
      <3> QED BY <2>2, <3>1 DEF Query, AdvanceWith
    <2>5. call'[r] = [call[r] EXCEPT !.shows = S]
      BY <2>1, <2>4 DEF Go, RequestsOK
    <2>6. call'[r].shows = S /\ call'[r].began = call[r].began
      BY <2>3, <2>5 DEF ListLocals
    <2>7. \A p \in S : SeenIn(decisions, gone, p, call[r].began)
      BY <2>4, OpenHere DEF OpenPosts
    <2>8. todo'[r] \notin PastOpenPost
      BY <2>1 DEF PastOpenPost
    <2>9. <<"store">> # <<"findMark">> /\ <<"store">> # <<>>
      OBVIOUS
    <2> QED BY <2>1, <2>6, <2>7, <2>8, <2>9 DEF Recall
  <1> QED BY <1>1, <1>2

LEMMA BookmarksRecall ==
  ASSUME RequestsOK, RowsOK, LogOK, SeenOpen, NEW r \in Requests, todo[r] # <<>>, BookmarksStep(r),
         todo'[r] # <<>> => call'[r].began <= Len(decisions)
  PROVE  Recall(todo'[r], call'[r], decisions, gone)
  <1>1. CASE todo'[r] \notin Watched
    BY <1>1, Unwatched
  <1>2. CASE todo'[r] \in Watched
    <2>1. todo'[r] \in {<<"findMark">>, <<"findFolder", "insertMark">>, <<"insertMark">>}
      BY <1>2, BookmarksMoves DEF Watched, PastOpenPost, MarkLands
    <2>2. todo'[r] # <<>>
      BY <2>1
    <2>3. CASE FindToggled(r)
      <3> DEFINE p == call[r].post
                 h == posts[p].hidden
      <3>1. todo[r] = <<"findToggled", "findMark">> /\ call[r] \in ToggleLocals
        BY <2>3, AtBookmarks DEF FindToggled
      <3>2. Exists(p) /\ Go(r, <<"findMark">>, [call[r] EXCEPT !.hidden = h])
        BY <2>2, <2>3, <3>1, MoveOut DEF FindToggled, AdvanceWith
      <3> HIDE DEF h
      <3>3. todo'[r] = <<"findMark">> /\ call'[r] = [call[r] EXCEPT !.hidden = h]
        BY <3>2 DEF Go, RequestsOK
      <3>4. call'[r].hidden = h /\ call'[r].began = call[r].began /\ call'[r].post = p
        BY <3>1, <3>3 DEF ToggleLocals
      <3>5. CASE h
        <4>1. <<"findMark">> \notin PastOpenPost /\ <<"findMark">> # <<"store">>
          BY DEF PastOpenPost
        <4> QED BY <2>2, <3>3, <3>4, <3>5, <4>1 DEF Recall
      <3>6. CASE ~h
        <4>1. SeenIn(decisions, gone, p, call[r].began) /\ call[r].began <= Len(decisions)
          BY <3>2, <3>6, OpenHere DEF h, Exists
        <4> QED BY <3>3, <3>4, <4>1, SawOpen
      <3> QED BY <3>5, <3>6
    <2>4. CASE FindMark(r)
      <3>1. todo[r] = <<"findMark">>
        BY <2>4, AtBookmarks DEF FindMark
      <3>2. todo'[r] \in {<<"insertMark">>, <<"findFolder", "insertMark">>} /\ call'[r] = call[r] /\ ~call[r].hidden
        BY <2>1, <2>4, FindMarkMoves
      <3>3. SeenIn(decisions, gone, call[r].post, call[r].began) /\ call[r].began <= Len(decisions)
        BY <3>1, <3>2, SeenDef DEF Recall
      <3>4. todo'[r] \in PastOpenPost
        BY <3>2 DEF PastOpenPost
      <3> QED BY <3>2, <3>3, <3>4, SawOpen
    <2>5. CASE FindFolder(r)
      <3>1. Advance(r)
        BY <2>2, <2>5, MoveOut DEF FindFolder, Check
      <3>2. todo[r] = <<"findFolder", "insertMark">> \/ todo[r] = <<"findFolder", "moveMark", "saveMark">>
        BY <2>5, AtBookmarks DEF FindFolder
      <3>3. CASE todo[r] = <<"findFolder", "insertMark">>
        <4>1. todo'[r] = Tail(todo[r])
          BY <2>2, <3>1, MoveOut DEF Advance, AdvanceWith, Go, RequestsOK
        <4>2. todo'[r] = <<"insertMark">>
          BY <3>3, <4>1
        <4>3. todo[r] \in PastOpenPost /\ todo'[r] \in PastOpenPost
          BY <3>3, <4>2 DEF PastOpenPost
        <4> QED BY <3>1, <4>3, AdvancedRecall
      <3>4. CASE todo[r] = <<"findFolder", "moveMark", "saveMark">>
        <4>1. todo'[r] = Tail(todo[r])
          BY <2>2, <3>1, MoveOut DEF Advance, AdvanceWith, Go, RequestsOK
        <4>2. todo'[r] = <<"moveMark", "saveMark">>
          BY <3>4, <4>1
        <4> QED BY <2>1, <4>2
      <3> QED BY <3>2, <3>3, <3>4
    <2>6. CASE LoadMark(r) \/ MoveMark(r) \/ LoadFolder(r)
      <3>1. todo[r] \in {<<"loadMark", "saveMark">>, <<"loadMark", "moveMark", "saveMark">>,
                         <<"loadMark", "findFolder", "moveMark", "saveMark">>, <<"moveMark", "saveMark">>,
                         <<"loadFolder", "saveFolder">>}
        BY <2>6, AtBookmarks DEF LoadMark, MoveMark, LoadFolder
      <3>2. todo'[r] = Tail(todo[r])
        BY <2>2, <2>6 DEF LoadMark, MoveMark, LoadFolder, AdvanceWith, Go, Quit, RequestsOK
      <3>3. Tail(todo[r]) \in {<<"saveMark">>, <<"moveMark", "saveMark">>, <<"findFolder", "moveMark", "saveMark">>,
                               <<"saveFolder">>}
        BY <3>1, Tail2, Tail3, Tail4
      <3> QED BY <2>1, <3>2, <3>3
    <2>7. CASE SaveMark(r)
      <3>1. todo'[r] = <<"putMark">>
        BY <2>2, <2>7 DEF SaveMark, Go, Quit, RequestsOK
      <3> QED BY <2>1, <3>1
    <2>8. CASE DeleteMark(r) \/ InsertMark(r) \/ PutMark(r) \/ SaveFolder(r)
      BY <2>2, <2>8, MoveOut DEF DeleteMark, InsertMark, PutMark, SaveFolder
    <2> QED BY <2>3, <2>4, <2>5, <2>6, <2>7, <2>8 DEF BookmarksStep
  <1> QED BY <1>1, <1>2

\* What a request has seen, it knows.
LEMMA RecallStep ==
  ASSUME RequestsOK, RowsOK, LogOK, MarksAgree, SeenOpen, NEW r \in Requests, Request(r)
  PROVE  Recall(todo'[r], call'[r], decisions, gone)
  <1>1. todo'[r] # <<>> => call'[r].began <= Len(decisions)
    BY BeganThen
  <1>2. CASE Begins(r)
    <2>1. todo'[r] \notin Watched
      BY <1>2 DEF Begins, Entries, Watched, PastOpenPost
    <2> QED BY <1>1, <2>1, Unwatched
  <1>3. CASE UNCHANGED <<todo, call>>
    BY <1>3, SeenDef
  <1>4. CASE todo[r] # <<>> /\ Proceed(r)
    <2>1. CASE Notify(r) \/ FollowsStep(r)
      <3>1. todo'[r] \notin Watched
        BY <2>1, NotifyMoves, FollowsMoves DEF Watched, PastOpenPost
      <3> QED BY <1>1, <3>1, Unwatched
    <2> QED BY <1>1, <1>4, <2>1, CommonRecall, ModerationRecall, ReactionsRecall, TagsRecall, BookmarksRecall
          DEF Proceed
  <1> QED BY <1>2, <1>3, <1>4, StepCases, AtOnceMoves

\* No request goes past a post it has not seen open.
LEMMA SeenStep ==
  ASSUME RequestsOK, RequestsOK', RowsOK, LogOK, MarksAgree, SeenOpen, [Next]_vars
  PROVE  SeenOpen'
  <1>1. CASE Expire \/ UNCHANGED vars
    <2>1. UNCHANGED <<todo, call, decisions, gone>>
      BY <1>1 DEF Expire, ExpireList, ExpireMarker, vars, requestVars, postVars
    <2> QED BY <2>1, SeenDef
  <1>2. ASSUME NEW r \in Requests, Request(r)
        PROVE  SeenOpen'
    BY <1>2, RequestMoves, RecallStep, SeenKept
  <1> QED BY <1>1, <1>2 DEF Next

-----------------------------------------------------------------------------
(* Posts hidden before a request began.                                    *)

LEMMA Undisturbed ==
  ASSUME NEW p, UNCHANGED <<likes, views, reports>>,
         {c \in DOMAIN comments' : comments'[c].post = p} \subseteq DOMAIN comments,
         MarksOf(p, Users)' \subseteq MarksOf(p, Users)
  PROVE  NothingNew(p)
  BY DEF NothingNew

\* Who has begun and moves is the one that proceeds.
LEMMA Mover ==
  ASSUME RequestsOK, RowsOK, [Next]_vars, NEW r \in Requests, call[r] # None, todo[r] # todo'[r]
  PROVE  todo[r] # <<>> /\ Proceed(r)
  <1>1. todo[r] # <<>>
    BY DEF RequestsOK, Shape, Reporting, Moderating, Liking, Viewing, Commenting, Following, Notifying,
           EditingOne, CreatingPost, UpdatingPost, Listing, Toggling, Changes, Loaded, Foldering
  <1>2. ~Expire /\ ~UNCHANGED vars
    BY DEF Expire, ExpireList, ExpireMarker, vars, requestVars
  <1>3. PICK q \in Requests : Request(q)
    BY <1>2 DEF Next
  <1>4. q = r
    BY <1>3, RequestMoves, Alone
  <1> QED BY <1>1, <1>3, <1>4 DEF Request

\* What a request past a check of its post has seen.
LEMMA NotHidden ==
  ASSUME SeenOpen, NEW r \in Requests, NEW p, p = call[r].post, HiddenFrom(r, p)
  PROVE  todo[r] \notin PastOpenPost
  BY DEF SeenOpen, Seen, HiddenFrom

LEMMA ReactionsAlone ==
  ASSUME RequestsOK, RowsOK, SeenOpen, NEW r \in Requests, ReactionsStep(r), UNCHANGED <<reports, bookmarkVars>>,
         NEW p \in Post, p = call[r].post, HiddenFrom(r, p)
  PROVE  NothingNew(p)
  <1>1. MarksOf(p, Users)' \subseteq MarksOf(p, Users)
    BY DEF MarksOf, bookmarkVars
  <1>2. todo[r] \notin PastOpenPost
    BY NotHidden
  <1>3. ~InsertLike(r) /\ ~InsertView(r) /\ ~InsertComment(r)
    BY <1>2, AtReactions DEF InsertLike, InsertView, InsertComment, PastOpenPost
  <1>4. ~SaveComment(r) /\ ~DeleteComment(r)
    BY AtReactions, PostsAssumption DEF SaveComment, DeleteComment, EditLocals
  <1>5. CASE DeleteLike(r)
    <2>1. likes' \subseteq likes /\ UNCHANGED <<views, comments>>
      BY <1>5 DEF DeleteLike
    <2> QED BY <1>1, <2>1 DEF NothingNew
  <1>6. CASE CheckLike(r) \/ FindView(r) \/ MarkViewed(r) \/ FindComment(r)
    <2>1. UNCHANGED <<likes, views, comments>>
      BY <1>6 DEF CheckLike, FindView, MarkViewed, FindComment, reactionVars
    <2> QED BY <1>1, <2>1, Undisturbed
  <1> QED BY <1>3, <1>4, <1>5, <1>6 DEF ReactionsStep

LEMMA BookmarksAlone ==
  ASSUME RequestsOK, RowsOK, SeenOpen, NEW r \in Requests, BookmarksStep(r), UNCHANGED <<reports, reactionVars>>,
         NEW p \in Post, p = call[r].post, HiddenFrom(r, p)
  PROVE  NothingNew(p)
  <1>1. UNCHANGED <<likes, views, reports, comments>>
    BY DEF reactionVars
  <1>2. todo[r] \notin PastOpenPost
    BY NotHidden
  <1>3. ~InsertMark(r)
    BY <1>2, AtBookmarks DEF InsertMark, PastOpenPost
  <1>4. ~SaveMark(r) /\ ~PutMark(r) /\ ~SaveFolder(r)
    BY AtBookmarks, PostsAssumption DEF SaveMark, PutMark, SaveFolder, Loaded, MarkLocals, FolderLocals
  <1>5. CASE DeleteMark(r)
    <2>1. /\ DOMAIN bookmarks' \subseteq DOMAIN bookmarks
          /\ \A b \in DOMAIN bookmarks' : bookmarks'[b] = bookmarks[b]
      BY <1>5 DEF DeleteMark, Without
    <2>2. MarksOf(p, Users)' \subseteq MarksOf(p, Users)
      BY <2>1 DEF MarksOf
    <2> QED BY <1>1, <2>2, Undisturbed
  <1>6. CASE FindToggled(r) \/ FindMark(r) \/ FindFolder(r) \/ LoadMark(r) \/ MoveMark(r) \/ LoadFolder(r)
    <2>1. UNCHANGED bookmarks
      BY <1>6 DEF FindToggled, FindMark, FindFolder, LoadMark, MoveMark, LoadFolder, bookmarkVars
    <2>2. MarksOf(p, Users)' \subseteq MarksOf(p, Users)
      BY <2>1 DEF MarksOf
    <2> QED BY <1>1, <2>2, Undisturbed
  <1> QED BY <1>3, <1>4, <1>5, <1>6 DEF BookmarksStep

LEMMA ModerationAlone ==
  ASSUME RequestsOK, RowsOK, SeenOpen, NEW r \in Requests, ModerationStep(r), UNCHANGED <<reactionVars, bookmarkVars>>,
         NEW p \in Post, p = call[r].post, HiddenFrom(r, p)
  PROVE  NothingNew(p)
  <1>1. UNCHANGED <<likes, views, comments, bookmarks>> /\ MarksOf(p, Users)' \subseteq MarksOf(p, Users)
    BY DEF reactionVars, bookmarkVars, MarksOf
  <1>2. ~InsertReport(r)
    BY NotHidden, AtModeration DEF InsertReport, PastOpenPost
  <1>3. CASE Decide(r)
    <2>1. reports \subseteq Report
      BY DEF RowsOK, ReportsFit, ModerationTypeOK
    <2>2. UNCHANGED reports \/ ClosePending(p, "resolved") \/ ClosePending(p, "dismissed")
      BY <1>3, AtModeration DEF Decide, ModerateLocals, Kinds
    <2>3. ASSUME NEW x \in reports'
          PROVE  \E y \in reports : y.post = x.post /\ y.reporter = x.reporter /\ y.made = x.made
      <3>1. \/ x \in reports
            \/ \E y \in reports : x = [y EXCEPT !.status = "resolved", !.by = Len(decisions) + 1]
            \/ \E y \in reports : x = [y EXCEPT !.status = "dismissed", !.by = Len(decisions) + 1]
        <4>1. Pending(p) \subseteq reports
          BY DEF Pending
        <4>2. ASSUME NEW s, ClosePending(p, s)
              PROVE  x \in reports \/ \E y \in reports : x = [y EXCEPT !.status = s, !.by = Len(decisions) + 1]
          BY <4>1, <4>2 DEF ClosePending
        <4>3. CASE UNCHANGED reports
          BY <4>3
        <4>4. CASE ClosePending(p, "resolved")
          BY <4>2, <4>4
        <4>5. CASE ClosePending(p, "dismissed")
          BY <4>2, <4>5
        <4> QED BY <2>2, <4>3, <4>4, <4>5
      <3>2. ASSUME NEW y \in reports, NEW s, NEW n, x = [y EXCEPT !.status = s, !.by = n]
            PROVE  y.post = x.post /\ y.reporter = x.reporter /\ y.made = x.made
        <4>1. y \in Report
          BY <2>1
        <4> QED BY <3>2, <4>1 DEF Report
      <3>3. CASE \E y \in reports : x = [y EXCEPT !.status = "resolved", !.by = Len(decisions) + 1]
        BY <3>2, <3>3
      <3>4. CASE \E y \in reports : x = [y EXCEPT !.status = "dismissed", !.by = Len(decisions) + 1]
        BY <3>2, <3>4
      <3> QED BY <3>1, <3>3, <3>4
    <2> QED BY <1>1, <2>3 DEF NothingNew
  <1>4. CASE FindReported(r) \/ LockPost(r)
    <2>1. UNCHANGED reports
      BY <1>4 DEF FindReported, LockPost
    <2> QED BY <1>1, <2>1, Undisturbed
  <1> QED BY <1>2, <1>3, <1>4 DEF ModerationStep

LEMMA ListsAlone ==
  ASSUME RequestsOK, RowsOK, SeenOpen, NEW r \in Requests, Proceed(r), NEW k \in Lists, lists'[k] \notin {None, lists[k]}
  PROVE  \A p \in lists'[k].shows : ~HiddenFrom(r, p)
  <1>1. Store(r)
    BY DEF Proceed, Common, tagVars, PostTagsStep, FindTag, InsertTag, FindTagAgain, InsertTaggedPost, FindOwn,
           Attach, Detach, LookUp, Query
  <1>2. todo[r] = <<"store">>
    BY <1>1, AtTags DEF Store
  <1>3. lists' = [lists EXCEPT ![call[r].kind] = [shows |-> call[r].shows, began |-> call[r].began]]
    BY <1>1 DEF Store
  <1>4. DOMAIN lists = Lists
    BY DEF RowsOK, TagsFit
  <1>5. lists'[k].shows = call[r].shows
    BY <1>3, <1>4
  <1>6. \A p \in call[r].shows : Seen(r, p)
    BY <1>2 DEF SeenOpen
  <1> QED BY <1>5, <1>6 DEF Seen, HiddenFrom

LEMMA HiddenStep ==
  ASSUME RequestsOK, RowsOK, SeenOpen, [Next]_vars, NEW r \in Requests, call[r] # None, todo[r] # todo'[r]
  PROVE  /\ \A p \in {call[r].post} \cap Post : HiddenFrom(r, p) => NothingNew(p)
         /\ \A k \in Lists : lists'[k] \notin {None, lists[k]} => \A p \in lists'[k].shows : ~HiddenFrom(r, p)
  <1>1. Proceed(r)
    BY Mover
  <1>2. ASSUME NEW p \in Post, p = call[r].post, HiddenFrom(r, p)
        PROVE  NothingNew(p)
    <2>1. CASE UNCHANGED <<reports, reactionVars, bookmarkVars>>
      <3>1. MarksOf(p, Users)' \subseteq MarksOf(p, Users)
        BY <2>1 DEF MarksOf, bookmarkVars
      <3> QED BY <2>1, <3>1, Undisturbed DEF reactionVars
    <2> QED BY <1>1, <1>2, <2>1, ReactionsAlone, BookmarksAlone, ModerationAlone DEF Proceed, Common
  <1> QED BY <1>1, <1>2, ListsAlone

-----------------------------------------------------------------------------
(* The theorems.                                                           *)

LEMMA InitRequests ==
  Init => RequestsOK
  BY DEF Init, RequestsInit, RequestsOK, Shape

LEMMA InitRows ==
  Init => RowsOK /\ FollowsCounted
  <1> SUFFICES ASSUME Init PROVE RowsOK /\ FollowsCounted
    OBVIOUS
  <1> USE DEF Init
  <1>1. PostsTypeOK /\ DOMAIN posts = {}
    BY DEF PostsInit, PostsTypeOK
  <1>2. ReportsFit
    BY DEF ModerationInit, ReportsFit, ModerationTypeOK
  <1>3. TagsFit
    BY DEF PostTagsInit, TagsFit, PostTagsTypeOK
  <1>4. ReactionsFit
    BY FS_EmptySet DEF ReactionsInit, ReactionsFit, ReactionsTypeOK
  <1>5. MarksFit
    BY FS_EmptySet DEF BookmarksInit, MarksFit, BookmarksTypeOK
  <1>6. NotificationsTypeOK
    BY DEF NotificationsInit, NotificationsTypeOK
  <1>7. FollowsTypeOK
    BY DEF FollowsInit, FollowsTypeOK
  <1>8. FollowsCounted
    <2>1. \A u : {x \in follows : x[1] = u} = {} /\ {x \in follows : x[2] = u} = {}
      BY DEF FollowsInit
    <2> QED BY <2>1, FS_EmptySet DEF FollowsInit, FollowsCounted
  <1> QED BY <1>1, <1>2, <1>3, <1>4, <1>5, <1>6, <1>7, <1>8 DEF RowsOK

LEMMA InitLog ==
  Init => LogOK
  <1> SUFFICES ASSUME Init PROVE LogOK
    OBVIOUS
  <1>1. /\ \A r \in Requests : todo[r] = <<>>
        /\ DOMAIN posts = {} /\ decisions = <<>> /\ reports = {}
    BY DEF Init, RequestsInit, PostsInit, ModerationInit
  <1>2. DOMAIN decisions = {}
    BY <1>1
  <1> QED BY <1>1, <1>2 DEF LogOK, LocksHold, LogBehind, LogAccounts, LogTellsState, ReportsAnswered, At

LEMMA InitBooks ==
  Init => BookmarksOK
  <1> SUFFICES ASSUME Init PROVE BookmarksOK
    OBVIOUS
  <1>1. /\ \A r \in Requests : todo[r] = <<>>
        /\ DOMAIN bookmarks = {} /\ DOMAIN folders = {}
    BY DEF Init, RequestsInit, BookmarksInit
  <1>2. \A r \in Requests : HeldMarks(r) = {} /\ HeldFolders(r) = {}
    <2>1. \A c : ~Loaded(<<>>, c)
      BY DEF Loaded
    <2> QED BY <1>1, <2>1, HeldDef DEF MarksHeld, FoldersHeld
  <1>3. KnownMarks = {} /\ KnownFolders = {}
    BY <1>1, <1>2 DEF KnownMarks, KnownFolders, Marks
  <1> QED BY <1>1, <1>3 DEF BookmarksOK, MarksAgree, FoldersAgree, CopiesAgree, BookmarksInOrder, At

LEMMA InitRest ==
  Init => CountsMatchRows /\ TagsOK /\ SeenOpen
  <1> SUFFICES ASSUME Init PROVE CountsMatchRows /\ TagsOK /\ SeenOpen
    OBVIOUS
  <1>1. /\ \A r \in Requests : todo[r] = <<>>
        /\ DOMAIN posts = {}
    BY DEF Init, RequestsInit, PostsInit
  <1>2. CountsMatchRows
    <2>1. FollowsCounted
      BY InitRows
    <2> QED BY <1>1, <2>1 DEF CountsMatchRows, FollowsCounted
  <1>3. TagsOK
    <2>1. \A c : ~Writing(<<>>, c)
      BY DEF Writing, CreatingPost, UpdatingPost
    <2> QED BY <1>1, <2>1 DEF TagsOK, TagsAsAsked, At
  <1>4. SeenOpen
    <2>1. <<>> \notin PastOpenPost /\ <<>> # <<"findMark">> /\ <<>> # <<"store">>
      BY DEF PastOpenPost
    <2> QED BY <1>1, <2>1 DEF SeenOpen
  <1> QED BY <1>2, <1>3, <1>4

LEMMA InvariantStep ==
  IInv /\ [Next]_vars => IInv'
  <1> SUFFICES ASSUME IInv, [Next]_vars PROVE IInv'
    OBVIOUS
  <1>1. RequestsOK /\ RowsOK /\ FollowsCounted /\ LogOK /\ LogBehind /\ BookmarksOK /\ MarksAgree /\ CopiesAgree
        /\ CountsMatchRows /\ TagsOK /\ SeenOpen
    BY DEF IInv, LogOK, BookmarksOK
  <1>2. RequestsOK'
    BY <1>1, RequestsStep
  <1>3. RowsOK' /\ FollowsCounted'
    BY <1>1, RowsStep
  <1>4. LogOK'
    BY <1>1, <1>3, LogStep
  <1>5. BookmarksOK'
    BY <1>1, BooksStep
  <1>6. CountsMatchRows'
    BY <1>1, <1>3, CountsStep
  <1>7. TagsOK'
    BY <1>1, TagsStep
  <1>8. SeenOpen'
    BY <1>1, <1>2, SeenStep
  <1> QED BY <1>2, <1>3, <1>4, <1>5, <1>6, <1>7, <1>8 DEF IInv, LogOK

\* The invariant of Content: requests are where their handlers may be and know what they
\* have read, rows refer to rows, the log, the counters and the tags are what they promise,
\* whatever requests race.
THEOREM ContentInvariance == Spec => []IInv
  <1>1. Init => IInv
    BY InitRequests, InitRows, InitLog, InitBooks, InitRest DEF IInv, LogOK
  <1> QED BY <1>1, InvariantStep, PTL DEF Spec

\* Rows have their columns and refer to rows that are there, a user's bookmarks lie in folders
\* of his own and there is one of a post, though Save brings back rows that others removed.
THEOREM ContentTypeCorrect == Spec => []TypeOK
  <1>1. IInv => TypeOK
    BY DEF IInv, RowsOK, ReportsFit, TagsFit, ReactionsFit, MarksFit, BookmarksOK, TypeOK
  <1> QED BY <1>1, ContentInvariance, PTL

\* The moderation log tells which posts are hidden and which reports were answered by which
\* decision, however moderators, reporters and deletions race.
THEOREM LogAlwaysAccounts == Spec => []LogAccounts
  <1>1. IInv => LogAccounts
    BY DEF IInv
  <1> QED BY <1>1, ContentInvariance, PTL

\* Counters of likes, views, bookmarks and follows are the numbers of the rows.
THEOREM CountersStayExact == Spec => []CountsMatchRows
  <1>1. IInv => CountsMatchRows
    BY DEF IInv
  <1> QED BY <1>1, ContentInvariance, PTL

\* A request leaves its post with the tags it asked for, unless another attaches its own in between.
THEOREM TagsStayAsAsked == Spec => []TagsAsAsked
  <1>1. IInv => TagsAsAsked
    BY DEF IInv, TagsOK
  <1> QED BY <1>1, ContentInvariance, PTL

\* A request that begins after a post was hidden, and moves before it is open again, adds
\* no row that refers to it and keeps no list that shows it.
THEOREM HiddenStaysAlone == Spec => HiddenLeftAlone
  <1>1. IInv /\ [Next]_vars =>
          [ \A r \in Requests : call[r] # None /\ todo[r] # todo'[r] =>
              /\ \A p \in {call[r].post} \cap Post : HiddenFrom(r, p) => NothingNew(p)
              /\ \A k \in Lists : lists'[k] \notin {None, lists[k]} =>
                   \A p \in lists'[k].shows : ~HiddenFrom(r, p) ]_vars
    BY HiddenStep DEF IInv
  <1> QED BY <1>1, ContentInvariance, PTL DEF Spec, HiddenLeftAlone
=============================================================================
