------------------------------ MODULE PostTags ------------------------------
(***************************************************************************)
(* Writing posts and tagging them (internal/service/post_service.go,       *)
(* tag_service.go and their repositories), and the lists of posts that are *)
(* kept in Redis for a while.                                              *)
(***************************************************************************)
EXTENDS Posts

CONSTANTS
  Tags,      \* ids of tags; each is given out once
  TagNames

\* What the history holds for a post is unset, a request, or a set of names.
ASSUME PostTagsAssumption ==
  /\ None \notin Tags \cup TagNames \cup Requests
  /\ \A names \in SUBSET TagNames : names \notin Requests \cup {None}

VARIABLES
  tags,      \* the tags table
  tagged,    \* the posts_to_tags table
  lists,     \* the lists kept in Redis
  \* history
  asked      \* the names a request has given a post undisturbed, or the request that is
             \* about to

tagVars == <<tags, tagged, lists, asked>>

Lists == {"random", "trending"}

List == [shows : SUBSET Post, began : Nat]

PostTagsTypeOK ==
  /\ DOMAIN tags \subseteq Tags
  /\ tags \in [DOMAIN tags -> TagNames]
  /\ tagged \subseteq (DOMAIN posts) \X (DOMAIN tags)
  /\ \A k \in Lists : lists[k] = None \/ lists[k] \in List
  /\ \A p \in Post : asked[p] = None \/ asked[p] \in Requests \/ asked[p] \subseteq TagNames

PostTagsInit ==
  /\ tags = [t \in {} |-> None]
  /\ tagged = {}
  /\ lists = [k \in Lists |-> None]
  /\ asked = [p \in Post |-> None]

TagsOf(p) == {tags[t] : t \in {t \in DOMAIN tags : <<p, t>> \in tagged}}

Named(table) == {<<t, table[t]>> : t \in DOMAIN table}

-----------------------------------------------------------------------------
(* FindOrCreateByName, for each of the names asked for.                    *)

Writes(u, p, names) ==
  [user |-> u, post |-> p, began |-> Len(decisions),
   wants |-> names, names |-> names, tag |-> None, found |-> {}]

\* The loop over names that are still to be looked up, and what follows it.
Loop(names, statements) == IF names = {} THEN statements ELSE <<"findTag">> \o statements

\* On to the next name, with c for the locals.
NextName(r, c) == Go(r, Loop(c.names, Tail(todo[r])), c)

TagNamed(n) == {t \in DOMAIN tags : tags[t] = n}

Remember(r, t, n) ==
  [call[r] EXCEPT !.names = @ \ {n}, !.tag = None, !.found = @ \cup {[id |-> t, name |-> n]}]

\* One name after the other.
FindTag(r) ==
  /\ At(r, "findTag")
  /\ \E n \in call[r].names :
       IF TagNamed(n) # {}
       THEN \E t \in TagNamed(n) : NextName(r, Remember(r, t, n))
       ELSE Go(r, <<"insertTag">> \o Tail(todo[r]), [call[r] EXCEPT !.tag = n])
  /\ UNCHANGED <<postVars, tagVars>>

\* Mistake: the loser of the race goes on without the tag.
InsertTagOnly(r) ==
  LET n == call[r].tag IN
  /\ At(r, "insertTag")
  /\ IF TagNamed(n) = {}
     THEN \E t \in Fresh(Tags, tags) :
            /\ tags' = With(tags, t, n)
            /\ NextName(r, Remember(r, t, n))
     ELSE /\ NextName(r, [call[r] EXCEPT !.names = @ \ {n}, !.tag = None])
          /\ UNCHANGED tags
  /\ UNCHANGED <<postVars, tagged, lists, asked>>

\* INSERT ... ON CONFLICT DO NOTHING gives the id if it inserts.
InsertTag(r) ==
  LET n == call[r].tag IN
  /\ At(r, "insertTag")
  /\ IF TagNamed(n) = {}
     THEN \E t \in Fresh(Tags, tags) :
            /\ tags' = With(tags, t, n)
            /\ NextName(r, Remember(r, t, n))
     ELSE /\ Go(r, <<"findTagAgain">> \o Tail(todo[r]), call[r])
          /\ UNCHANGED tags
  /\ UNCHANGED <<postVars, tagged, lists, asked>>

\* The loser reads the winner's row, unless it is gone again.
FindTagAgain(r) ==
  LET n == call[r].tag IN
  /\ At(r, "findTagAgain")
  /\ IF TagNamed(n) = {} THEN Quit(r)
     ELSE \E t \in TagNamed(n) : NextName(r, Remember(r, t, n))
  /\ UNCHANGED <<postVars, tagVars>>

-----------------------------------------------------------------------------
(* Posts.                                                                  *)

Ids(r) == {x.id : x \in call[r].found}

\* GORM saves the tags with the post: one that has been deleted is inserted
\* again, unless its name is taken by now.
TagsSaved(r) ==
  LET lost == {x \in call[r].found : x.id \notin DOMAIN tags /\ TagNamed(x.name) = {}} IN
  [t \in DOMAIN tags \cup {x.id : x \in lost} |->
     IF t \in DOMAIN tags THEN tags[t] ELSE (CHOOSE x \in lost : x.id = t).name]

\* The request has given post p its tags; it counts if they still have the
\* names they were found by.
Settle(r, p, table) ==
  asked' = [asked EXCEPT ![p] = IF \A x \in call[r].found : <<x.id, x.name>> \in Named(table)
                                THEN call[r].wants ELSE None]

CreatePost(r, u, names) ==
  /\ Enter(r, IF names = {} THEN "create" ELSE "createTagged", Writes(u, None, names),
           Loop(names, <<"insertPost">>))
  /\ UNCHANGED <<postVars, tags, tagged, lists, asked>>

\* CreatePostWithTags: post, tags and join rows in one transaction.
InsertTaggedPost(r) ==
  /\ At(r, "insertPost")
  /\ IF Ids(r) \subseteq DOMAIN TagsSaved(r)
     THEN \E p \in Post :
            /\ InsertPost(p, call[r].user)
            /\ tags' = TagsSaved(r)
            /\ tagged' = tagged \cup ({p} \X Ids(r))
            /\ Settle(r, p, TagsSaved(r))
     ELSE UNCHANGED <<postVars, tags, tagged, asked>>
  /\ Quit(r)
  /\ UNCHANGED lists

\* UpdateMyPost by user u, or UpdatePost by an administrator (u is None).  One
\* that leaves the tags alone changes nothing modelled here.
UpdatePost(r, u, p, names) ==
  /\ Enter(r, "update", Writes(u, p, names), Loop(names, <<"findOwn", "attach", "detach">>))
  /\ UNCHANGED <<postVars, tags, tagged, lists, asked>>

\* The UPDATE of the text, if there is any, and the SELECT: the row is there,
\* and is the user's.
FindOwn(r) ==
  LET p == call[r].post IN
  /\ At(r, "findOwn")
  /\ Check(r, Exists(p) /\ call[r].user \in {None, posts[p].author})
  /\ UNCHANGED <<postVars, tagVars>>

\* Association("Tags").Replace: the new rows first.
Attach(r) ==
  LET p == call[r].post IN
  /\ At(r, "attach")
  /\ ~Locked(p)
  /\ IF Exists(p) /\ Ids(r) \subseteq DOMAIN TagsSaved(r)
     THEN /\ tags' = TagsSaved(r)
          /\ tagged' = tagged \cup ({p} \X Ids(r))
          /\ asked' = [asked EXCEPT ![p] = r]
          /\ Advance(r)
     ELSE /\ Quit(r)
          /\ UNCHANGED <<tags, tagged, asked>>
  /\ UNCHANGED <<postVars, lists>>

\* Then the others go.
Detach(r) ==
  LET p == call[r].post IN
  /\ At(r, "detach")
  /\ tagged' = {x \in tagged : x[1] = p => x[2] \in Ids(r)}
  /\ IF asked[p] = r THEN Settle(r, p, tags) ELSE asked' = [asked EXCEPT ![p] = None]
  /\ Quit(r)
  /\ UNCHANGED <<postVars, tags, lists>>

CascadeTagged(p) ==
  /\ tagged' = {x \in tagged : x[1] # p}
  /\ asked' = [asked EXCEPT ![p] = None]
  /\ UNCHANGED <<tags, lists>>

-----------------------------------------------------------------------------
(* Tags by themselves.                                                     *)

\* Nobody asked for what becomes of the tags of a post.
TagsChange ==
  /\ asked' = [p \in Post |-> None]
  /\ UNCHANGED lists

CreateTag(r, n) ==
  /\ AtOnce(r, "tags")
  /\ TagNamed(n) = {}
  /\ \E t \in Fresh(Tags, tags) : tags' = With(tags, t, n)
  /\ UNCHANGED <<postVars, tagged, lists, asked>>

UpdateTag(r, t, n) ==
  /\ AtOnce(r, "tags")
  /\ t \in DOMAIN tags /\ TagNamed(n) \subseteq {t}
  /\ tags' = [tags EXCEPT ![t] = n]
  /\ TagsChange
  /\ UNCHANGED <<postVars, tagged>>

\* The row is looked up first; that changes nothing.
DeleteTag(r, t) ==
  /\ AtOnce(r, "tags")
  /\ t \in DOMAIN tags
  /\ tags' = Without(tags, {t})
  /\ tagged' = {x \in tagged : x[2] # t}
  /\ gone' = gone \cup {t}
  /\ TagsChange
  /\ UNCHANGED <<posts, decisions>>

-----------------------------------------------------------------------------
(* Lists of posts.                                                         *)

GetList(r, kind) ==
  /\ Enter(r, "list", [user |-> None, post |-> None, began |-> Len(decisions), kind |-> kind, shows |-> {}],
           <<"lookUp", "query", "store">>)
  /\ UNCHANGED <<postVars, tagVars>>

\* A list that is kept is the answer.
LookUp(r) ==
  /\ At(r, "lookUp")
  /\ Check(r, lists[call[r].kind] = None)
  /\ UNCHANGED <<postVars, tagVars>>

OpenPosts == {p \in DOMAIN posts : ~posts[p].hidden}

\* GetPostsRandom and GetPostsTrending; the limit may leave out any, and the
\* trending list leaves out those with promotional tags.
Query(r) ==
  /\ At(r, "query")
  /\ \E S \in SUBSET OpenPosts : AdvanceWith(r, [call[r] EXCEPT !.shows = S])
  /\ UNCHANGED <<postVars, tagVars>>

\* A failure does not matter.
Store(r) ==
  /\ At(r, "store")
  /\ \/ lists' = [lists EXCEPT ![call[r].kind] = [shows |-> call[r].shows, began |-> call[r].began]]
     \/ UNCHANGED lists
  /\ Quit(r)
  /\ UNCHANGED <<postVars, tags, tagged, asked>>

ExpireList(kind) ==
  /\ lists[kind] # None
  /\ lists' = [lists EXCEPT ![kind] = None]
  /\ UNCHANGED <<requestVars, postVars, tags, tagged, asked>>

PostTagsStart(r) ==
  \/ \E u \in Users, names \in SUBSET TagNames : CreatePost(r, u, names)
  \/ \E u \in Users \cup {None}, p \in Post, names \in SUBSET TagNames : UpdatePost(r, u, p, names)
  \/ \E n \in TagNames : CreateTag(r, n) \/ \E t \in Tags : UpdateTag(r, t, n)
  \/ \E t \in Tags : DeleteTag(r, t)
  \/ \E kind \in Lists : GetList(r, kind)

PostTagsStep(r) ==
  \/ FindTag(r) \/ InsertTag(r) \/ FindTagAgain(r)
  \/ InsertTaggedPost(r) \/ FindOwn(r) \/ Attach(r) \/ Detach(r)
  \/ LookUp(r) \/ Query(r) \/ Store(r)

-----------------------------------------------------------------------------
(* Properties.                                                             *)

\* A request leaves its post with the tags it asked for and no others, though
\* others create the same tags at the same time or tag the same post: unless
\* another attaches its tags to that post between its own last two statements.
TagsAsAsked ==
  \A p \in DOMAIN posts \ gone : asked[p] \notin {None} \cup Requests => TagsOf(p) = asked[p]
=============================================================================
