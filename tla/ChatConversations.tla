-------------------------- MODULE ChatConversations --------------------------
(***************************************************************************)
(* AI chat conversations and their messages:                               *)
(* internal/service/chat_conversation_service.go over                      *)
(* internal/repository/chat_conversation_repository.go.                    *)
(*                                                                         *)
(* A request is a goroutine that issues one SQL statement at a time, none  *)
(* of them in a transaction.  Conversations are deleted softly: whoever    *)
(* looks for one by its id finds nothing, but its row, and the foreign key *)
(* of its messages, stay.  A message is deleted for good.                  *)
(*                                                                         *)
(* Every UPDATE of a conversation is a check, the UPDATE and a re-read.    *)
(* Only the UPDATE counts here: the other two can make the request fail,   *)
(* which any statement can (Fail).  updated_at and the pin are left out.   *)
(***************************************************************************)
EXTENDS Integers, FiniteSets, Sequences, Functions

CONSTANTS
  Users,
  Requests,       \* concurrent HTTP requests
  Conversations,  \* conversation ids; each is given out once
  MaxId,          \* bound on the message ids given out
  MaxChunks,      \* bound on the chunks of a reply
  Operations,     \* what each request may ask for: all, or a bound on an instance
  None            \* an unset local

ASSUME ChatAssumption ==
  /\ MaxId \in Nat
  /\ MaxChunks \in Nat
  /\ None \notin Nat

VARIABLES
  conversations,  \* the chat_conversations table, deleted rows included
  messages,       \* the chat_messages table
  lastId,         \* the last message id given out
  pc,             \* the next statement of each request
  call            \* its parameters, and what it has read

tables   == <<conversations, messages, lastId>>
chatVars == <<tables, pc, call>>

-----------------------------------------------------------------------------

\* Titles, by where they come from; clients use the first one on purpose.
Default == "New conversation"
Titles  == {Default, "explicit", "auto"}

Ids    == 1..MaxId
Chunks == 1..MaxChunks

Conversation == [owner : Users, title : Titles, deleted : BOOLEAN]

\* The content of a reply is its chunks; nobody looks into what users write.
Message == [conversation : Conversations, user : Users, content : Seq(Chunks)]

Ops == {"send", "stream", "update", "delete", "deleteMessage"}

Call == [ op           : Ops,
          user         : Users,
          conversation : Conversations,
          message      : Ids \cup {None},
          title        : Titles ]

PCs == {"idle", "open", "insert", "touch", "context", "title", "generate", "bump",
        "update", "delete", "deleteMessage", "streaming"}

ChatTypeOK ==
  /\ DOMAIN conversations \subseteq Conversations
  /\ conversations \in [DOMAIN conversations -> Conversation]
  /\ lastId \in 0..MaxId
  /\ DOMAIN messages \subseteq 1..lastId
  /\ messages \in [DOMAIN messages -> Message]
  /\ pc \in [Requests -> PCs]
  /\ DOMAIN call \subseteq Requests
  /\ call \in [DOMAIN call -> Call]

ChatInit ==
  /\ conversations = [c \in {} |-> None]
  /\ messages = [m \in {} |-> None]
  /\ lastId = 0
  /\ pc = [r \in Requests |-> "idle"]
  /\ call = [r \in {} |-> None]

-----------------------------------------------------------------------------
(* Requests.                                                               *)

Goto(r, label) == pc' = [pc EXCEPT ![r] = label]

Enter(r, c, label) ==
  /\ call' = [q \in DOMAIN call \cup {r} |-> IF q = r THEN c ELSE call[q]]
  /\ Goto(r, label)

Return(r) ==
  /\ call' = Restrict(call, DOMAIN call \ {r})
  /\ Goto(r, "idle")

\* A statement fails, or the client has gone and its context with it: what was
\* written stays.
Fail(r) ==
  /\ pc[r] \notin {"idle", "streaming"}
  /\ Return(r)
  /\ UNCHANGED tables

Asked(op, u, c, m) ==
  [op |-> op, user |-> u, conversation |-> c, message |-> m, title |-> Default]

-----------------------------------------------------------------------------
(* The tables.                                                             *)

\* A row that queries find.
Visible(c) == c \in DOMAIN conversations /\ ~conversations[c].deleted

\* getOwnedConversation, and the owner checks spelled out elsewhere.
Owned(c, u) == Visible(c) /\ conversations[c].owner = u

InsertConversation(c, u, t) ==
  /\ c \notin DOMAIN conversations
  /\ conversations' = [x \in DOMAIN conversations \cup {c} |->
                         IF x = c THEN [owner |-> u, title |-> t, deleted |-> FALSE]
                         ELSE conversations[x]]

\* CreateMessage of the repository.
InsertMessage(c, u, content) ==
  /\ lastId < MaxId
  /\ lastId' = lastId + 1
  /\ messages' = [m \in DOMAIN messages \cup {lastId + 1} |->
                    IF m = lastId + 1
                    THEN [conversation |-> c, user |-> u, content |-> content]
                    ELSE messages[m]]

\* GetMessagesByConversationIDAsc.
MessagesOf(c, u) ==
  {m \in DOMAIN messages : messages[m].conversation = c /\ messages[m].user = u}

-----------------------------------------------------------------------------
(* Conversations.                                                          *)

CreateConversation(u, c, t) ==
  /\ InsertConversation(c, u, t)
  /\ UNCHANGED <<messages, lastId, pc, call>>

\* CreateConversationStream: a conversation, then a streamed message in it.
CreateConversationStream(r, u, c, t) ==
  /\ pc[r] = "idle"
  /\ "createStream" \in Operations[r]
  /\ InsertConversation(c, u, t)
  /\ Enter(r, Asked("stream", u, c, None), "open")
  /\ UNCHANGED <<messages, lastId>>

\* What each operation does once it has found its conversation.
AfterOpen(op) == IF op \in {"send", "stream"} THEN "insert" ELSE op

\* The first statement of the operations on a conversation.
OpenConversation(r, u, op, c) ==
  /\ pc[r] = "idle"
  /\ op \in Operations[r]
  /\ Owned(c, u)
  /\ Enter(r, [Asked(op, u, c, None) EXCEPT !.title = conversations[c].title], AfterOpen(op))
  /\ UNCHANGED tables

\* The same read, by a request that has come so far already.
OpenOwn(r) ==
  /\ pc[r] = "open"
  /\ LET c == call[r].conversation IN
     \/ /\ Owned(c, call[r].user)
        /\ call' = [call EXCEPT ![r].title = conversations[c].title]
        /\ Goto(r, AfterOpen(call[r].op))
     \/ /\ ~Owned(c, call[r].user)
        /\ Return(r)
  /\ UNCHANGED tables

\* The UPDATE finds a row that is not deleted.
SetTitle(c, t) ==
  conversations' = [x \in DOMAIN conversations |->
                      IF x = c /\ Visible(c) THEN [conversations[x] EXCEPT !.title = t]
                      ELSE conversations[x]]

\* A blank title leaves the title alone.
UpdateConversation(r) ==
  /\ pc[r] = "update"
  /\ \/ \E t \in {Default, "explicit"} : SetTitle(call[r].conversation, t)
     \/ UNCHANGED conversations
  /\ Return(r)
  /\ UNCHANGED <<messages, lastId>>

DeleteConversation(r) ==
  /\ pc[r] = "delete"
  /\ conversations' = [conversations EXCEPT ![call[r].conversation].deleted = TRUE]
  /\ Return(r)
  /\ UNCHANGED <<messages, lastId>>

-----------------------------------------------------------------------------
(* Messages.                                                               *)

\* The user's message is stored.
StoreMessage(r) ==
  /\ pc[r] = "insert"
  /\ InsertMessage(call[r].conversation, call[r].user, <<>>)
  /\ Goto(r, "touch")
  /\ UNCHANGED <<conversations, call>>

\* The conversation is bumped.  If it has been deleted meanwhile the request
\* ends here, with its message stored.  It also ends here, well, when the role
\* is not "user" or there is no AI to ask.
TouchConversation(r) ==
  /\ pc[r] = "touch"
  /\ \/ Visible(call[r].conversation) /\ Goto(r, "context") /\ UNCHANGED call
     \/ Return(r)
  /\ UNCHANGED tables

\* The context of the reply is read; a first message gives a conversation that
\* had no title of its own when it was opened its title.
ReadContext(r) ==
  /\ pc[r] = "context"
  /\ LET first == Cardinality(MessagesOf(call[r].conversation, call[r].user)) = 1 IN
     Goto(r, IF call[r].title = Default /\ first THEN "title" ELSE "generate")
  /\ UNCHANGED <<tables, call>>

\* A text without words leaves the default title.
TitleConversation(r) ==
  /\ pc[r] = "title"
  /\ \/ /\ Visible(call[r].conversation)
        /\ \E t \in {Default, "auto"} : SetTitle(call[r].conversation, t)
        /\ Goto(r, "generate")
        /\ UNCHANGED call
     \/ /\ ~Visible(call[r].conversation)
        /\ Return(r)
        /\ UNCHANGED conversations
  /\ UNCHANGED <<messages, lastId>>

Whole(n) == [i \in 1..n |-> i]

\* CreateMessage waits for the whole reply and stores it; an AI that fails or
\* has nothing to say leaves the user's message alone.
Reply(r) ==
  /\ pc[r] = "generate"
  /\ call[r].op = "send"
  /\ \/ /\ \E n \in 0..MaxChunks : InsertMessage(call[r].conversation, call[r].user, Whole(n))
        /\ Goto(r, "bump")
        /\ UNCHANGED call
     \/ /\ Return(r)
        /\ UNCHANGED <<messages, lastId>>
  /\ UNCHANGED conversations

\* The last bump: whether it succeeds or not, nothing follows.
Bump(r) ==
  /\ pc[r] = "bump"
  /\ Return(r)
  /\ UNCHANGED tables

\* GetMessageByID, before the conversation is looked up.
FindMessage(r, u, m) ==
  /\ pc[r] = "idle"
  /\ "deleteMessage" \in Operations[r]
  /\ m \in DOMAIN messages
  /\ messages[m].user = u
  /\ Enter(r, Asked("deleteMessage", u, messages[m].conversation, m), "open")
  /\ UNCHANGED tables

DeleteMessage(r) ==
  /\ pc[r] = "deleteMessage"
  /\ \/ /\ call[r].message \in DOMAIN messages
        /\ messages' = Restrict(messages, DOMAIN messages \ {call[r].message})
        /\ Goto(r, "bump")
        /\ UNCHANGED call
     \/ /\ call[r].message \notin DOMAIN messages
        /\ Return(r)
        /\ UNCHANGED messages
  /\ UNCHANGED <<conversations, lastId>>

-----------------------------------------------------------------------------

RequestStep(r) ==
  \/ \E u \in Users, c \in Conversations :
       \/ \E t \in Titles : CreateConversationStream(r, u, c, t)
       \/ \E op \in {"send", "stream", "update", "delete"} : OpenConversation(r, u, op, c)
  \/ \E u \in Users, m \in Ids : FindMessage(r, u, m)
  \/ OpenOwn(r)
  \/ UpdateConversation(r)
  \/ DeleteConversation(r)
  \/ StoreMessage(r)
  \/ TouchConversation(r)
  \/ ReadContext(r)
  \/ TitleConversation(r)
  \/ Reply(r)
  \/ Bump(r)
  \/ DeleteMessage(r)
  \/ Fail(r)

ChatNext ==
  \/ \E u \in Users, c \in Conversations, t \in {Default, "explicit"} : CreateConversation(u, c, t)
  \/ \E r \in Requests : RequestStep(r)
=============================================================================
