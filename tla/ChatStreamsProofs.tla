-------------------------- MODULE ChatStreamsProofs -------------------------
(***************************************************************************)
(* Theorems on the streamed AI reply for any number of users, requests,    *)
(* conversations, messages and chunks, while other requests send, rename   *)
(* and delete.                                                             *)
(***************************************************************************)
EXTENDS ChatStreamsInvariant, SequenceTheorems, TLAPS

USE ChatAssumption

-----------------------------------------------------------------------------
(* Chunks.                                                                 *)

\* Whole replies grow chunk by chunk.
LEMMA WholeFacts ==
  ASSUME NEW n \in Nat
  PROVE  /\ Len(Whole(n)) = n
         /\ Append(Whole(n), n + 1) = Whole(n + 1)
         /\ Last(Whole(n + 1)) = n + 1
         /\ Whole(0) = <<>>
  <1>1. \A k \in Nat : Whole(k) \in Seq(Nat) /\ Len(Whole(k)) = k
    BY DEF Whole
  <1>2. Append(Whole(n), n + 1) = Whole(n + 1)
    <2>1. DOMAIN Append(Whole(n), n + 1) = 1..(n + 1)
      BY <1>1, AppendProperties
    <2>2. \A i \in 1..(n + 1) : Append(Whole(n), n + 1)[i] = i
      BY <1>1, AppendProperties DEF Whole
    <2> QED BY <1>1, <2>1, <2>2 DEF Whole
  <1>3. Last(Whole(n + 1)) = n + 1
    BY <1>1 DEF Last, Whole
  <1> QED BY <1>1, <1>2, <1>3 DEF Whole

-----------------------------------------------------------------------------
(* The tables.                                                             *)

\* No row is written over, and no id given out twice.
RowsStay ==
  /\ lastId' \in Nat /\ lastId <= lastId'
  /\ \A m \in DOMAIN messages' : m \in 1..lastId => m \in DOMAIN messages /\ messages'[m] = messages[m]

TablesTypeOK ==
  /\ DOMAIN conversations \subseteq Conversations
  /\ conversations \in [DOMAIN conversations -> Conversation]
  /\ lastId \in 0..MaxId
  /\ DOMAIN messages \subseteq 1..lastId
  /\ messages \in [DOMAIN messages -> Message]

CallsTypeOK ==
  /\ pc \in [Requests -> PCs]
  /\ DOMAIN call \subseteq Requests
  /\ call \in [DOMAIN call -> Call]

LEMMA TablesKept ==
  ASSUME TablesTypeOK, UNCHANGED tables
  PROVE  TablesTypeOK' /\ RowsStay
  BY DEF TablesTypeOK, RowsStay, tables

LEMMA InsertMessageStep ==
  ASSUME TablesTypeOK, NEW c \in Conversations, NEW u \in Users, NEW s \in Seq(Chunks),
         InsertMessage(c, u, s), UNCHANGED conversations
  PROVE  /\ TablesTypeOK' /\ RowsStay
         /\ lastId + 1 \in 1..lastId'
         /\ lastId + 1 \in Ids
         /\ messages'[lastId + 1] = [conversation |-> c, user |-> u, content |-> s]
  <1> DEFINE row == [conversation |-> c, user |-> u, content |-> s]
  <1>1. row \in Message
    BY DEF Message
  <1>2. /\ lastId \in 0..MaxId /\ lastId < MaxId /\ lastId' = lastId + 1
        /\ messages' = [m \in DOMAIN messages \cup {lastId + 1} |->
                          IF m = lastId + 1 THEN row ELSE messages[m]]
    BY DEF InsertMessage, TablesTypeOK
  <1> HIDE DEF row
  <1>3. messages' \in [DOMAIN messages' -> Message]
    BY <1>1, <1>2 DEF TablesTypeOK
  <1>4. TablesTypeOK' /\ lastId + 1 \in 1..lastId' /\ lastId + 1 \in Ids /\ messages'[lastId + 1] = row
    BY <1>2, <1>3 DEF TablesTypeOK, Ids
  <1>5. RowsStay
    BY <1>2 DEF TablesTypeOK, RowsStay
  <1> QED BY <1>4, <1>5 DEF row

\* A write to the conversations leaves the messages alone.
LEMMA ConversationsStep ==
  ASSUME TablesTypeOK, UNCHANGED <<messages, lastId>>,
         DOMAIN conversations' \subseteq Conversations,
         conversations' \in [DOMAIN conversations' -> Conversation]
  PROVE  TablesTypeOK' /\ RowsStay
  BY DEF TablesTypeOK, RowsStay

LEMMA SetTitleStep ==
  ASSUME TablesTypeOK, NEW c, NEW t \in Titles, SetTitle(c, t), UNCHANGED <<messages, lastId>>
  PROVE  TablesTypeOK' /\ RowsStay
  <1>1. \A x \in DOMAIN conversations :
          [conversations[x] EXCEPT !.title = t] \in Conversation
    BY DEF TablesTypeOK, Conversation
  <1>2. DOMAIN conversations' = DOMAIN conversations
    BY DEF SetTitle
  <1>3. conversations' \in [DOMAIN conversations' -> Conversation]
    BY <1>1 DEF TablesTypeOK, SetTitle
  <1> QED BY <1>2, <1>3, ConversationsStep DEF TablesTypeOK

LEMMA InsertConversationStep ==
  ASSUME TablesTypeOK, NEW c \in Conversations, NEW u \in Users, NEW t \in Titles,
         InsertConversation(c, u, t), UNCHANGED <<messages, lastId>>
  PROVE  TablesTypeOK' /\ RowsStay
  <1>1. [owner |-> u, title |-> t, deleted |-> FALSE] \in Conversation
    BY DEF Conversation
  <1> QED BY <1>1, ConversationsStep DEF TablesTypeOK, InsertConversation

-----------------------------------------------------------------------------
(* How requests move.                                                      *)

\* The step is request r's, which is not streaming before or after it.
OthersStay(r) ==
  /\ DOMAIN call' \ {r} = DOMAIN call \ {r}
  /\ \A q \in DOMAIN call \ {r} : call'[q] = call[q]
  /\ \A q \in Requests \ {r} : pc'[q] = pc[q]

LEMMA Returns ==
  ASSUME CallsTypeOK, NEW r \in Requests, Return(r)
  PROVE  OthersStay(r) /\ CallsTypeOK' /\ r \notin DOMAIN call' /\ pc'[r] = "idle"
  BY DEF CallsTypeOK, PCs, Return, Goto, Restrict, OthersStay

LEMMA Moves ==
  ASSUME CallsTypeOK, NEW r \in Requests, NEW label \in PCs, Goto(r, label), UNCHANGED call
  PROVE  OthersStay(r) /\ CallsTypeOK' /\ pc'[r] = label
  BY DEF CallsTypeOK, Goto, OthersStay

LEMMA Enters ==
  ASSUME CallsTypeOK, NEW r \in Requests, NEW c \in Call, NEW label \in PCs, Enter(r, c, label)
  PROVE  OthersStay(r) /\ CallsTypeOK' /\ r \in DOMAIN call' /\ pc'[r] = label
  BY DEF CallsTypeOK, Enter, Goto, OthersStay

-----------------------------------------------------------------------------
(* Requests that do not stream.                                            *)

LEMMA TypeParts ==
  /\ TypeOK => TablesTypeOK /\ CallsTypeOK
  /\ TablesTypeOK /\ CallsTypeOK <=> ChatTypeOK
  /\ TablesTypeOK' /\ CallsTypeOK' <=> ChatTypeOK'
  BY DEF TypeOK, ChatTypeOK, TablesTypeOK, CallsTypeOK

\* What a step of the chat service is to any stream.
Beside(r) ==
  /\ TablesTypeOK' /\ RowsStay
  /\ CallsTypeOK' /\ OthersStay(r)
  /\ pc'[r] = "idle" <=> r \notin DOMAIN call'
  /\ ~Streaming(r) /\ ~Streaming(r)'

LEMMA WholeTyped ==
  ASSUME NEW n \in 0..MaxChunks
  PROVE  Whole(n) \in Seq(Chunks)
  BY DEF Whole, Chunks

\* What a request that has begun knows.
LEMMA Active ==
  ASSUME IInv, NEW r \in Requests, pc[r] # "idle"
  PROVE  /\ TablesTypeOK /\ CallsTypeOK /\ pc[r] \in PCs
         /\ r \in DOMAIN call /\ call[r] \in Call
         /\ call[r].op \in Ops /\ call[r].user \in Users /\ call[r].conversation \in Conversations
  <1>1. TablesTypeOK /\ CallsTypeOK
    BY TypeParts DEF IInv
  <1>2. r \in DOMAIN call
    BY DEF IInv, StreamOK
  <1> QED BY <1>1, <1>2 DEF CallsTypeOK, Call

LEMMA ReturnsBeside ==
  ASSUME IInv, NEW r \in Requests, ~Streaming(r), TablesTypeOK', RowsStay, Return(r)
  PROVE  Beside(r)
  BY Returns, TypeParts DEF Beside, IInv, Streaming

LEMMA MovesBeside ==
  ASSUME IInv, NEW r \in Requests, NEW label \in PCs \ {"idle", "streaming"},
         pc[r] \notin {"idle", "streaming"},
         TablesTypeOK', RowsStay, Goto(r, label), UNCHANGED call
  PROVE  Beside(r)
  BY Moves, Active, TypeParts DEF Beside, IInv, Streaming

LEMMA EntersBeside ==
  ASSUME IInv, NEW r \in Requests, NEW label \in PCs \ {"idle", "streaming"}, NEW c \in Call,
         pc[r] = "idle", TablesTypeOK', RowsStay, Enter(r, c, label)
  PROVE  Beside(r)
  BY Enters, TypeParts DEF Beside, IInv, Streaming

LEMMA Openings ==
  ASSUME IInv, NEW r \in Requests,
         \/ \E u \in Users, c \in Conversations :
              \/ \E t \in Titles : CreateConversationStream(r, u, c, t)
              \/ \E op \in {"send", "stream", "update", "delete"} : OpenConversation(r, u, op, c)
         \/ \E u \in Users, m \in Ids : FindMessage(r, u, m)
         \/ OpenOwn(r)
  PROVE  Beside(r)
  <1>1. TablesTypeOK /\ CallsTypeOK
    BY TypeParts DEF IInv
  <1>2. ASSUME NEW op \in Ops, NEW u \in Users, NEW c \in Conversations, NEW m \in Ids \cup {None}
        PROVE  /\ Asked(op, u, c, m) \in Call
               /\ \A t \in Titles : [Asked(op, u, c, m) EXCEPT !.title = t] \in Call
    BY DEF Asked, Call, Titles
  <1>3. \A op \in Ops : AfterOpen(op) \in PCs \ {"idle", "streaming"}
    BY DEF AfterOpen, Ops, PCs
  <1>4. \A c \in Conversations : Visible(c) => conversations[c].title \in Titles
    BY <1>1 DEF Visible, TablesTypeOK, Conversation
  <1>5. ASSUME NEW u \in Users, NEW c \in Conversations, NEW t \in Titles,
               CreateConversationStream(r, u, c, t)
        PROVE  Beside(r)
    <2>1. TablesTypeOK' /\ RowsStay
      BY <1>1, <1>5, InsertConversationStep DEF CreateConversationStream
    <2>2. Asked("stream", u, c, None) \in Call
      BY <1>2 DEF Ops
    <2> QED BY <1>5, <2>1, <2>2, EntersBeside DEF CreateConversationStream, PCs
  <1>6. ASSUME NEW u \in Users, NEW c \in Conversations, NEW op \in {"send", "stream", "update", "delete"},
               OpenConversation(r, u, op, c)
        PROVE  Beside(r)
    <2>1. TablesTypeOK' /\ RowsStay
      BY <1>1, <1>6, TablesKept DEF OpenConversation
    <2>2. op \in Ops /\ conversations[c].title \in Titles
      BY <1>4, <1>6 DEF OpenConversation, Owned, Ops
    <2> QED BY <1>2, <1>3, <1>6, <2>1, <2>2, EntersBeside DEF OpenConversation
  <1>7. ASSUME NEW u \in Users, NEW m \in Ids, FindMessage(r, u, m)
        PROVE  Beside(r)
    <2>1. TablesTypeOK' /\ RowsStay
      BY <1>1, <1>7, TablesKept DEF FindMessage
    <2>2. messages[m].conversation \in Conversations
      BY <1>1, <1>7 DEF FindMessage, TablesTypeOK, Message
    <2>3. Asked("deleteMessage", u, messages[m].conversation, m) \in Call
      BY <1>2, <2>2 DEF Ops
    <2> QED BY <1>7, <2>1, <2>3, EntersBeside DEF FindMessage, PCs
  <1>8. CASE OpenOwn(r)
    <2>1. TablesTypeOK' /\ RowsStay
      BY <1>1, <1>8, TablesKept DEF OpenOwn
    <2>2. pc[r] = "open" /\ r \in DOMAIN call /\ call[r] \in Call
      BY <1>8, Active DEF OpenOwn
    <2>3. CASE Return(r)
      BY <2>1, <2>2, <2>3, ReturnsBeside DEF Streaming
    <2>4. CASE /\ Owned(call[r].conversation, call[r].user)
               /\ call' = [call EXCEPT ![r].title = conversations[call[r].conversation].title]
               /\ Goto(r, AfterOpen(call[r].op))
      <3> DEFINE label == AfterOpen(call[r].op)
                 c == [call[r] EXCEPT !.title = conversations[call[r].conversation].title]
      <3>1. label \in PCs \ {"idle", "streaming"}
        BY <1>3, <2>2 DEF Call
      <3>2. c \in Call
        BY <1>4, <2>2, <2>4 DEF Owned, Call
      <3>3. call' = [call EXCEPT ![r] = c] /\ Goto(r, label)
        BY <2>4
      <3> HIDE DEF c, label
      <3>4. OthersStay(r) /\ CallsTypeOK' /\ pc'[r] = label /\ r \in DOMAIN call'
        BY <1>1, <2>2, <3>1, <3>2, <3>3 DEF CallsTypeOK, Goto, OthersStay
      <3> QED BY <2>1, <2>2, <3>1, <3>4 DEF Beside, Streaming
    <2> QED BY <1>8, <2>3, <2>4 DEF OpenOwn
  <1> QED BY <1>5, <1>6, <1>7, <1>8

LEMMA Writings ==
  ASSUME IInv, NEW r \in Requests,
         \/ UpdateConversation(r) \/ DeleteConversation(r)
         \/ StoreMessage(r) \/ Reply(r) \/ DeleteMessage(r)
  PROVE  Beside(r)
  <1>1. pc[r] \notin {"idle", "streaming"}
    BY DEF UpdateConversation, DeleteConversation, StoreMessage, Reply, DeleteMessage
  <1>2. /\ TablesTypeOK /\ CallsTypeOK /\ r \in DOMAIN call
        /\ call[r].user \in Users /\ call[r].conversation \in Conversations
    BY <1>1, Active
  <1> DEFINE c == call[r].conversation
             u == call[r].user
  <1>3. TablesTypeOK' /\ RowsStay
    <2>1. CASE UNCHANGED tables
      BY <1>2, <2>1, TablesKept
    <2>2. CASE UpdateConversation(r)
      <3>1. Default \in Titles /\ "explicit" \in Titles
        BY DEF Titles
      <3> QED BY <1>2, <2>1, <2>2, <3>1, SetTitleStep DEF UpdateConversation, tables
    <2>3. CASE DeleteConversation(r)
      <3>1. \A x \in DOMAIN conversations : [conversations[x] EXCEPT !.deleted = TRUE] \in Conversation
        BY <1>2 DEF TablesTypeOK, Conversation
      <3>2. conversations' \in [DOMAIN conversations -> Conversation]
        BY <1>2, <2>3, <3>1 DEF DeleteConversation, TablesTypeOK
      <3> QED BY <1>2, <2>3, <3>2, ConversationsStep DEF DeleteConversation, TablesTypeOK
    <2>4. CASE StoreMessage(r)
      <3>1. <<>> \in Seq(Chunks)
        OBVIOUS
      <3> QED BY <1>2, <2>4, <3>1, InsertMessageStep DEF StoreMessage
    <2>5. CASE Reply(r)
      BY <1>2, <2>1, <2>5, WholeTyped, InsertMessageStep DEF Reply, tables
    <2>6. CASE DeleteMessage(r)
      BY <1>2, <2>6 DEF DeleteMessage, Restrict, TablesTypeOK, RowsStay
    <2> QED BY <2>2, <2>3, <2>4, <2>5, <2>6
  <1>4. \/ Return(r)
        \/ Goto(r, "touch") /\ UNCHANGED call
        \/ Goto(r, "bump") /\ UNCHANGED call
    BY DEF UpdateConversation, DeleteConversation, StoreMessage, Reply, DeleteMessage
  <1> QED BY <1>1, <1>3, <1>4, ReturnsBeside, MovesBeside DEF Streaming, PCs

LEMMA Passings ==
  ASSUME IInv, NEW r \in Requests,
         TouchConversation(r) \/ ReadContext(r) \/ TitleConversation(r) \/ Bump(r) \/ Fail(r)
  PROVE  Beside(r)
  <1>1. pc[r] \notin {"idle", "streaming"}
    BY DEF TouchConversation, ReadContext, TitleConversation, Bump, Fail
  <1>2. TablesTypeOK
    BY <1>1, Active
  <1>3. TablesTypeOK' /\ RowsStay
    <2>1. CASE UNCHANGED tables
      BY <1>2, <2>1, TablesKept
    <2>2. CASE TitleConversation(r)
      <3>1. Default \in Titles /\ "auto" \in Titles
        BY DEF Titles
      <3> QED BY <1>2, <2>1, <2>2, <3>1, SetTitleStep DEF TitleConversation, tables
    <2> QED BY <2>1, <2>2 DEF TouchConversation, ReadContext, Bump, Fail
  <1>4. \/ Return(r)
        \/ \E label \in {"context", "title", "generate"} : Goto(r, label) /\ UNCHANGED call
    BY DEF TouchConversation, ReadContext, TitleConversation, Bump, Fail
  <1> QED BY <1>1, <1>3, <1>4, ReturnsBeside, MovesBeside DEF Streaming, PCs

-----------------------------------------------------------------------------
(* What a step leaves to the other streams.                                *)

\* The three goroutines of r, and the request itself, stay where they are.
SameStream(r) ==
  /\ provider'[r] = provider[r] /\ produced'[r] = produced[r] /\ broken'[r] = broken[r]
  /\ relay'[r] = relay[r] /\ content'[r] = content[r] /\ failure'[r] = failure[r]
  /\ reply'[r] = reply[r] /\ complete'[r] = complete[r]
  /\ handler'[r] = handler[r] /\ hand'[r] = hand[r] /\ shown'[r] = shown[r]
  /\ verdicts'[r] = verdicts[r] /\ ended'[r] = ended[r]

SameRequest(r) ==
  /\ pc'[r] = pc[r]
  /\ r \in DOMAIN call' <=> r \in DOMAIN call
  /\ r \in DOMAIN call => call'[r] = call[r]

LEMMA StreamStays ==
  ASSUME NEW r \in Requests, StreamOK(r), lastId \in Nat, RowsStay, SameStream(r), SameRequest(r)
  PROVE  StreamOK(r)'
  <1>1. Streaming(r)' <=> Streaming(r)
    BY DEF Streaming, SameRequest
  <1>2. ~Streaming(r) => AtRest(r)'
    BY DEF StreamOK, AtRest, SameStream
  <1>3. CASE Streaming(r)
    <2>1. ProviderOK(r)'
      BY <1>3 DEF StreamOK, ProviderOK, SameStream, Whole
    <2>2. RelayOK(r)'
      BY <1>3 DEF StreamOK, RelayOK, SameStream
    <2>3. ReplyOK(r)'
      <3>1. r \in DOMAIN call /\ call'[r] = call[r]
        BY <1>3 DEF StreamOK, Streaming, SameRequest
      <3> QED BY <1>3, <3>1 DEF StreamOK, ReplyOK, SameStream, RowsStay
    <2>4. HandlerOK(r)'
      BY <1>3 DEF StreamOK, HandlerOK, Passed, SameStream, Whole
    <2> QED BY <1>1, <1>3, <2>1, <2>2, <2>3, <2>4 DEF StreamOK, SameRequest
  <1> QED BY <1>1, <1>2, <1>3 DEF StreamOK, SameRequest

LEMMA ChatStep ==
  ASSUME IInv, ChatNext, UNCHANGED <<providerVars, relayVars, handlerVars>>
  PROVE  IInv'
  <1>1. TablesTypeOK /\ CallsTypeOK /\ lastId \in Nat
    BY TypeParts DEF IInv, TablesTypeOK
  <1>2. \A r : SameStream(r)
    BY DEF SameStream, providerVars, relayVars, handlerVars
  <1>3. ASSUME TablesTypeOK', CallsTypeOK'
        PROVE  TypeOK'
    <2>1. ChatTypeOK'
      BY <1>3, TypeParts
    <2> QED BY <2>1 DEF IInv, TypeOK, providerVars, relayVars, handlerVars
  <1>4. ASSUME NEW r \in Requests, Beside(r)
        PROVE  IInv'
    <2>1. ASSUME NEW q \in Requests
          PROVE  StreamOK(q)'
      <3>1. CASE q = r
        <4>1. AtRest(q)
          BY <1>4, <3>1 DEF IInv, StreamOK, Beside
        <4>2. AtRest(q)'
          BY <1>2, <4>1 DEF AtRest, SameStream
        <4> QED BY <1>4, <3>1, <4>2 DEF StreamOK, Beside
      <3>2. CASE q # r
        <4>1. SameRequest(q) /\ RowsStay
          BY <1>4, <3>2 DEF Beside, OthersStay, SameRequest
        <4> QED BY <1>1, <1>2, <4>1, StreamStays DEF IInv
      <3> QED BY <3>1, <3>2
    <2> QED BY <1>3, <1>4, <2>1 DEF IInv, Beside
  <1>5. ASSUME NEW u \in Users, NEW c \in Conversations, NEW t \in {Default, "explicit"},
               CreateConversation(u, c, t)
        PROVE  IInv'
    <2>1. TablesTypeOK' /\ RowsStay
      BY <1>1, <1>5, InsertConversationStep DEF CreateConversation, Titles
    <2>2. CallsTypeOK' /\ \A q : SameRequest(q)
      BY <1>1, <1>5 DEF CreateConversation, CallsTypeOK, SameRequest
    <2>3. \A q \in Requests : StreamOK(q)'
      BY <1>1, <1>2, <2>1, <2>2, StreamStays DEF IInv
    <2> QED BY <1>3, <2>1, <2>2, <2>3 DEF IInv
  <1>6. ASSUME NEW r \in Requests, RequestStep(r)
        PROVE  Beside(r)
    BY <1>6, Openings, Writings, Passings DEF RequestStep
  <1> QED BY <1>4, <1>5, <1>6 DEF ChatNext

\* A step of r's goroutines is seen in r's stream only.
LEMMA StreamAlone ==
  ASSUME IInv, NEW r \in Requests, TypeOK', RowsStay, UNCHANGED <<pc, call>>,
         \A q \in Requests \ {r} : SameStream(q),
         StreamOK(r)'
  PROVE  IInv'
  <1>1. lastId \in Nat
    BY TypeParts DEF IInv, TablesTypeOK
  <1>2. \A q : SameRequest(q)
    BY DEF SameRequest
  <1>3. ASSUME NEW q \in Requests \ {r}
        PROVE  StreamOK(q)'
    BY <1>1, <1>2, StreamStays DEF IInv
  <1> QED BY <1>3 DEF IInv

-----------------------------------------------------------------------------
(* Steps of the provider.                                                  *)

\* What holds of a running stream.
LEMMA Running ==
  ASSUME IInv, NEW r \in Requests, Streaming(r) \/ provider[r] # "off" \/ relay[r] # "off" \/ handler[r] # "off"
  PROVE  /\ Streaming(r) /\ ProviderOK(r) /\ RelayOK(r) /\ ReplyOK(r) /\ HandlerOK(r)
         /\ Len(content[r]) \in Nat /\ Len(shown[r]) \in Nat
         /\ produced[r] \in Nat /\ lastId \in Nat
  <1>1. StreamOK(r) /\ TypeOK
    BY DEF IInv
  <1>2. Streaming(r)
    BY <1>1 DEF StreamOK, AtRest
  <1>3. content[r] \in Seq(Chunks) /\ shown[r] \in Seq(Chunks) /\ produced[r] \in Nat
    BY <1>1 DEF TypeOK
  <1>4. lastId \in Nat
    BY <1>1, TypeParts DEF TablesTypeOK
  <1> QED BY <1>1, <1>2, <1>3, <1>4, LenProperties DEF StreamOK

LEMMA ProviderSteps ==
  ASSUME IInv, NEW r \in Requests, ProviderStep(r)
  PROVE  IInv'
  <1>1. provider[r] \in {"reading", "sending"}
    BY DEF ProviderStep, NextChunk, LastChunk, ReadFails, ProviderCancels
  <1>2. /\ Streaming(r) /\ ProviderOK(r) /\ RelayOK(r) /\ ReplyOK(r) /\ HandlerOK(r)
        /\ Len(content[r]) \in Nat /\ produced[r] \in Nat
    BY <1>1, Running
  <1>3. /\ UNCHANGED <<chatVars, relayVars, handlerVars>>
        /\ UNCHANGED <<pc, call, messages, lastId>>
    BY DEF ProviderStep, NextChunk, LastChunk, ReadFails, ProviderCancels, Breaks, chatVars, tables
  <1>4. RowsStay
    BY <1>3, TypeParts, TablesKept DEF IInv, chatVars
  <1>5. TypeOK'
    <2>1. ChatTypeOK'
      BY <1>3 DEF IInv, TypeOK, ChatTypeOK, chatVars, tables
    <2>2. /\ provider' \in [Requests -> {"off", "reading", "sending", "done"}]
          /\ produced' \in [Requests -> 0..MaxChunks]
          /\ broken' \in [Requests -> BOOLEAN]
      <3>1. /\ provider \in [Requests -> {"off", "reading", "sending", "done"}]
            /\ produced \in [Requests -> 0..MaxChunks]
            /\ broken \in [Requests -> BOOLEAN]
        BY DEF IInv, TypeOK
      <3>2. CASE NextChunk(r)
        <4>1. produced[r] + 1 \in 0..MaxChunks
          BY <3>1, <3>2 DEF NextChunk
        <4> QED BY <3>1, <3>2, <4>1 DEF NextChunk
      <3>3. CASE LastChunk(r) \/ Breaks(r)
        BY <3>1, <3>3 DEF LastChunk, Breaks
      <3> QED BY <3>2, <3>3 DEF ProviderStep, ReadFails, ProviderCancels
    <2> QED BY <1>3, <2>1, <2>2 DEF IInv, TypeOK, relayVars, handlerVars
  <1>6. \A q \in Requests \ {r} : SameStream(q)
    BY <1>3 DEF IInv, TypeOK, SameStream, relayVars, handlerVars, ProviderStep, NextChunk, LastChunk,
                ReadFails, ProviderCancels, Breaks
  <1>7. ProviderOK(r)'
    BY <1>2, <1>3 DEF IInv, TypeOK, ProviderOK, Whole, relayVars, ProviderStep, NextChunk, LastChunk,
                      ReadFails, ProviderCancels, Breaks
  <1>8. RelayOK(r)'
    BY <1>1, <1>2, <1>3 DEF RelayOK, relayVars
  <1>9. ReplyOK(r)' /\ HandlerOK(r)'
    BY <1>2, <1>3 DEF ReplyOK, HandlerOK, Passed, Whole, relayVars, handlerVars
  <1>10. StreamOK(r)'
    BY <1>2, <1>3, <1>7, <1>8, <1>9 DEF IInv, StreamOK, Streaming
  <1> QED BY <1>3, <1>4, <1>5, <1>6, <1>10, StreamAlone

-----------------------------------------------------------------------------
(* Steps of the relay.                                                     *)

\* A step that leaves the tables and the requests alone.
LEMMA ChatStays ==
  ASSUME IInv, UNCHANGED chatVars
  PROVE  ChatTypeOK' /\ RowsStay /\ UNCHANGED <<pc, call, messages, lastId>>
  <1>1. RowsStay
    BY TypeParts, TablesKept DEF IInv, chatVars
  <1>2. ChatTypeOK' /\ UNCHANGED <<pc, call, messages, lastId>>
    BY DEF IInv, TypeOK, ChatTypeOK, chatVars, tables
  <1> QED BY <1>1, <1>2

LEMMA ReceiveChunkStep ==
  ASSUME IInv, NEW r \in Requests, ReceiveChunk(r)
  PROVE  IInv'
  <1> DEFINE got == Len(content[r])
  <1>1. /\ Streaming(r) /\ ProviderOK(r) /\ RelayOK(r) /\ ReplyOK(r) /\ HandlerOK(r)
        /\ got \in Nat /\ Len(shown[r]) \in Nat /\ provider[r] = "sending" /\ relay[r] = "receiving"
    BY Running DEF ReceiveChunk
  <1>2. /\ provider \in [Requests -> {"off", "reading", "sending", "done"}]
        /\ relay \in [Requests -> {"off", "receiving", "forwarding", "saving", "touching", "done"}]
        /\ content \in [Requests -> Seq(Chunks)]
        /\ produced \in [Requests -> 0..MaxChunks]
    BY DEF IInv, TypeOK
  <1>3. /\ UNCHANGED <<chatVars, handlerVars, produced, broken, failure, reply, complete>>
        /\ UNCHANGED <<pc, call, messages, lastId, shown, verdicts, ended, handler, hand>>
        /\ ChatTypeOK' /\ RowsStay
    BY ChatStays DEF ReceiveChunk, handlerVars
  <1>4. /\ content[r] = Whole(got) /\ produced[r] = got + 1 /\ produced[r] \in Chunks
    BY <1>1, <1>2 DEF ProviderOK, Chunks
  <1>5. Append(content[r], produced[r]) = Whole(got + 1)
    BY <1>1, <1>4, WholeFacts
  <1>6. Append(content[r], produced[r]) \in Seq(Chunks)
    BY <1>2, <1>4, AppendProperties
  <1>7. Len(Whole(got + 1)) = got + 1 /\ Whole(got + 1) # <<>>
    <2>1. got + 1 \in Nat /\ got + 1 # 0
      BY <1>1
    <2>2. Len(Whole(got + 1)) = got + 1
      BY <2>1, WholeFacts
    <2> QED BY <2>1, <2>2
  <1>8. /\ provider'[r] = "reading" /\ relay'[r] = "forwarding" /\ content'[r] = Whole(got + 1)
        /\ Len(content'[r]) = got + 1
    BY <1>2, <1>5, <1>7 DEF ReceiveChunk
  <1>9. TypeOK'
    <2>1. /\ provider' \in [Requests -> {"off", "reading", "sending", "done"}]
          /\ relay' \in [Requests -> {"off", "receiving", "forwarding", "saving", "touching", "done"}]
          /\ content' \in [Requests -> Seq(Chunks)]
      BY <1>2, <1>6 DEF ReceiveChunk
    <2> QED BY <1>3, <2>1 DEF IInv, TypeOK, handlerVars
  <1>10. \A q \in Requests \ {r} : SameStream(q)
    BY <1>2, <1>3 DEF SameStream, ReceiveChunk
  <1>11. ProviderOK(r)' /\ RelayOK(r)'
    BY <1>1, <1>3, <1>4, <1>7, <1>8 DEF ProviderOK, RelayOK, Whole
  <1>12. ReplyOK(r)' /\ HandlerOK(r)'
    BY <1>1, <1>3, <1>8 DEF RelayOK, ReplyOK, HandlerOK, Passed, Whole
  <1>13. StreamOK(r)'
    BY <1>1, <1>3, <1>11, <1>12 DEF IInv, StreamOK, Streaming
  <1> QED BY <1>3, <1>9, <1>10, <1>13, StreamAlone

LEMMA ForwardChunkStep ==
  ASSUME IInv, NEW r \in Requests, ForwardChunk(r)
  PROVE  IInv'
  <1> DEFINE sent == Len(shown[r])
  <1>1. /\ Streaming(r) /\ ProviderOK(r) /\ RelayOK(r) /\ ReplyOK(r) /\ HandlerOK(r)
        /\ Len(content[r]) \in Nat /\ sent \in Nat /\ handler[r] = "ranging" /\ relay[r] = "forwarding"
    BY Running DEF ForwardChunk
  <1>2. /\ relay \in [Requests -> {"off", "receiving", "forwarding", "saving", "touching", "done"}]
        /\ content \in [Requests -> Seq(Chunks)]
        /\ handler \in [Requests -> {"off", "opening", "ranging", "writing", "closing", "returned"}]
        /\ hand \in [Requests -> Chunks \cup {None}]
    BY DEF IInv, TypeOK
  <1>3. /\ UNCHANGED <<provider, produced, broken, content, failure, reply, complete>>
        /\ UNCHANGED <<pc, call, messages, lastId, shown, verdicts, ended, canceled>>
        /\ ChatTypeOK' /\ RowsStay
    BY ChatStays DEF ForwardChunk, providerVars
  <1>4. failure[r] = <<>> /\ Len(content[r]) = sent + 1 /\ content[r] = Whole(sent + 1)
    BY <1>1 DEF RelayOK, HandlerOK, Passed, ProviderOK
  <1>5. Last(content[r]) = sent + 1
    BY <1>1, <1>4, WholeFacts
  <1>6. Last(content[r]) \in Chunks
    <2>1. content[r] \in Seq(Chunks) /\ Len(content[r]) \in 1..Len(content[r])
      BY <1>1, <1>2, <1>4
    <2> QED BY <2>1 DEF Last
  <1>7. relay'[r] = "receiving" /\ handler'[r] = "writing" /\ hand'[r] = sent + 1
    BY <1>2, <1>5 DEF ForwardChunk
  <1>8. TypeOK'
    <2>1. /\ relay' \in [Requests -> {"off", "receiving", "forwarding", "saving", "touching", "done"}]
          /\ handler' \in [Requests -> {"off", "opening", "ranging", "writing", "closing", "returned"}]
          /\ hand' \in [Requests -> Chunks \cup {None}]
      BY <1>2, <1>6 DEF ForwardChunk
    <2> QED BY <1>3, <2>1 DEF IInv, TypeOK
  <1>9. \A q \in Requests \ {r} : SameStream(q)
    BY <1>2, <1>3 DEF SameStream, ForwardChunk
  <1>10. ProviderOK(r)' /\ RelayOK(r)'
    BY <1>1, <1>3, <1>7 DEF ProviderOK, RelayOK, Whole
  <1>11. ReplyOK(r)' /\ HandlerOK(r)'
    BY <1>1, <1>3, <1>4, <1>7 DEF RelayOK, ReplyOK, HandlerOK, Passed, Whole
  <1>12. StreamOK(r)'
    BY <1>1, <1>3, <1>10, <1>11 DEF IInv, StreamOK, Streaming
  <1> QED BY <1>3, <1>8, <1>9, <1>12, StreamAlone

\* The relay is done, with an error.
LEMMA Reported ==
  ASSUME IInv, NEW r \in Requests, NEW e \in Failure, Report(r, e),
         relay[r] \in {"forwarding", "receiving", "saving", "touching"},
         UNCHANGED <<chatVars, providerVars, content, reply, complete, handlerVars>>
  PROVE  IInv'
  <1>1. /\ Streaming(r) /\ ProviderOK(r) /\ RelayOK(r) /\ ReplyOK(r) /\ HandlerOK(r)
        /\ Len(content[r]) \in Nat /\ Len(shown[r]) \in Nat
    BY Running
  <1>2. /\ relay \in [Requests -> {"off", "receiving", "forwarding", "saving", "touching", "done"}]
        /\ failure \in [Requests -> Seq(Failure)]
        /\ \A q \in Requests : Len(failure[q]) <= 1
    BY DEF IInv, TypeOK
  <1>3. /\ UNCHANGED <<pc, call, messages, lastId>>
        /\ UNCHANGED <<provider, produced, broken, content, reply, complete>>
        /\ UNCHANGED <<handler, hand, shown, verdicts, ended, canceled>>
        /\ ChatTypeOK' /\ RowsStay
    BY ChatStays DEF providerVars, handlerVars
  <1>4. failure[r] = <<>>
    BY <1>1 DEF RelayOK
  <1>5. /\ relay' = [relay EXCEPT ![r] = "done"]
        /\ failure' = [failure EXCEPT ![r] = <<e>>]
    BY <1>4 DEF Report
  <1>6. relay'[r] = "done" /\ failure'[r] = <<e>> /\ failure'[r] # <<>>
    BY <1>2, <1>5
  <1>7. TypeOK'
    <2>1. <<e>> \in Seq(Failure) /\ Len(<<e>>) = 1
      OBVIOUS
    <2>2. /\ relay' \in [Requests -> {"off", "receiving", "forwarding", "saving", "touching", "done"}]
          /\ failure' \in [Requests -> Seq(Failure)]
          /\ \A q \in Requests : Len(failure'[q]) <= 1
      BY <1>2, <1>5, <2>1
    <2> QED BY <1>3, <2>2 DEF IInv, TypeOK
  <1>8. \A q \in Requests \ {r} : SameStream(q)
    BY <1>2, <1>3, <1>5 DEF SameStream
  <1>9. ProviderOK(r)' /\ ReplyOK(r)'
    BY <1>1, <1>3 DEF ProviderOK, ReplyOK, Whole
  <1>10. RelayOK(r)'
    BY <1>1, <1>3, <1>6 DEF RelayOK
  <1>11. HandlerOK(r)'
    BY <1>1, <1>3, <1>6 DEF RelayOK, HandlerOK, Passed, Whole
  <1>12. StreamOK(r)'
    BY <1>1, <1>3, <1>9, <1>10, <1>11 DEF IInv, StreamOK, Streaming
  <1> QED BY <1>3, <1>7, <1>8, <1>12, StreamAlone

LEMMA EndOfReplyStep ==
  ASSUME IInv, NEW r \in Requests, EndOfReply(r)
  PROVE  IInv'
  <1>1. CASE \E e \in Failure : Report(r, e)
    BY <1>1, Reported DEF EndOfReply
  <1>2. CASE ~broken[r] /\ content[r] # <<>> /\ relay' = [relay EXCEPT ![r] = "saving"] /\ UNCHANGED failure
    <2>1. /\ Streaming(r) /\ ProviderOK(r) /\ RelayOK(r) /\ ReplyOK(r) /\ HandlerOK(r)
          /\ Len(content[r]) \in Nat /\ Len(shown[r]) \in Nat
          /\ relay[r] = "receiving" /\ provider[r] = "done"
      BY Running DEF EndOfReply
    <2>2. relay \in [Requests -> {"off", "receiving", "forwarding", "saving", "touching", "done"}]
      BY DEF IInv, TypeOK
    <2>3. /\ UNCHANGED <<pc, call, messages, lastId>>
          /\ UNCHANGED <<provider, produced, broken, content, failure, reply, complete>>
          /\ UNCHANGED <<handler, hand, shown, verdicts, ended, canceled>>
          /\ ChatTypeOK' /\ RowsStay
      BY <1>2, ChatStays DEF EndOfReply, providerVars, handlerVars
    <2>4. relay'[r] = "saving"
      BY <1>2, <2>2
    <2>5. TypeOK'
      <3>1. relay' \in [Requests -> {"off", "receiving", "forwarding", "saving", "touching", "done"}]
        BY <1>2, <2>2
      <3> QED BY <2>3, <3>1 DEF IInv, TypeOK
    <2>6. \A q \in Requests \ {r} : SameStream(q)
      BY <1>2, <2>2, <2>3 DEF SameStream
    <2>7. ProviderOK(r)' /\ ReplyOK(r)'
      BY <2>1, <2>3 DEF ProviderOK, ReplyOK, Whole
    <2>8. RelayOK(r)'
      BY <1>2, <2>1, <2>3, <2>4 DEF RelayOK
    <2>9. HandlerOK(r)'
      BY <2>1, <2>3, <2>4 DEF HandlerOK, Passed, Whole
    <2>10. StreamOK(r)'
      BY <2>1, <2>3, <2>7, <2>8, <2>9 DEF IInv, StreamOK, Streaming
    <2> QED BY <2>3, <2>5, <2>6, <2>10, StreamAlone
  <1> QED BY <1>1, <1>2 DEF EndOfReply, Failure

LEMMA SaveReplyStep ==
  ASSUME IInv, NEW r \in Requests, SaveReply(r)
  PROVE  IInv'
  <1> DEFINE c == call[r].conversation
             u == call[r].user
  <1>1. /\ Streaming(r) /\ ProviderOK(r) /\ RelayOK(r) /\ ReplyOK(r) /\ HandlerOK(r)
        /\ Len(content[r]) \in Nat /\ Len(shown[r]) \in Nat /\ relay[r] = "saving"
    BY Running DEF SaveReply
  <1>2. /\ TablesTypeOK /\ CallsTypeOK /\ r \in DOMAIN call
        /\ c \in Conversations /\ u \in Users
    BY <1>1, Active DEF Streaming
  <1>3. CASE SaveFails(r) /\ UNCHANGED <<messages, lastId, reply>>
    <2>1. \E e \in Failure : Report(r, e)
      BY <1>3 DEF SaveFails, Failure
    <2>2. UNCHANGED <<chatVars, providerVars, content, reply, complete, handlerVars>>
      BY <1>3 DEF SaveReply, chatVars, tables
    <2> QED BY <1>1, <2>1, <2>2, Reported
  <1>4. CASE /\ InsertMessage(c, u, content[r])
             /\ reply' = [reply EXCEPT ![r] = lastId + 1]
             /\ relay' = [relay EXCEPT ![r] = "touching"]
             /\ UNCHANGED failure
    <2>1. /\ relay \in [Requests -> {"off", "receiving", "forwarding", "saving", "touching", "done"}]
          /\ reply \in [Requests -> Ids \cup {None}]
          /\ content[r] \in Seq(Chunks)
      BY DEF IInv, TypeOK
    <2>2. /\ UNCHANGED <<conversations, pc, call>>
          /\ UNCHANGED <<provider, produced, broken, content, failure, complete>>
          /\ UNCHANGED <<handler, hand, shown, verdicts, ended, canceled>>
      BY <1>4 DEF SaveReply, providerVars, handlerVars
    <2>3. /\ TablesTypeOK' /\ RowsStay
          /\ lastId + 1 \in 1..lastId'
          /\ lastId + 1 \in Ids
          /\ messages'[lastId + 1] = [conversation |-> c, user |-> u, content |-> content[r]]
      BY <1>2, <1>4, <2>1, <2>2, InsertMessageStep
    <2>4. relay'[r] = "touching" /\ reply'[r] = lastId + 1 /\ lastId + 1 # None
      BY <1>4, <2>1, <2>3 DEF ChatAssumption
    <2>5. TypeOK'
      <3>1. CallsTypeOK'
        BY <1>2, <2>2 DEF CallsTypeOK
      <3>2. ChatTypeOK'
        BY <2>3, <3>1, TypeParts
      <3>3. /\ relay' \in [Requests -> {"off", "receiving", "forwarding", "saving", "touching", "done"}]
            /\ reply' \in [Requests -> Ids \cup {None}]
        BY <1>4, <2>1, <2>3
      <3> QED BY <2>2, <3>2, <3>3 DEF IInv, TypeOK
    <2>6. \A q \in Requests \ {r} : SameStream(q)
      BY <1>4, <2>1, <2>2 DEF SameStream
    <2>7. ProviderOK(r)'
      BY <1>1, <2>2 DEF ProviderOK, Whole
    <2>8. ReplyOK(r)'
      BY <2>2, <2>3, <2>4 DEF ReplyOK
    <2>9. RelayOK(r)'
      BY <1>1, <2>2, <2>4 DEF RelayOK
    <2>10. HandlerOK(r)'
      BY <1>1, <2>2, <2>4 DEF HandlerOK, Passed, Whole
    <2>11. StreamOK(r)'
      BY <1>1, <2>2, <2>7, <2>8, <2>9, <2>10 DEF IInv, StreamOK, Streaming
    <2> QED BY <2>2, <2>3, <2>5, <2>6, <2>11, StreamAlone
  <1> QED BY <1>3, <1>4 DEF SaveReply

LEMMA TouchReplyStep ==
  ASSUME IInv, NEW r \in Requests, TouchReply(r)
  PROVE  IInv'
  <1>1. /\ Streaming(r) /\ ProviderOK(r) /\ RelayOK(r) /\ ReplyOK(r) /\ HandlerOK(r)
        /\ Len(content[r]) \in Nat /\ Len(shown[r]) \in Nat /\ relay[r] = "touching"
    BY Running DEF TouchReply
  <1>2. CASE SaveFails(r) /\ UNCHANGED complete
    <2>1. \E e \in Failure : Report(r, e)
      BY <1>2 DEF SaveFails, Failure
    <2> QED BY <1>1, <1>2, <2>1, Reported DEF TouchReply
  <1>3. CASE /\ complete' = [complete EXCEPT ![r] = reply[r]]
             /\ relay' = [relay EXCEPT ![r] = "done"]
             /\ UNCHANGED failure
    <2>1. /\ relay \in [Requests -> {"off", "receiving", "forwarding", "saving", "touching", "done"}]
          /\ complete \in [Requests -> Ids \cup {None}]
          /\ reply \in [Requests -> Ids \cup {None}]
      BY DEF IInv, TypeOK
    <2>2. /\ UNCHANGED <<pc, call, messages, lastId>>
          /\ UNCHANGED <<provider, produced, broken, content, failure, reply>>
          /\ UNCHANGED <<handler, hand, shown, verdicts, ended, canceled>>
          /\ ChatTypeOK' /\ RowsStay
      BY <1>3, ChatStays DEF TouchReply, providerVars, handlerVars
    <2>3. relay'[r] = "done" /\ complete'[r] = reply[r] /\ reply[r] # None
      BY <1>1, <1>3, <2>1 DEF RelayOK
    <2>4. TypeOK'
      <3>1. /\ relay' \in [Requests -> {"off", "receiving", "forwarding", "saving", "touching", "done"}]
            /\ complete' \in [Requests -> Ids \cup {None}]
        BY <1>3, <2>1
      <3> QED BY <2>2, <3>1 DEF IInv, TypeOK
    <2>5. \A q \in Requests \ {r} : SameStream(q)
      BY <1>3, <2>1, <2>2 DEF SameStream
    <2>6. ProviderOK(r)' /\ ReplyOK(r)'
      BY <1>1, <2>2 DEF ProviderOK, ReplyOK, Whole
    <2>7. RelayOK(r)'
      BY <1>1, <2>2, <2>3 DEF RelayOK
    <2>8. HandlerOK(r)'
      BY <1>1, <2>2, <2>3 DEF RelayOK, HandlerOK, Passed, Whole
    <2>9. StreamOK(r)'
      BY <1>1, <2>2, <2>6, <2>7, <2>8 DEF IInv, StreamOK, Streaming
    <2> QED BY <2>2, <2>4, <2>5, <2>9, StreamAlone
  <1> QED BY <1>2, <1>3 DEF TouchReply

LEMMA RelaySteps ==
  ASSUME IInv, NEW r \in Requests, RelayStep(r)
  PROVE  IInv'
  <1>1. CASE RelayCancels(r)
    <2>1. "canceled" \in Failure
      BY DEF Failure
    <2> QED BY <1>1, <2>1, Reported DEF RelayCancels
  <1> QED BY <1>1, ReceiveChunkStep, ForwardChunkStep, EndOfReplyStep, SaveReplyStep, TouchReplyStep DEF RelayStep

-----------------------------------------------------------------------------
(* Steps of the handler.                                                   *)

\* The handler writes something, moves on or returns.
HandlerMoves(r) ==
  /\ UNCHANGED <<chatVars, providerVars, relayVars, hand>>
  /\ \A q \in Requests \ {r} : SameStream(q)
  /\ TypeOK' /\ HandlerOK(r)'

LEMMA HandlerMovesStep ==
  ASSUME IInv, NEW r \in Requests, Streaming(r), HandlerMoves(r)
  PROVE  IInv'
  <1>1. ProviderOK(r) /\ RelayOK(r) /\ ReplyOK(r)
    BY Running
  <1>2. /\ UNCHANGED <<pc, call, messages, lastId>>
        /\ UNCHANGED <<provider, produced, broken, relay, content, failure, reply, complete>>
        /\ ChatTypeOK' /\ RowsStay
    BY ChatStays DEF HandlerMoves, providerVars, relayVars
  <1>3. ProviderOK(r)' /\ RelayOK(r)' /\ ReplyOK(r)'
    BY <1>1, <1>2 DEF ProviderOK, RelayOK, ReplyOK, Whole
  <1>4. StreamOK(r)'
    BY <1>2, <1>3 DEF HandlerMoves, IInv, StreamOK, Streaming
  <1> QED BY <1>2, <1>4, StreamAlone DEF HandlerMoves

HandlerTypeOK ==
  /\ handler \in [Requests -> {"off", "opening", "ranging", "writing", "closing", "returned"}]
  /\ shown \in [Requests -> Seq(Chunks)]
  /\ verdicts \in [Requests -> Seq(Verdict)]
  /\ ended \in [Requests -> BOOLEAN]
  /\ canceled \in [Requests -> BOOLEAN]

LEMMA HandlerTypes ==
  ASSUME IInv
  PROVE  /\ HandlerTypeOK
         /\ \A r \in Requests : shown[r] \in Seq(Chunks) /\ verdicts[r] \in Seq(Verdict) /\ hand[r] \in Chunks \cup {None}
         /\ UNCHANGED <<chatVars, providerVars, relayVars, hand>> /\ HandlerTypeOK' => TypeOK'
  <1>1. /\ HandlerTypeOK
        /\ \A r \in Requests : shown[r] \in Seq(Chunks) /\ verdicts[r] \in Seq(Verdict) /\ hand[r] \in Chunks \cup {None}
    BY DEF IInv, TypeOK, HandlerTypeOK
  <1>2. ASSUME UNCHANGED <<chatVars, providerVars, relayVars, hand>>, HandlerTypeOK'
        PROVE  TypeOK'
    <2>1. ChatTypeOK'
      BY <1>2, ChatStays
    <2> QED BY <1>2, <2>1 DEF IInv, TypeOK, HandlerTypeOK, providerVars, relayVars
  <1> QED BY <1>1, <1>2

\* The handler returns with what it wrote.
LEMMA Returned ==
  ASSUME IInv, NEW r \in Requests, HandlerReturns(r), handler[r] \in {"opening", "writing", "ranging", "closing"},
         UNCHANGED <<chatVars, providerVars, relayVars, hand, shown, verdicts>>,
         \/ UNCHANGED ended
         \/ handler[r] = "closing" /\ \E sent \in BOOLEAN : ended' = [ended EXCEPT ![r] = sent]
  PROVE  IInv'
  <1>1. /\ Streaming(r) /\ HandlerOK(r) /\ HandlerTypeOK
        /\ Len(content[r]) \in Nat /\ Len(shown[r]) \in Nat
    BY Running, HandlerTypes
  <1>2. /\ handler' = [handler EXCEPT ![r] = "returned"]
        /\ canceled' = [canceled EXCEPT ![r] = TRUE]
        /\ UNCHANGED <<provider, produced, broken, relay, content, failure, reply, complete>>
    BY DEF HandlerReturns, providerVars, relayVars
  <1>3. HandlerTypeOK' /\ handler'[r] = "returned"
    BY <1>1, <1>2 DEF HandlerTypeOK
  <1>4. \A q \in Requests \ {r} : SameStream(q)
    BY <1>1, <1>2 DEF SameStream, HandlerTypeOK
  <1>5. ended'[r] => handler[r] = "closing" \/ ended[r]
    BY <1>1 DEF HandlerTypeOK
  <1>6. HandlerOK(r)'
    BY <1>1, <1>2, <1>3, <1>5 DEF HandlerOK, Passed, Whole
  <1> QED BY <1>1, <1>3, <1>4, <1>6, HandlerTypes, HandlerMovesStep DEF HandlerMoves

LEMMA WriteFirstStep ==
  ASSUME IInv, NEW r \in Requests, WriteFirst(r)
  PROVE  IInv'
  <1>1. CASE HandlerReturns(r)
    BY <1>1, Returned DEF WriteFirst
  <1>2. CASE handler' = [handler EXCEPT ![r] = "ranging"] /\ UNCHANGED canceled
    <2>1. /\ Streaming(r) /\ HandlerOK(r) /\ HandlerTypeOK /\ handler[r] = "opening"
      BY Running, HandlerTypes DEF WriteFirst
    <2>2. /\ UNCHANGED <<chatVars, providerVars, relayVars, hand, shown, verdicts, ended, canceled>>
          /\ UNCHANGED <<provider, produced, broken, relay, content, failure, reply, complete>>
      BY <1>2 DEF WriteFirst, providerVars, relayVars
    <2>3. HandlerTypeOK' /\ handler'[r] = "ranging"
      BY <1>2, <2>1, <2>2 DEF HandlerTypeOK
    <2>4. \A q \in Requests \ {r} : SameStream(q)
      BY <1>2, <2>1, <2>2 DEF SameStream, HandlerTypeOK
    <2>5. HandlerOK(r)'
      BY <2>1, <2>2, <2>3 DEF HandlerOK, Passed, Whole
    <2> QED BY <2>1, <2>2, <2>3, <2>4, <2>5, HandlerTypes, HandlerMovesStep DEF HandlerMoves
  <1> QED BY <1>1, <1>2 DEF WriteFirst

LEMMA WriteChunkStep ==
  ASSUME IInv, NEW r \in Requests, WriteChunk(r)
  PROVE  IInv'
  <1> DEFINE sent == Len(shown[r])
  <1>1. CASE HandlerReturns(r) /\ UNCHANGED shown
    BY <1>1, Returned DEF WriteChunk
  <1>2. CASE /\ shown' = [shown EXCEPT ![r] = Append(@, hand[r])]
             /\ handler' = [handler EXCEPT ![r] = "ranging"]
             /\ UNCHANGED canceled
    <2>1. /\ Streaming(r) /\ HandlerOK(r) /\ HandlerTypeOK /\ RelayOK(r)
          /\ handler[r] = "writing" /\ sent \in Nat /\ Len(content[r]) \in Nat
          /\ hand[r] \in Chunks \cup {None} /\ shown[r] \in Seq(Chunks)
      BY Running, HandlerTypes DEF WriteChunk
    <2>2. /\ UNCHANGED <<chatVars, providerVars, relayVars, hand, verdicts, ended, canceled>>
          /\ UNCHANGED <<provider, produced, broken, relay, content, failure, reply, complete>>
      BY <1>2 DEF WriteChunk, providerVars, relayVars
    <2>3. shown[r] = Whole(sent) /\ hand[r] = sent + 1 /\ sent + 1 # None
      <3>1. None \notin Nat
        BY DEF ChatAssumption
      <3> QED BY <2>1, <3>1 DEF HandlerOK
    <2>4. Append(shown[r], hand[r]) = Whole(sent + 1)
      BY <2>1, <2>3, WholeFacts
    <2>5. Append(shown[r], hand[r]) \in Seq(Chunks)
      BY <2>1, <2>3, AppendProperties
    <2>6. Len(Whole(sent + 1)) = sent + 1
      <3>1. sent + 1 \in Nat
        BY <2>1
      <3> QED BY <3>1, WholeFacts
    <2>7. /\ handler'[r] = "ranging" /\ shown'[r] = Whole(sent + 1) /\ Len(shown'[r]) = sent + 1
      BY <1>2, <2>1, <2>4, <2>6 DEF HandlerTypeOK
    <2>8. HandlerTypeOK'
      BY <1>2, <2>1, <2>2, <2>5 DEF HandlerTypeOK
    <2>9. \A q \in Requests \ {r} : SameStream(q)
      BY <1>2, <2>1, <2>2 DEF SameStream, HandlerTypeOK
    <2>10. HandlerOK(r)'
      <3>1. verdicts'[r] = <<>> /\ ~ended'[r] /\ failure'[r] = failure[r]
        BY <2>1, <2>2 DEF HandlerOK
      <3>2. failure'[r] = <<>> => sent + 1 = Passed(r)'
        BY <2>1, <2>2 DEF HandlerOK, Passed
      <3> QED BY <2>7, <3>1, <3>2 DEF HandlerOK
    <2> QED BY <2>1, <2>2, <2>8, <2>9, <2>10, HandlerTypes, HandlerMovesStep DEF HandlerMoves
  <1> QED BY <1>1, <1>2 DEF WriteChunk

LEMMA WriteVerdictStep ==
  ASSUME IInv, NEW r \in Requests, WriteVerdict(r)
  PROVE  IInv'
  <1>1. CASE HandlerReturns(r) /\ UNCHANGED verdicts
    BY <1>1, Returned DEF WriteVerdict
  <1>2. CASE /\ verdicts' = [verdicts EXCEPT ![r] =
                               @ \o (IF failure[r] # <<>> THEN <<"error">>
                                     ELSE IF complete[r] # None THEN <<"ai_complete">> ELSE <<>>)]
             /\ handler' = [handler EXCEPT ![r] = "closing"]
             /\ UNCHANGED canceled
    <2> DEFINE verdict == IF failure[r] # <<>> THEN <<"error">> ELSE <<"ai_complete">>
    <2>1. /\ Streaming(r) /\ HandlerOK(r) /\ HandlerTypeOK /\ RelayOK(r)
          /\ handler[r] = "ranging" /\ relay[r] = "done" /\ Len(shown[r]) \in Nat /\ Len(content[r]) \in Nat
      BY Running, HandlerTypes DEF WriteVerdict
    <2>2. /\ UNCHANGED <<chatVars, providerVars, relayVars, hand, shown, ended, canceled>>
          /\ UNCHANGED <<provider, produced, broken, relay, content, failure, reply, complete>>
      BY <1>2 DEF WriteVerdict, providerVars, relayVars
    <2>3. verdicts[r] = <<>> /\ (failure[r] # <<>> \/ complete[r] # None)
      BY <2>1 DEF HandlerOK, RelayOK
    <2>4. verdict \in Seq(Verdict) /\ Len(verdict) = 1 /\ <<>> \o verdict = verdict
      <3>1. ASSUME NEW v \in Verdict
            PROVE  <<v>> \in Seq(Verdict) /\ Len(<<v>>) = 1 /\ <<>> \o <<v>> = <<v>>
        OBVIOUS
      <3>2. \E v \in Verdict : verdict = <<v>>
        BY DEF Verdict
      <3> QED BY <3>1, <3>2
    <2>5. verdicts' = [verdicts EXCEPT ![r] = verdict]
      BY <1>2, <2>3, <2>4
    <2>6. verdict = <<"ai_complete">> => failure[r] = <<>>
      OBVIOUS
    <2> HIDE DEF verdict
    <2>7. handler'[r] = "closing" /\ verdicts'[r] = verdict
      BY <1>2, <2>1, <2>5 DEF HandlerTypeOK
    <2>8. HandlerTypeOK'
      BY <1>2, <2>1, <2>2, <2>4, <2>5 DEF HandlerTypeOK
    <2>9. \A q \in Requests \ {r} : SameStream(q)
      BY <1>2, <2>1, <2>2, <2>5 DEF SameStream, HandlerTypeOK
    <2>10. HandlerOK(r)'
      <3>1. failure[r] = <<>> => Len(shown[r]) = Len(content[r])
        BY <2>1 DEF HandlerOK, Passed
      <3>2. ~ended'[r] /\ shown'[r] = Whole(Len(shown'[r]))
        BY <2>1, <2>2 DEF HandlerOK, Whole
      <3> QED BY <2>1, <2>2, <2>3, <2>4, <2>6, <2>7, <3>1, <3>2 DEF HandlerOK, Passed, Whole
    <2> QED BY <2>1, <2>2, <2>8, <2>9, <2>10, HandlerTypes, HandlerMovesStep DEF HandlerMoves
  <1> QED BY <1>1, <1>2 DEF WriteVerdict

LEMMA HandlerSteps ==
  ASSUME IInv, NEW r \in Requests, HandlerStep(r)
  PROVE  IInv'
  <1>1. CASE WriteDone(r)
    BY <1>1, Returned DEF WriteDone
  <1> QED BY <1>1, WriteFirstStep, WriteChunkStep, WriteVerdictStep DEF HandlerStep

LEMMA ClientLeavesStep ==
  ASSUME IInv, NEW r \in Requests, ClientLeaves(r)
  PROVE  IInv'
  <1>1. /\ UNCHANGED <<chatVars, providerVars, relayVars, handler, hand, shown, verdicts, ended>>
        /\ UNCHANGED <<provider, produced, broken, relay, content, failure, reply, complete>>
        /\ canceled' = [canceled EXCEPT ![r] = TRUE]
    BY DEF ClientLeaves, providerVars, relayVars
  <1>2. /\ HandlerTypeOK /\ Streaming(r) /\ HandlerOK(r)
    BY HandlerTypes, Running DEF ClientLeaves, Streaming
  <1>3. HandlerTypeOK'
    BY <1>1, <1>2 DEF HandlerTypeOK
  <1>4. \A q : SameStream(q)
    BY <1>1 DEF SameStream
  <1>5. HandlerOK(r)'
    BY <1>1, <1>2 DEF HandlerOK, Passed, Whole
  <1> QED BY <1>1, <1>2, <1>3, <1>4, <1>5, HandlerTypes, HandlerMovesStep DEF HandlerMoves

-----------------------------------------------------------------------------
(* The beginning and the end of a stream.                                  *)

LEMMA StartStreamStep ==
  ASSUME IInv, NEW r \in Requests, StartStream(r)
  PROVE  IInv'
  <1>1. /\ TablesTypeOK /\ CallsTypeOK /\ lastId \in Nat /\ r \in DOMAIN call
    BY Active, TypeParts DEF StartStream, IInv, TablesTypeOK
  <1>2. AtRest(r)
    BY DEF IInv, StreamOK, Streaming, StartStream
  <1>3. /\ provider \in [Requests -> {"off", "reading", "sending", "done"}]
        /\ relay \in [Requests -> {"off", "receiving", "forwarding", "saving", "touching", "done"}]
        /\ handler \in [Requests -> {"off", "opening", "ranging", "writing", "closing", "returned"}]
    BY DEF IInv, TypeOK
  <1>4. /\ UNCHANGED <<tables, call, produced, broken, content, failure, reply, complete,
                       hand, shown, verdicts, ended, canceled>>
        /\ provider' = [provider EXCEPT ![r] = "reading"]
        /\ relay' = [relay EXCEPT ![r] = "receiving"]
        /\ handler' = [handler EXCEPT ![r] = "opening"]
    BY DEF StartStream
  <1>5. OthersStay(r) /\ CallsTypeOK' /\ pc'[r] = "streaming"
    <2>1. "streaming" \in PCs
      BY DEF PCs
    <2> QED BY <1>1, <1>4, <2>1, Moves DEF StartStream
  <1>6. TablesTypeOK' /\ RowsStay
    BY <1>1, <1>4, TablesKept
  <1>7. TypeOK'
    <2>1. ChatTypeOK'
      BY <1>5, <1>6, TypeParts
    <2>2. /\ provider' \in [Requests -> {"off", "reading", "sending", "done"}]
          /\ relay' \in [Requests -> {"off", "receiving", "forwarding", "saving", "touching", "done"}]
          /\ handler' \in [Requests -> {"off", "opening", "ranging", "writing", "closing", "returned"}]
      BY <1>3, <1>4
    <2> QED BY <1>4, <2>1, <2>2 DEF IInv, TypeOK
  <1>8. ASSUME NEW q \in Requests \ {r}
        PROVE  StreamOK(q)'
    <2>1. SameStream(q)
      BY <1>3, <1>4 DEF SameStream
    <2>2. SameRequest(q)
      BY <1>5 DEF OthersStay, SameRequest
    <2> QED BY <1>1, <1>6, <2>1, <2>2, StreamStays DEF IInv
  <1>9. StreamOK(r)'
    <2>1. provider'[r] = "reading" /\ relay'[r] = "receiving" /\ handler'[r] = "opening"
      BY <1>3, <1>4
    <2>2. /\ produced'[r] = 0 /\ ~broken'[r] /\ content'[r] = <<>> /\ failure'[r] = <<>>
          /\ reply'[r] = None /\ complete'[r] = None /\ shown'[r] = <<>> /\ verdicts'[r] = <<>> /\ ~ended'[r]
      BY <1>2, <1>4 DEF AtRest
    <2>3. Whole(0) = <<>> /\ Len(<<>>) = 0
      BY WholeFacts
    <2>4. ProviderOK(r)' /\ RelayOK(r)' /\ ReplyOK(r)'
      BY <2>1, <2>2, <2>3 DEF ProviderOK, RelayOK, ReplyOK, Whole
    <2>5. HandlerOK(r)'
      BY <2>1, <2>2, <2>3 DEF HandlerOK, Passed, Whole
    <2> QED BY <1>1, <1>4, <1>5, <2>4, <2>5 DEF StreamOK, Streaming
  <1> QED BY <1>7, <1>8, <1>9 DEF IInv

LEMMA OverStep ==
  ASSUME IInv, NEW r \in Requests, Over(r)
  PROVE  IInv'
  <1>1. TablesTypeOK /\ CallsTypeOK /\ lastId \in Nat
    BY TypeParts DEF IInv, TablesTypeOK
  <1>2. OthersStay(r) /\ CallsTypeOK' /\ r \notin DOMAIN call' /\ pc'[r] = "idle"
    BY <1>1, Returns DEF Over
  <1>3. TablesTypeOK' /\ RowsStay
    BY <1>1, TablesKept DEF Over
  <1>4. AtRest(r)'
    BY DEF IInv, TypeOK, Over, AtRest
  <1>5. \A q \in Requests \ {r} : SameStream(q)
    BY DEF IInv, TypeOK, Over, SameStream
  <1>6. TypeOK'
    <2>1. ChatTypeOK'
      BY <1>2, <1>3, TypeParts
    <2>2. <<>> \in Seq(Chunks) /\ <<>> \in Seq(Failure) /\ <<>> \in Seq(Verdict) /\ Len(<<>>) <= 1
          /\ 0 \in 0..MaxChunks
      BY DEF ChatAssumption
    <2> QED BY <2>1, <2>2 DEF IInv, TypeOK, Over
  <1>7. ASSUME NEW q \in Requests \ {r}
        PROVE  StreamOK(q)'
    <2>1. SameRequest(q)
      BY <1>2 DEF OthersStay, SameRequest
    <2> QED BY <1>1, <1>3, <1>5, <2>1, StreamStays DEF IInv
  <1>8. StreamOK(r)'
    BY <1>2, <1>4 DEF StreamOK, Streaming
  <1> QED BY <1>6, <1>7, <1>8 DEF IInv

-----------------------------------------------------------------------------
(* The theorems.                                                           *)

LEMMA InvariantInit == Init => IInv
  <1> SUFFICES ASSUME Init PROVE IInv
    OBVIOUS
  <1>1. ChatTypeOK
    BY DEF Init, ChatInit, ChatTypeOK, PCs, ChatAssumption
  <1>2. TypeOK
    BY <1>1 DEF Init, TypeOK, ChatAssumption
  <1>3. \A r \in Requests : StreamOK(r)
    BY DEF Init, ChatInit, StreamOK, Streaming, AtRest
  <1> QED BY <1>2, <1>3 DEF IInv

LEMMA InvariantStep == IInv /\ [Next]_vars => IInv'
  <1> SUFFICES ASSUME IInv, [Next]_vars PROVE IInv'
    OBVIOUS
  <1>1. CASE UNCHANGED vars
    <2>1. UNCHANGED <<chatVars, providerVars, relayVars, handlerVars>>
      BY <1>1 DEF vars
    <2>2. /\ ChatTypeOK' /\ RowsStay /\ lastId \in Nat
          /\ \A r : SameRequest(r) /\ SameStream(r)
      BY <2>1, ChatStays, TypeParts DEF IInv, TablesTypeOK, SameRequest, SameStream,
         providerVars, relayVars, handlerVars
    <2>3. TypeOK'
      BY <2>1, <2>2 DEF IInv, TypeOK, providerVars, relayVars, handlerVars
    <2> QED BY <2>2, <2>3, StreamStays DEF IInv
  <1>2. CASE ChatNext /\ UNCHANGED <<providerVars, relayVars, handlerVars>>
    BY <1>2, ChatStep
  <1>3. ASSUME NEW r \in Requests,
               \/ StartStream(r) \/ ProviderStep(r) \/ RelayStep(r) \/ HandlerStep(r)
               \/ ClientLeaves(r) \/ Over(r)
        PROVE  IInv'
    BY <1>3, StartStreamStep, ProviderSteps, RelaySteps, HandlerSteps, ClientLeavesStep, OverStep
  <1> QED BY <1>1, <1>2, <1>3 DEF Next

\* The inductive invariant holds however the goroutines of a stream, and the
\* requests of others, take turns (createStreamingMessageInternal,
\* streamChatEvents, GenerateStream).
THEOREM ChatInvariance == Spec => []IInv
  BY InvariantInit, InvariantStep, PTL DEF Spec

\* Every variable keeps its type; no channel for an outcome is sent a second
\* value, on which its sender would block (createStreamingMessageInternal).
THEOREM ChatTypeCorrect == Spec => []TypeOK
  <1>1. IInv => TypeOK
    BY DEF IInv
  <1> QED BY ChatInvariance, <1>1, PTL

\* What the invariant says of one stream, in the words of the properties.
LEMMA StreamFacts ==
  ASSUME IInv
  PROVE  OneVerdict /\ ShownIsStored /\ WholeReplies
  <1>1. TypeOK /\ None \notin Nat
    BY DEF IInv, ChatAssumption
  <1>2. ASSUME NEW r \in Requests, ~Streaming(r)
        PROVE  ~ended[r] /\ verdicts[r] = <<>> /\ reply[r] = None /\ complete[r] = None
    BY <1>2 DEF IInv, StreamOK, AtRest
  <1>3. None \notin DOMAIN messages
    BY <1>1 DEF TypeOK, ChatTypeOK
  <1>4. OneVerdict
    BY <1>2, Running DEF OneVerdict, HandlerOK
  <1>5. ASSUME NEW r \in Requests, verdicts[r] = <<"ai_complete">>, complete[r] \in DOMAIN messages
        PROVE  messages[complete[r]] = [ conversation |-> call[r].conversation,
                                         user         |-> call[r].user,
                                         content      |-> shown[r] ]
    <2>1. Streaming(r)
      BY <1>2, <1>5
    <2>2. /\ ProviderOK(r) /\ RelayOK(r) /\ ReplyOK(r) /\ HandlerOK(r)
      BY <2>1, Running
    <2>3. complete[r] = reply[r] /\ reply[r] # None /\ shown[r] = content[r]
      BY <1>3, <1>5, <2>2 DEF ProviderOK, RelayOK, HandlerOK
    <2> QED BY <1>5, <2>2, <2>3 DEF ReplyOK
  <1>6. ASSUME NEW r \in Requests, reply[r] \in DOMAIN messages
        PROVE  /\ provider[r] = "done" /\ ~broken[r]
               /\ messages[reply[r]].content = Whole(produced[r])
    <2>1. reply[r] # None /\ Streaming(r)
      BY <1>2, <1>3, <1>6
    <2>2. /\ ProviderOK(r) /\ RelayOK(r) /\ ReplyOK(r)
      BY <2>1, Running
    <2> QED BY <1>6, <2>1, <2>2 DEF ProviderOK, RelayOK, ReplyOK
  <1>7. ShownIsStored
    BY <1>5 DEF ShownIsStored
  <1>8. WholeReplies
    BY <1>6 DEF WholeReplies
  <1> QED BY <1>4, <1>7, <1>8

\* A client that stays to [DONE] was sent exactly one of ai_complete and error
\* (streamChatEvents).
THEOREM OneVerdictEach == Spec => []OneVerdict
  BY ChatInvariance, StreamFacts, PTL

\* After ai_complete the table holds, unless it was deleted since, what the
\* client has read, in the conversation and for the user that asked
\* (SaveStreamingMessage, streamChatEvents).
THEOREM ShownAsStored == Spec => []ShownIsStored
  BY ChatInvariance, StreamFacts, PTL

\* A stored reply is all of what the provider read, which ended without an
\* error (createStreamingMessageInternal).
THEOREM NeverCutShort == Spec => []WholeReplies
  BY ChatInvariance, StreamFacts, PTL
=============================================================================
