---------------------------- MODULE GuildChannels ---------------------------
(***************************************************************************)
(* Text channels and messages of a guild:                                  *)
(* internal/service/guild_channel_service.go over                          *)
(* internal/repository/guild_channel_repository.go.                        *)
(*                                                                         *)
(* Every operation reads the caller's access in one statement, writes,     *)
(* reads back what it wrote, and publishes an event.  The event leaves     *)
(* after the change is committed, so the order of events need not be the   *)
(* order of the changes.                                                   *)
(***************************************************************************)
EXTENDS Guilds, Sequences

CONSTANTS
  Instances,  \* server processes
  Streams,    \* SSE connections
  Buffer,     \* subscriptionBuffer
  WithRedis   \* whether the hubs relay through Redis

ASSUME HubsAssumption == Buffer \in Nat /\ WithRedis \in BOOLEAN /\ None \notin Instances

VARIABLES
  messages,     \* the guild_channel_messages table
  lastId,       \* the last message id given out
  unannounced,  \* history: messages whose request failed after the INSERT
  \* the hubs, as in RealtimeHub
  closed, subs, hubOf, topicOf, queue, closes, reading, relay, inbox, inhand,
  closer, pending

messageVars == <<messages, lastId, unannounced>>

\* An event of a message names it.
Event ==
  [ kind : {"channel.created", "channel.updated", "channel.deleted"},
    channel : Channels, message : {None} ]
  \cup
  [ kind : {"message.created", "message.updated", "message.deleted"},
    channel : Channels, message : Ids ]

Hub == INSTANCE RealtimeHub WITH
  Topics <- Guild, Subs <- Streams, Publishers <- Requests, Events <- Event

hubVars == <<closed, subs, hubOf, topicOf, queue, closes, reading, relay, inbox,
             inhand, closer, pending>>

\* A message; text names who typed the content it has now.
MessageRow == [ channel : Channels, author : Users, text : Users,
                replyTo : Ids \cup {None} ]

ChannelsTypeOK ==
  /\ GuildTypeOK
  /\ lastId \in 0..MaxId
  /\ DOMAIN messages \subseteq 1..lastId
  /\ messages \in [DOMAIN messages -> MessageRow]
  /\ unannounced \subseteq 1..lastId

ChannelsInit ==
  /\ GuildInit
  /\ messages = [m \in {} |-> None]
  /\ lastId = 0
  /\ unannounced = {}
  /\ Hub!HubInit

-----------------------------------------------------------------------------
(* Reading.                                                                *)

Exists(g, c) == c \in ChannelsOf(g)

MessagesOf(c) == {m \in DOMAIN messages : messages[m].channel = c}

\* What the access row must show for each operation to go on: the role, and
\* the channel, which belongs to the guild.
Allowed(op, role, g, c) ==
  /\ op \in ChannelOps => IsGuildManager(role)
  /\ op \in MessageOps => role # None
  /\ op # "createChannel" => Exists(g, c)

\* Where each operation goes from there.
AfterAccess(op, replyTo) ==
  CASE op \in ChannelOps                   -> "write"
    [] op = "send" /\ replyTo = None       -> "write"
    [] op = "send" /\ replyTo # None       -> "replyTo"
    [] op \in {"edit", "remove"}           -> "author"

\* ResolveAccess: the guild, the caller's role and the channel in one read.
ResolveAccess(r, u, op, g, c, m, replyTo) ==
  /\ Idle(r)
  /\ r \notin DOMAIN pending
  /\ op \in Operations
  /\ g \in DOMAIN guilds
  /\ Allowed(op, RoleOf(g, u), g, c)
  /\ Enter(r, [op |-> op, user |-> u, guild |-> g, role |-> RoleOf(g, u),
               channel |-> c, message |-> m, replyTo |-> replyTo],
           AfterAccess(op, replyTo))
  /\ UNCHANGED <<guilds, members, channels, usedIds, messageVars, hubVars>>

\* Mistake: any message may be replied to.
MessageExistsAnywhere(r) ==
  /\ pc[r] = "replyTo"
  /\ \/ call[r].replyTo \in DOMAIN messages /\ Goto(r, "write") /\ UNCHANGED call
     \/ call[r].replyTo \notin DOMAIN messages /\ Return(r)
  /\ UNCHANGED <<guilds, members, channels, usedIds, messageVars, hubVars>>

\* MessageExists: a reply stays in the channel of what it replies to.
MessageExists(r) ==
  /\ pc[r] = "replyTo"
  /\ \/ call[r].replyTo \in MessagesOf(call[r].channel) /\ Goto(r, "write") /\ UNCHANGED call
     \/ call[r].replyTo \notin MessagesOf(call[r].channel) /\ Return(r)
  /\ UNCHANGED <<guilds, members, channels, usedIds, messageVars, hubVars>>

\* Mistake: managers may edit, as they may delete.
MayTouchManagerToo(c) ==
  /\ c.message \in MessagesOf(c.channel)
  /\ \/ messages[c.message].author = c.user
     \/ IsGuildManager(c.role)

\* An author edits and deletes; a manager, by the role read, deletes.
MayTouch(c) ==
  /\ c.message \in MessagesOf(c.channel)
  /\ \/ messages[c.message].author = c.user
     \/ c.op = "remove" /\ IsGuildManager(c.role)

\* FindMessageAuthor.
FindMessageAuthor(r) ==
  /\ pc[r] = "author"
  /\ \/ MayTouch(call[r]) /\ Goto(r, "write") /\ UNCHANGED call
     \/ ~MayTouch(call[r]) /\ Return(r)
  /\ UNCHANGED <<guilds, members, channels, usedIds, messageVars, hubVars>>

-----------------------------------------------------------------------------
(* Writing channels.                                                       *)

NameTaken(g, n, others) == \E c \in ChannelsOf(g) \ others : channels[c].name = n

\* publish, the last thing an operation does; i is the instance it runs on.
Publish(r, i, kind, c, m) ==
  /\ Hub!Submit(r, i, call[r].guild, [kind |-> kind, channel |-> c, message |-> m])
  /\ Return(r)
  /\ UNCHANGED <<closed, subs, hubOf, topicOf, queue, closes, reading, relay,
                 inbox, inhand, closer>>

\* The INSERT fails on a name that is taken, or when the guild is gone.
CreateChannel(r, i, c, n) ==
  /\ Writing(r, "createChannel")
  /\ LET g == call[r].guild IN
     \/ /\ g \in DOMAIN guilds /\ ~NameTaken(g, n, {}) /\ c \notin usedIds
        /\ usedIds' = usedIds \cup {c}
        /\ channels' = [x \in DOMAIN channels \cup {c} |->
                          IF x = c THEN [guild |-> g, name |-> n] ELSE channels[x]]
        /\ Publish(r, i, "channel.created", c, None)
     \/ /\ g \notin DOMAIN guilds \/ NameTaken(g, n, {})
        /\ Return(r)
        /\ UNCHANGED <<channels, usedIds, hubVars>>
  /\ UNCHANGED <<guilds, members, messageVars>>

UpdateChannel(r, n) ==
  /\ Writing(r, "updateChannel")
  /\ LET c == call[r].channel IN
     \/ /\ c \in DOMAIN channels /\ ~NameTaken(channels[c].guild, n, {c})
        /\ channels' = [channels EXCEPT ![c].name = n]
        /\ Goto(r, "reread")
        /\ UNCHANGED call
     \/ /\ c \in DOMAIN channels => NameTaken(channels[c].guild, n, {c})
        /\ Return(r)
        /\ UNCHANGED channels
  /\ UNCHANGED <<guilds, members, usedIds, messageVars, hubVars>>

\* FindChannel: a channel deleted meanwhile is not announced as updated.
RereadChannel(r, i) ==
  /\ pc[r] = "reread" /\ call[r].op = "updateChannel"
  /\ \/ /\ call[r].channel \in DOMAIN channels
        /\ Publish(r, i, "channel.updated", call[r].channel, None)
     \/ /\ Return(r)   \* it is gone, or the read failed
        /\ UNCHANGED hubVars
  /\ UNCHANGED <<guilds, members, channels, usedIds, messageVars>>

\* Rows that reference a deleted message keep their place, without the quote.
Forget(rows, gone) ==
  [m \in DOMAIN rows \ gone |->
     IF rows[m].replyTo \in gone THEN [rows[m] EXCEPT !.replyTo = None] ELSE rows[m]]

DeleteChannel(r, i) ==
  /\ Writing(r, "deleteChannel")
  /\ LET c == call[r].channel IN
     \/ /\ c \in DOMAIN channels
        /\ channels' = Restrict(channels, DOMAIN channels \ {c})
        /\ messages' = Forget(messages, MessagesOf(c))
        /\ Publish(r, i, "channel.deleted", c, None)
     \/ /\ c \notin DOMAIN channels
        /\ Return(r)
        /\ UNCHANGED <<channels, messages, hubVars>>
  /\ UNCHANGED <<guilds, members, usedIds, lastId, unannounced>>

-----------------------------------------------------------------------------
(* Writing messages.                                                       *)

\* The INSERT draws its uuidv7 first; ids are in the order they were drawn.
DrawId(r) ==
  /\ Writing(r, "send")
  /\ lastId < MaxId
  /\ lastId' = lastId + 1
  /\ call' = [call EXCEPT ![r].message = lastId + 1]
  /\ Goto(r, "insert")
  /\ UNCHANGED <<guilds, members, channels, usedIds, messages, unannounced, hubVars>>

\* CreateMessage: the row becomes visible, unless the channel or the message
\* replied to has gone meanwhile.
CreateMessage(r) ==
  /\ pc[r] = "insert"
  /\ LET c == call[r]
         fits == /\ c.channel \in DOMAIN channels
                 /\ c.replyTo \in DOMAIN messages \cup {None} IN
     \/ /\ fits
        /\ messages' = [m \in DOMAIN messages \cup {c.message} |->
                          IF m = c.message
                          THEN [channel |-> c.channel, author |-> c.user,
                                text |-> c.user, replyTo |-> c.replyTo]
                          ELSE messages[m]]
        /\ Goto(r, "reread")
        /\ UNCHANGED call
     \/ /\ ~fits
        /\ Return(r)
        /\ UNCHANGED messages
  /\ UNCHANGED <<guilds, members, channels, usedIds, lastId, unannounced, hubVars>>

EditMessage(r) ==
  /\ Writing(r, "edit")
  /\ LET c == call[r] IN
     \/ /\ c.message \in DOMAIN messages
        /\ messages' = [messages EXCEPT ![c.message].text = c.user]
        /\ Goto(r, "reread")
        /\ UNCHANGED call
     \/ /\ c.message \notin DOMAIN messages
        /\ Return(r)
        /\ UNCHANGED messages
  /\ UNCHANGED <<guilds, members, channels, usedIds, lastId, unannounced, hubVars>>

\* FindMessage: the event carries the row as it is now.
RereadMessage(r, i) ==
  /\ pc[r] = "reread" /\ call[r].op \in {"send", "edit"}
  /\ LET c == call[r]
         kind == IF c.op = "send" THEN "message.created" ELSE "message.updated" IN
     \/ /\ c.message \in DOMAIN messages
        /\ Publish(r, i, kind, c.channel, c.message)
        /\ UNCHANGED unannounced
     \/ /\ Return(r)   \* it is gone, or the read failed
        /\ unannounced' = IF c.op = "send" THEN unannounced \cup {c.message} ELSE unannounced
        /\ UNCHANGED hubVars
  /\ UNCHANGED <<guilds, members, channels, usedIds, messages, lastId>>

DeleteMessage(r, i) ==
  /\ Writing(r, "remove")
  /\ LET c == call[r] IN
     \/ /\ c.message \in DOMAIN messages
        /\ messages' = Forget(messages, {c.message})
        /\ Publish(r, i, "message.deleted", c.channel, c.message)
     \/ /\ c.message \notin DOMAIN messages
        /\ Return(r)
        /\ UNCHANGED <<messages, hubVars>>
  /\ UNCHANGED <<guilds, members, channels, usedIds, lastId, unannounced>>

-----------------------------------------------------------------------------

\* A request of the guild service.  The messages of a deleted guild's channels
\* go with them.
GuildRequest ==
  /\ GuildNext
  /\ messages' = Restrict(messages, {m \in DOMAIN messages :
                                       messages[m].channel \in DOMAIN channels'})
  /\ UNCHANGED <<lastId, unannounced, hubVars>>

ChannelRequest(r) ==
  \/ \E u \in Users, g \in Guild :
       \/ ResolveAccess(r, u, "createChannel", g, None, None, None)
       \/ \E c \in Channels :
            \/ \E op \in {"updateChannel", "deleteChannel"} :
                 ResolveAccess(r, u, op, g, c, None, None)
            \/ \E re \in Ids \cup {None} : ResolveAccess(r, u, "send", g, c, None, re)
            \/ \E op \in {"edit", "remove"}, m \in Ids :
                 ResolveAccess(r, u, op, g, c, m, None)
  \/ MessageExists(r)
  \/ FindMessageAuthor(r)
  \/ \E n \in Names : UpdateChannel(r, n)
  \/ DrawId(r)
  \/ CreateMessage(r)
  \/ EditMessage(r)
  \/ \E i \in Instances :
       \/ \E c \in Channels, n \in Names : CreateChannel(r, i, c, n)
       \/ RereadChannel(r, i)
       \/ DeleteChannel(r, i)
       \/ RereadMessage(r, i)
       \/ DeleteMessage(r, i)

-----------------------------------------------------------------------------
(* Properties.                                                             *)

\* A message's content is always its author's: managers may delete what
\* others wrote but never put words in their mouth.
OwnWords == \A m \in DOMAIN messages : messages[m].text = messages[m].author

\* A reply quotes an existing message of its own channel, and a message
\* belongs to an existing channel of an existing guild, whatever was deleted
\* between the checks and the INSERT.
QuotesStayInChannel ==
  \A m \in DOMAIN messages :
    /\ messages[m].channel \in DOMAIN channels
    /\ channels[messages[m].channel].guild \in DOMAIN guilds
    /\ messages[m].replyTo # None => messages[m].replyTo \in MessagesOf(messages[m].channel)
=============================================================================
