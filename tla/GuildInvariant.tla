--------------------------- MODULE GuildInvariant ---------------------------
(***************************************************************************)
(* The inductive invariant behind the theorems on guilds, channels and     *)
(* messages, in named parts: what a request in flight may still rely on    *)
(* from its earlier statements, and what the tables owe one another.       *)
(***************************************************************************)
EXTENDS GuildStreams

-----------------------------------------------------------------------------
(* Requests.                                                               *)

Inserting(r) == pc[r] = "insert"

\* m was given out and no INSERT of it is under way: once it is not in the
\* table it never comes back.
Settled(m) ==
  /\ m \in 1..lastId
  /\ \A r \in DOMAIN call : Inserting(r) => call[r].message # m

\* Which operations reach which statement.
StepFits(r) ==
  /\ pc[r] # "idle"
  /\ pc[r] = "member"  => call[r].op \in {"join", "leave", "updateGuild"}
  /\ pc[r] = "replyTo" => call[r].op = "send"
  /\ pc[r] = "author"  => call[r].op \in {"edit", "remove"}

\* The id drawn for an INSERT is the request's own, and new.
DrawnOK(r) ==
  /\ Inserting(r) =>
       /\ call[r].message \in (1..lastId) \ DOMAIN messages
       /\ \A q \in DOMAIN call \ {r} : Inserting(q) => call[q].message # call[r].message
  /\ pc[r] = "reread" /\ call[r].op = "send" => call[r].message \in 1..lastId

\* Once MessageExists has passed, what is replied to is in the channel or gone.
ReplyOK(r) ==
  (Inserting(r) \/ Writing(r, "send")) /\ call[r].replyTo # None =>
    /\ Settled(call[r].replyTo)
    /\ call[r].replyTo \in DOMAIN messages =>
         messages[call[r].replyTo].channel = call[r].channel

\* Once FindMessageAuthor has passed, what is edited is the caller's or gone.
EditOK(r) ==
  Writing(r, "edit") =>
    /\ Settled(call[r].message)
    /\ call[r].message \in DOMAIN messages => messages[call[r].message].author = call[r].user

\* Once FindMember has passed, who leaves does not own the guild, if it is there.
LeaveOK(r) ==
  Writing(r, "leave") =>
    /\ call[r].guild \in usedIds
    /\ call[r].guild \in DOMAIN guilds => guilds[call[r].guild].owner # call[r].user

CallOK(r) == StepFits(r) /\ DrawnOK(r) /\ ReplyOK(r) /\ EditOK(r) /\ LeaveOK(r)

CallsOK ==
  /\ \A r \in Requests : Idle(r) <=> r \notin DOMAIN call
  /\ \A r \in DOMAIN call : CallOK(r)

-----------------------------------------------------------------------------
(* Tables.                                                                 *)

\* The ids of the rows were given out, and a channel's guild exists.
IdsOK ==
  /\ DOMAIN guilds \cup DOMAIN channels \subseteq usedIds
  /\ \A c \in DOMAIN channels : channels[c].guild \in DOMAIN guilds

\* The members of a guild are finitely many, so that they have a count.
SeatsOK ==
  /\ OwnerKeepsSeat
  /\ MemberCountExact
  /\ \A g \in DOMAIN guilds : IsFiniteSet(MembersOf(g))

IInv ==
  /\ ChannelsTypeOK
  /\ CallsOK
  /\ IdsOK
  /\ SeatsOK
  /\ OwnWords
  /\ QuotesStayInChannel

-----------------------------------------------------------------------------
(* Pages.                                                                  *)

\* The types of what a stream knows of the history.
PageTypeOK ==
  /\ cursor \in [Streams -> 0..MaxId]
  /\ walked \in [Streams -> BOOLEAN]
  /\ asking \in [Streams -> BOOLEAN]
  /\ fetched \in [Streams -> SUBSET Ids]
  /\ rows \in [Streams -> Nat]

\* Until the client has the last page, the cursor separates what it has from
\* what it will fetch.
PagesOK ==
  \A s \in Streams :
    /\ rows[s] = Cardinality(fetched[s])
    /\ IsFiniteSet(fetched[s])
    /\ asking[s] => ~walked[s]
    /\ ~walked[s] => \A m \in fetched[s] : cursor[s] # 0 /\ m >= cursor[s]

-----------------------------------------------------------------------------
(* Hubs and streams.                                                       *)

\* A hub holds only its own subscriptions, and their channels are open.
HubsOK ==
  /\ Hub!HubTypeOK
  /\ Hub!ClosedOnce
  /\ \A i \in Instances : \A s \in subs[i] : hubOf[s] = i

\* c was a channel of g; it may be gone, but it never belongs to another guild.
Belongs(c, g) ==
  /\ c \in usedIds
  /\ c \in DOMAIN channels => channels[c].guild = g

\* A request writes to the guild it will tell, and one that sends has no
\* message before it draws its id, and then the one it inserted.
AnnounceOK(r) ==
  /\ call[r].op \in ChannelOps \cup MessageOps => r \notin DOMAIN pending
  /\ call[r].op \in MessageOps => Belongs(call[r].channel, call[r].guild)
  /\ Inserting(r) => call[r].op = "send"
  /\ call[r].op = "send" =>
       /\ pc[r] \in {"replyTo", "write"} => call[r].message = None
       /\ pc[r] = "reread" =>
            /\ Settled(call[r].message)
            /\ call[r].message \in DOMAIN messages =>
                 messages[call[r].message].channel = call[r].channel

\* A creation is told to the guild of the message.
EventOK(r) ==
  /\ pending[r].via = "redis" => WithRedis
  /\ pending[r].event.kind = "message.created" =>
       /\ Settled(pending[r].event.message)
       /\ pending[r].event.message \in DOMAIN messages =>
            Belongs(messages[pending[r].event.message].channel, pending[r].topic)

\* A stream is subscribed to the guild whose channels its client reads.
StreamOK(s) ==
  /\ viewer[s] = None <=> admitted[s] = None
  /\ hubOf[s] = None => channel[s] = None /\ ~reading[s]
  /\ hubOf[s] # None => admitted[s] # None /\ topicOf[s] = admitted[s]
  /\ channel[s] = None => ~asking[s] /\ ~walked[s] /\ cursor[s] = 0
  /\ channel[s] # None => Belongs(channel[s], admitted[s])

FeedInv ==
  /\ TypeOK
  /\ HubsOK
  /\ \A r \in DOMAIN call : AnnounceOK(r)
  /\ \A r \in DOMAIN pending : EventOK(r)
  /\ \A s \in Streams : StreamOK(s)
=============================================================================
