---------------------------- MODULE GuildStreams ----------------------------
(***************************************************************************)
(* The guild event stream (StreamEvents of                                 *)
(* internal/handler/guild_channel_handler.go) and the client it serves,    *)
(* which first connects and then pages backwards through the history of a  *)
(* channel, over GuildChannels and its hubs.                               *)
(***************************************************************************)
EXTENDS GuildChannels, FiniteSetsExt

CONSTANT
  Limit  \* the page size the client asks for

ASSUME PageAssumption == Limit \in Nat \ {0}

VARIABLES
  viewer,    \* who a stream is for
  admitted,  \* the guild whose membership it was admitted by
  channel,   \* the channel its client reads the history of
  asking,    \* its request for a page has passed the access check
  cursor,    \* next_before: 0 before the first page
  walked,    \* the client has the last page
  fetched,   \* the messages on the pages it got
  heard,     \* the messages whose creation it was told of
  rows       \* history: how many rows those pages had

streamVars == <<viewer, admitted, channel, asking, cursor, walked, fetched, heard, rows>>
vars == <<guildVars, messageVars, hubVars, streamVars>>

-----------------------------------------------------------------------------

TypeOK ==
  /\ ChannelsTypeOK
  /\ Hub!HubTypeOK
  /\ viewer \in [Streams -> Users \cup {None}]
  /\ admitted \in [Streams -> Guild \cup {None}]
  /\ channel \in [Streams -> Channels \cup {None}]
  /\ asking \in [Streams -> BOOLEAN]
  /\ cursor \in [Streams -> 0..MaxId]
  /\ walked \in [Streams -> BOOLEAN]
  /\ fetched \in [Streams -> SUBSET Ids]
  /\ heard \in [Streams -> SUBSET Ids]
  /\ rows \in [Streams -> Nat]

Init ==
  /\ ChannelsInit
  /\ viewer = [s \in Streams |-> None]
  /\ admitted = [s \in Streams |-> None]
  /\ channel = [s \in Streams |-> None]
  /\ asking = [s \in Streams |-> FALSE]
  /\ cursor = [s \in Streams |-> 0]
  /\ walked = [s \in Streams |-> FALSE]
  /\ fetched = [s \in Streams |-> {}]
  /\ heard = [s \in Streams |-> {}]
  /\ rows = [s \in Streams |-> 0]

IsMember(g, u) == RoleOf(g, u) # None

-----------------------------------------------------------------------------
(* The handler.                                                            *)

\* The membership read of the service's Subscribe.
Admit(s, u, g) ==
  /\ viewer[s] = None
  /\ IsMember(g, u)
  /\ viewer' = [viewer EXCEPT ![s] = u]
  /\ admitted' = [admitted EXCEPT ![s] = g]
  /\ UNCHANGED <<guildVars, messageVars, hubVars, channel, asking, cursor, walked, fetched,
                 heard, rows>>

\* broker.Subscribe; the client learns it is connected after this.
Connect(s, i) ==
  /\ admitted[s] # None
  /\ Hub!Subscribe(i, s, admitted[s])
  /\ UNCHANGED <<guildVars, messageVars, streamVars>>

Created(e) == IF e.kind = "message.created" THEN {e.message} ELSE {}

\* An event is written to the client, or the stream ends.
Forward(s) ==
  /\ \/ /\ Hub!Receive(s)
        /\ heard' = [heard EXCEPT ![s] = @ \cup Created(Head(queue[s]))]
     \/ Hub!EndOfStream(s) /\ UNCHANGED heard
  /\ UNCHANGED <<guildVars, messageVars, viewer, admitted, channel, asking, cursor, walked,
                 fetched, rows>>

\* The client disconnects, or a write to it fails.
Disconnect(s) == Hub!GiveUp(s) /\ UNCHANGED <<guildVars, messageVars, streamVars>>

\* Mistake: the heartbeat only keeps the connection alive.
HeartbeatUnchecked(s) ==
  /\ FALSE
  /\ Hub!StopReading(s)
  /\ UNCHANGED <<guildVars, messageVars, streamVars>>

\* The heartbeat re-checks the membership; a member, or a failed read, keeps
\* the stream open.
Heartbeat(s) ==
  /\ reading[s]
  /\ ~IsMember(admitted[s], viewer[s])
  /\ Hub!StopReading(s)
  /\ UNCHANGED <<guildVars, messageVars, streamVars>>

-----------------------------------------------------------------------------
(* The client's history pages.                                             *)

Newest(ms, n) == {m \in ms : Cardinality({x \in ms : x > m}) < n}

\* Mistake: the page starts at the cursor again.
OlderOrSame(c, before) == {m \in MessagesOf(c) : before = 0 \/ m <= before}

\* ListMessages reads one row more than the page, to learn whether there is more.
Older(c, before) == {m \in MessagesOf(c) : before = 0 \/ m < before}

\* Mistake: the cursor is the extra row, which the page does not show.
NextBeforeExtra(page, found) == Min(found)

\* The last row shown is the cursor of the next page.
NextBefore(page, found) == Min(page)

\* resolveMemberChannel, which every page begins with.
AskPage(s, c) ==
  /\ reading[s]
  /\ ~asking[s]
  /\ ~walked[s]
  /\ channel[s] \in {None, c}
  /\ Exists(admitted[s], c)
  /\ IsMember(admitted[s], viewer[s])
  /\ asking' = [asking EXCEPT ![s] = TRUE]
  /\ channel' = [channel EXCEPT ![s] = c]
  /\ UNCHANGED <<guildVars, messageVars, hubVars, viewer, admitted, cursor, walked,
                 fetched, heard, rows>>

\* The repository's ListMessages, and what the service makes of it.
FetchPage(s) ==
  LET found == Newest(Older(channel[s], cursor[s]), Limit + 1)
      page  == Newest(found, Limit)
      more  == Cardinality(found) > Limit IN
  /\ asking[s]
  /\ asking' = [asking EXCEPT ![s] = FALSE]
  /\ fetched' = [fetched EXCEPT ![s] = @ \cup page]
  /\ rows' = [rows EXCEPT ![s] = @ + Cardinality(page)]
  /\ walked' = [walked EXCEPT ![s] = ~more]
  /\ cursor' = [cursor EXCEPT ![s] = IF more THEN NextBefore(page, found) ELSE @]
  /\ UNCHANGED <<guildVars, messageVars, hubVars, viewer, admitted, channel, heard>>

-----------------------------------------------------------------------------

HubStep ==
  /\ \/ \E r \in Requests : Hub!PublishStep(r)
     \/ \E i \in Instances : Hub!RelayStep(i) \/ Hub!RelayLoses(i)
  /\ UNCHANGED <<guildVars, messageVars, streamVars>>

StreamStep(s) ==
  \/ \E u \in Users, g \in Guild : Admit(s, u, g)
  \/ \E i \in Instances : Connect(s, i)
  \/ Forward(s)
  \/ Disconnect(s)
  \/ Heartbeat(s)
  \/ \E c \in Channels : AskPage(s, c)
  \/ FetchPage(s)

Next ==
  \/ GuildRequest /\ UNCHANGED streamVars
  \/ \E r \in Requests : ChannelRequest(r) /\ UNCHANGED streamVars
  \/ HubStep
  \/ \E s \in Streams : StreamStep(s)

Spec == Init /\ [][Next]_vars

(* The ticker of a stream fires for ever and the membership read succeeds
   now and then; an admitted handler goes on to subscribe.                 *)
Fairness == \A s \in Streams : WF_vars(Heartbeat(s)) /\ WF_vars(Forward(s))

FairSpec == Spec /\ Fairness

-----------------------------------------------------------------------------
(* Properties.                                                             *)

InChannel(s, m) == \E n \in DOMAIN queue[s] : m \in Created(queue[s][n])

\* The event of m can still reach every open stream.
StillToCome(m) ==
  \/ \E r \in DOMAIN call : call[r].op = "send" /\ call[r].message = m
  \/ \E r \in DOMAIN pending : m \in Created(pending[r].event)

\* A client that connects first and then pages through the history misses no
\* message: each one that exists is on a page, or among the events, or ahead
\* of the page it will fetch next.  This is what makes "reconnect and refetch"
\* fill the gap.  (The re-read before the event may fail: unannounced.)
NothingMissed ==
  \A s \in Streams, m \in DOMAIN messages :
    /\ hubOf[s] # None
    /\ closes[s] = 0
    /\ messages[m].channel = channel[s]
    /\ m \notin unannounced
    => \/ m \in fetched[s]
       \/ m \in heard[s]
       \/ InChannel(s, m)
       \/ StillToCome(m)
       \/ ~walked[s] /\ (cursor[s] = 0 \/ m < cursor[s])

\* No page repeats a row of an earlier one.
PagesDisjoint == \A s \in Streams : rows[s] = Cardinality(fetched[s])

\* Whoever leaves a guild, or was leaving while the stream opened, is cut off:
\* the stream ends unless they join again.
LeaversCutOff ==
  \A s \in Streams :
    (reading[s] /\ ~IsMember(admitted[s], viewer[s]))
      ~> (~reading[s] \/ IsMember(admitted[s], viewer[s]))
=============================================================================
