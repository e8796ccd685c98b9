---------------------------- MODULE RealtimeHub -----------------------------
(***************************************************************************)
(* The event hub of internal/platform/realtime/hub.go, one per server      *)
(* instance.  A hub keeps its subscriptions in memory, each with a bounded *)
(* channel.  Publish goes through Redis pub/sub when there is one: every   *)
(* instance's relay goroutine receives the message and delivers it to the  *)
(* local subscriptions of its topic.  When Redis refuses the message, or   *)
(* there is no Redis, the publisher delivers it to its own instance.       *)
(*                                                                         *)
(* Every critical section under h.mu is one action.  The reader of a       *)
(* subscription is the handler of one stream: it receives until the        *)
(* channel is closed, or gives up earlier, and always closes what it       *)
(* subscribed.  RealtimeHubFeeds puts the actions together.                *)
(***************************************************************************)
EXTENDS Integers, Sequences, SequencesExt

CONSTANTS
  Instances,   \* server processes
  Topics,
  Subs,        \* subscriptions; each is made once
  Publishers,  \* goroutines inside Publish
  Events,      \* payloads; each is published once
  Buffer,      \* subscriptionBuffer
  WithRedis,   \* NewHub was given a cache
  None

ASSUME HubAssumption ==
  /\ Buffer \in Nat
  /\ WithRedis \in BOOLEAN
  /\ None \notin Instances \cup Topics

VARIABLES
  closed,   \* h.closed of each instance
  subs,     \* h.subs of each instance, all topics together
  hubOf,    \* the hub of a subscription, None until it is made
  topicOf,  \* its topic
  queue,    \* the buffered events of its channel
  closes,   \* how many times its channel was closed: twice is a panic
  reading,  \* whether its handler is still there to receive
  relay,    \* the relay goroutine of each instance
  inbox,    \* what Redis has sent to the relay and it has not received
  inhand,   \* what the relay has received and not delivered: at most one
  closer,   \* where the call of Close that does the work is
  pending   \* what each publisher is publishing

hubVars == <<closed, subs, hubOf, topicOf, queue, closes, reading, relay, inbox,
             inhand, closer, pending>>

-----------------------------------------------------------------------------

Message == Topics \X Events
Publication == [hub : Instances, topic : Topics, event : Events, via : {"redis", "local"}]

HubTypeOK ==
  /\ closed \in [Instances -> BOOLEAN]
  /\ subs \in [Instances -> SUBSET Subs]
  /\ hubOf \in [Subs -> Instances \cup {None}]
  /\ topicOf \in [Subs -> Topics \cup {None}]
  /\ queue \in [Subs -> Seq(Events)]
  /\ \A s \in Subs : Len(queue[s]) <= Buffer
  /\ closes \in [Subs -> Nat]
  /\ reading \in [Subs -> BOOLEAN]
  /\ relay \in [Instances -> {"running", "canceled", "done"}]
  /\ inbox \in [Instances -> Seq(Message)]
  /\ inhand \in [Instances -> Seq(Message)]
  /\ closer \in [Instances -> {"open", "cancel", "wait", "returned"}]
  /\ \A p \in DOMAIN pending : pending[p] \in Publication
  /\ DOMAIN pending \subseteq Publishers

\* NewHub and Start: without Redis there is no relay and done is closed.
HubInit ==
  /\ closed  = [i \in Instances |-> FALSE]
  /\ subs    = [i \in Instances |-> {}]
  /\ hubOf   = [s \in Subs |-> None]
  /\ topicOf = [s \in Subs |-> None]
  /\ queue   = [s \in Subs |-> <<>>]
  /\ closes  = [s \in Subs |-> 0]
  /\ reading = [s \in Subs |-> FALSE]
  /\ relay   = [i \in Instances |-> IF WithRedis THEN "running" ELSE "done"]
  /\ inbox   = [i \in Instances |-> <<>>]
  /\ inhand  = [i \in Instances |-> <<>>]
  /\ closer  = [i \in Instances |-> "open"]
  /\ pending = [p \in {} |-> None]

-----------------------------------------------------------------------------
(* Critical sections.                                                      *)

Registered(i, t) == {s \in subs[i] : topicOf[s] = t}

\* Mistake: closes what it is asked to, registered or not.
RemoveLockedAlways(i, ss) ==
  /\ subs'   = [subs EXCEPT ![i] = @ \ ss]
  /\ closes' = [s \in Subs |-> IF s \in ss THEN closes[s] + 1 ELSE closes[s]]

\* removeLocked of each of ss: closes only what is still registered.
RemoveLocked(i, ss) ==
  /\ subs'   = [subs EXCEPT ![i] = @ \ ss]
  /\ closes' = [s \in Subs |-> IF s \in ss \cap subs[i] THEN closes[s] + 1 ELSE closes[s]]

\* Mistake: an event that does not fit is skipped and the subscriber stays.
DeliverOrSkip(i, t, e) ==
  LET fits == {s \in Registered(i, t) : Len(queue[s]) < Buffer} IN
  /\ queue' = [s \in Subs |-> IF s \in fits THEN Append(queue[s], e) ELSE queue[s]]
  /\ RemoveLocked(i, {})

\* Mistake: off by one, the channel is taken to have one place more.
DeliverOverfull(i, t, e) ==
  LET fits == {s \in Registered(i, t) : Len(queue[s]) <= Buffer} IN
  /\ queue' = [s \in Subs |-> IF s \in fits THEN Append(queue[s], e) ELSE queue[s]]
  /\ RemoveLocked(i, Registered(i, t) \ fits)

\* deliver: a subscriber whose channel is full is dropped.
Deliver(i, t, e) ==
  LET fits == {s \in Registered(i, t) : Len(queue[s]) < Buffer} IN
  /\ queue' = [s \in Subs |-> IF s \in fits THEN Append(queue[s], e) ELSE queue[s]]
  /\ RemoveLocked(i, Registered(i, t) \ fits)

-----------------------------------------------------------------------------
(* Subscriptions and their readers.                                        *)

\* Subscribe: after Close the subscription is born closed.
Subscribe(i, s, t) ==
  /\ hubOf[s] = None
  /\ hubOf'   = [hubOf EXCEPT ![s] = i]
  /\ topicOf' = [topicOf EXCEPT ![s] = t]
  /\ reading' = [reading EXCEPT ![s] = TRUE]
  /\ \/ /\ closed[i]
        /\ closes' = [closes EXCEPT ![s] = @ + 1]
        /\ UNCHANGED subs
     \/ /\ ~closed[i]
        /\ subs' = [subs EXCEPT ![i] = @ \cup {s}]
        /\ UNCHANGED closes
  /\ UNCHANGED <<closed, queue, relay, inbox, inhand, closer, pending>>

\* <-sub.C yields an event; a closed channel still yields what it buffered.
Receive(s) ==
  /\ reading[s]
  /\ queue[s] # <<>>
  /\ queue' = [queue EXCEPT ![s] = Tail(@)]
  /\ UNCHANGED <<closed, subs, hubOf, topicOf, closes, reading, relay, inbox,
                 inhand, closer, pending>>

\* The reader returns, and its deferred sub.Close() runs.  It returns when the
\* channel is closed and drained, or at any time: its client is gone.
StopReading(s) ==
  /\ reading[s]
  /\ reading' = [reading EXCEPT ![s] = FALSE]
  /\ RemoveLocked(hubOf[s], {s})
  /\ UNCHANGED <<closed, hubOf, topicOf, queue, relay, inbox, inhand, closer,
                 pending>>

Drained(s) == closes[s] > 0 /\ queue[s] = <<>>

EndOfStream(s) == Drained(s) /\ StopReading(s)
GiveUp(s)      == ~Drained(s) /\ StopReading(s)

-----------------------------------------------------------------------------
(* Publish.                                                                *)

Done(p) == pending' = [q \in DOMAIN pending \ {p} |-> pending[q]]

\* The call reaches Redis, when there is one, before anything else.
Submit(p, i, t, e) ==
  pending' = [q \in DOMAIN pending \cup {p} |->
                IF q = p THEN [hub |-> i, topic |-> t, event |-> e,
                               via |-> IF WithRedis THEN "redis" ELSE "local"]
                ELSE pending[q]]

BeginPublish(p, i, t, e) ==
  /\ p \notin DOMAIN pending
  /\ Submit(p, i, t, e)
  /\ UNCHANGED <<closed, subs, hubOf, topicOf, queue, closes, reading, relay,
                 inbox, inhand, closer>>

\* Redis hands a message to every relay that is still subscribed.
Broadcast(m) ==
  inbox' = [i \in Instances |-> IF relay[i] = "done" THEN inbox[i] ELSE Append(inbox[i], m)]

PublishToRedis(p) ==
  /\ p \in DOMAIN pending
  /\ pending[p].via = "redis"
  /\ Broadcast(<<pending[p].topic, pending[p].event>>)
  /\ Done(p)
  /\ UNCHANGED <<closed, subs, hubOf, topicOf, queue, closes, reading, relay,
                 inhand, closer>>

\* Redis returned an error: it may have broadcast the message all the same.
PublishRejected(p) ==
  /\ p \in DOMAIN pending
  /\ pending[p].via = "redis"
  /\ \/ UNCHANGED inbox
     \/ Broadcast(<<pending[p].topic, pending[p].event>>)
  /\ pending' = [pending EXCEPT ![p].via = "local"]
  /\ UNCHANGED <<closed, subs, hubOf, topicOf, queue, closes, reading, relay,
                 inhand, closer>>

PublishLocally(p) ==
  /\ p \in DOMAIN pending
  /\ pending[p].via = "local"
  /\ Deliver(pending[p].hub, pending[p].topic, pending[p].event)
  /\ Done(p)
  /\ UNCHANGED <<closed, hubOf, topicOf, reading, relay, inbox, inhand, closer>>

-----------------------------------------------------------------------------
(* The relay goroutine.                                                    *)

RelayReceive(i) ==
  /\ relay[i] # "done"
  /\ inhand[i] = <<>>
  /\ inbox[i] # <<>>
  /\ inhand' = [inhand EXCEPT ![i] = <<Head(inbox[i])>>]
  /\ inbox'  = [inbox EXCEPT ![i] = Tail(@)]
  /\ UNCHANGED <<closed, subs, hubOf, topicOf, queue, closes, reading, relay,
                 closer, pending>>

\* Mistake: Close waits for the relay with h.mu held, which deliver needs.
RelayDeliverLockedOut(i) ==
  /\ inhand[i] # <<>>
  /\ closer[i] \in {"open", "returned"}
  /\ Deliver(i, Head(inhand[i])[1], Head(inhand[i])[2])
  /\ inhand' = [inhand EXCEPT ![i] = <<>>]
  /\ UNCHANGED <<closed, hubOf, topicOf, reading, relay, inbox, closer, pending>>

RelayDeliver(i) ==
  /\ inhand[i] # <<>>
  /\ Deliver(i, Head(inhand[i])[1], Head(inhand[i])[2])
  /\ inhand' = [inhand EXCEPT ![i] = <<>>]
  /\ UNCHANGED <<closed, hubOf, topicOf, reading, relay, inbox, closer, pending>>

\* ctx.Done() was ready and select took it; the subscription to Redis closes.
RelayExit(i) ==
  /\ relay[i] = "canceled"
  /\ inhand[i] = <<>>
  /\ relay' = [relay EXCEPT ![i] = "done"]
  /\ inbox' = [inbox EXCEPT ![i] = <<>>]
  /\ UNCHANGED <<closed, subs, hubOf, topicOf, queue, closes, reading, inhand,
                 closer, pending>>

\* The connection to Redis breaks and comes back: what was under way is lost.
RelayLoses(i) ==
  /\ inbox[i] # <<>>
  /\ inbox' = [inbox EXCEPT ![i] = <<>>]
  /\ UNCHANGED <<closed, subs, hubOf, topicOf, queue, closes, reading, relay,
                 inhand, closer, pending>>

-----------------------------------------------------------------------------
(* Close.  A second call finds h.closed set and returns at once.           *)

\* Mistake: the map is emptied, the channels stay open.
CloseHubSilently(i) ==
  /\ ~closed[i]
  /\ closed' = [closed EXCEPT ![i] = TRUE]
  /\ subs'   = [subs EXCEPT ![i] = {}]
  /\ closer' = [closer EXCEPT ![i] = "cancel"]
  /\ UNCHANGED <<hubOf, topicOf, queue, closes, reading, relay, inbox, inhand,
                 pending>>

CloseHub(i) ==
  /\ ~closed[i]
  /\ closed' = [closed EXCEPT ![i] = TRUE]
  /\ RemoveLocked(i, subs[i])
  /\ closer' = [closer EXCEPT ![i] = "cancel"]
  /\ UNCHANGED <<hubOf, topicOf, queue, reading, relay, inbox, inhand,
                 pending>>

CloseCancel(i) ==
  /\ closer[i] = "cancel"
  /\ \/ /\ WithRedis
        /\ relay'  = [relay EXCEPT ![i] = "canceled"]
        /\ closer' = [closer EXCEPT ![i] = "wait"]
     \/ /\ ~WithRedis
        /\ closer' = [closer EXCEPT ![i] = "returned"]
        /\ UNCHANGED relay
  /\ UNCHANGED <<closed, subs, hubOf, topicOf, queue, closes, reading, inbox,
                 inhand, pending>>

CloseReturn(i) ==
  /\ closer[i] = "wait"
  /\ relay[i] = "done"
  /\ closer' = [closer EXCEPT ![i] = "returned"]
  /\ UNCHANGED <<closed, subs, hubOf, topicOf, queue, closes, reading, relay,
                 inbox, inhand, pending>>

-----------------------------------------------------------------------------

ReaderStep(s)  == Receive(s) \/ EndOfStream(s)
PublishStep(p) == PublishToRedis(p) \/ PublishRejected(p) \/ PublishLocally(p)
RelayStep(i)   == RelayReceive(i) \/ RelayDeliver(i) \/ RelayExit(i)
CloseStep(i)   == CloseCancel(i) \/ CloseReturn(i)

(* Goroutines that can run do run.  The relay's select may prefer messages
   to ctx.Done() only as long as messages keep coming.                     *)
HubFairness ==
  /\ \A s \in Subs : WF_hubVars(ReaderStep(s))
  /\ \A i \in Instances : WF_hubVars(RelayStep(i)) /\ WF_hubVars(CloseStep(i))

-----------------------------------------------------------------------------
(* Properties.                                                             *)

\* Channels are only closed under h.mu, by whoever unregisters them: never
\* twice, and never while registered, where deliver could still send.
ClosedOnce ==
  \A s \in Subs :
    closes[s] = IF \/ hubOf[s] = None
                   \/ s \in subs[hubOf[s]]
                THEN 0 ELSE 1
=============================================================================
