-------------------------- MODULE RealtimeHubFeeds --------------------------
(***************************************************************************)
(* The hubs of all instances at work: whoever publishes, subscribes, reads *)
(* and shuts down.  Beside the hub's own state it remembers what every     *)
(* subscription was due and what its reader received.                      *)
(***************************************************************************)
EXTENDS RealtimeHub

VARIABLES
  sent,  \* the events handed to Publish: each is published once
  owed,  \* what was delivered to its topic since a subscription was made
  got    \* what the reader of a subscription received

history == <<sent, owed, got>>
vars == <<hubVars, history>>

-----------------------------------------------------------------------------

TypeOK ==
  /\ HubTypeOK
  /\ sent \subseteq Events
  /\ owed \in [Subs -> Seq(Events)]
  /\ got \in [Subs -> Seq(Events)]

Init ==
  /\ HubInit
  /\ sent = {}
  /\ owed = [s \in Subs |-> <<>>]
  /\ got  = [s \in Subs |-> <<>>]

-----------------------------------------------------------------------------

\* Every subscription of the topic at this hub, registered still or not.
Owe(i, t, e) ==
  owed' = [s \in Subs |-> IF hubOf[s] = i /\ topicOf[s] = t
                          THEN Append(owed[s], e) ELSE owed[s]]

PublishOnce(p, i, t, e) ==
  /\ e \notin sent
  /\ BeginPublish(p, i, t, e)
  /\ sent' = sent \cup {e}
  /\ UNCHANGED <<owed, got>>

\* Receive, and what it yields.
Take(s) ==
  /\ Receive(s)
  /\ got' = [got EXCEPT ![s] = Append(@, Head(queue[s]))]
  /\ UNCHANGED <<sent, owed>>

DeliverLocally(p) ==
  /\ PublishLocally(p)
  /\ Owe(pending[p].hub, pending[p].topic, pending[p].event)
  /\ UNCHANGED <<sent, got>>

DeliverRelayed(i) ==
  /\ RelayDeliver(i)
  /\ Owe(i, Head(inhand[i])[1], Head(inhand[i])[2])
  /\ UNCHANGED <<sent, got>>

\* Steps that neither fill nor empty a channel.
Bookkeeping ==
  \/ \E i \in Instances, s \in Subs, t \in Topics : Subscribe(i, s, t)
  \/ \E s \in Subs : EndOfStream(s) \/ GiveUp(s)
  \/ \E p \in Publishers : PublishToRedis(p) \/ PublishRejected(p)
  \/ \E i \in Instances :
       RelayReceive(i) \/ RelayExit(i) \/ RelayLoses(i) \/ CloseHub(i) \/ CloseStep(i)

Next ==
  \/ Bookkeeping /\ UNCHANGED history
  \/ \E p \in Publishers, i \in Instances, t \in Topics, e \in Events : PublishOnce(p, i, t, e)
  \/ \E s \in Subs : Take(s)
  \/ \E p \in Publishers : DeliverLocally(p)
  \/ \E i \in Instances : DeliverRelayed(i)

Spec == Init /\ [][Next]_vars

FairSpec == Spec /\ HubFairness

-----------------------------------------------------------------------------
(* Properties.                                                             *)

\* A subscription never skips an event: what its reader received and what
\* waits in the channel are, in order, everything the hub delivered to the
\* topic since Subscribe; once dropped or closed, a prefix of it.
NoSilentGap ==
  \A s \in Subs :
    /\ IsPrefix(got[s] \o queue[s], owed[s])
    /\ s \in UNION {subs[i] : i \in Instances} => got[s] \o queue[s] = owed[s]

\* Close comes back: the relay it waits for is never itself waiting for it.
CloseReturns == \A i \in Instances : closed[i] ~> closer[i] = "returned"

\* Shutdown ends every stream, so http.Server.Shutdown is not held up.
ShutdownEndsStreams ==
  \A i \in Instances, s \in Subs :
    closed[i] ~> (hubOf[s] = i => ~reading[s])
=============================================================================
