-------------------------- MODULE GuildPagesProofs --------------------------
(***************************************************************************)
(* Theorems on the streams of a guild and their clients, for any number of *)
(* streams and any page size, while messages are written and deleted under *)
(* them: the pages never overlap, what the streams know keeps its type,    *)
(* and on one instance without Redis no message is missed.                 *)
(*                                                                         *)
(* The proof goes from the hubs (what registering, delivering and closing  *)
(* keep) through the requests (Told: what a request leaves to the streams) *)
(* to the steps of a stream (FeedKept), and puts them together.            *)
(***************************************************************************)
EXTENDS GuildProofs

USE GuildAssumption, HubsAssumption, PageAssumption

-----------------------------------------------------------------------------
(* Sets of ids.                                                            *)

LEMMA LeastId ==
  ASSUME NEW S, S \subseteq Nat, S # {}
  PROVE  /\ Min(S) \in S
         /\ \A x \in S : Min(S) <= x
  <1>1. \E R : IsWellFoundedOn(R, Nat) /\ \A x, y \in Nat : y < x => <<y, x>> \in R
    <2>1. \A x, y \in Nat : y < x => <<y, x>> \in OpToRel(<, Nat)
      BY DEF OpToRel
    <2> QED BY <2>1, NatLessThanWellFounded
  <1>2. PICK R : IsWellFoundedOn(R, Nat) /\ \A x, y \in Nat : y < x => <<y, x>> \in R
    BY <1>1
  <1>3. PICK x \in S : \A y \in S : ~ (<<y, x>> \in R)
    BY <1>2, WFMin
  <1>4. ASSUME NEW y \in S
        PROVE  x <= y
    <2>1. x \in Nat /\ y \in Nat
      OBVIOUS
    <2>2. ~ (y < x)
      BY <1>2, <1>3, <2>1, Zenon
    <2> QED BY <2>1, <2>2, SMT
  <1> QED BY <1>4 DEF Min

\* The greatest of finitely many ids is found from above.
LEMMA GreatestId ==
  ASSUME NEW S, S \subseteq Ids, S # {}
  PROVE  \E x \in S : \A y \in S : y <= x
  <1> DEFINE D == {n \in Nat : \E y \in S : n = MaxId - y}
  <1>1. \A y \in S : MaxId - y \in D
    BY DEF Ids
  <1>2. D \subseteq Nat /\ D # {}
    BY <1>1
  <1>3. PICK n \in D : \A k \in D : n <= k
    BY <1>2, LeastId
  <1>4. PICK x \in S : n = MaxId - x
    BY <1>3
  <1>5. ASSUME NEW y \in S
        PROVE  y <= x
    <2>1. n <= MaxId - y
      BY <1>1, <1>3
    <2> QED BY <1>4, <2>1 DEF Ids
  <1> QED BY <1>5

LEMMA IdsFinite ==
  ASSUME NEW S, S \subseteq Ids
  PROVE  IsFiniteSet(S) /\ Cardinality(S) \in Nat
  <1>1. IsFiniteSet(Ids)
    BY FS_Interval DEF Ids
  <1> QED BY <1>1, FS_Subset, FS_CardinalityType

\* A page of something is not empty.
LEMMA PageNotEmpty ==
  ASSUME NEW S, S \subseteq Ids, S # {}, NEW n \in Nat \ {0}
  PROVE  Newest(S, n) # {}
  <1>1. PICK x \in S : \A y \in S : y <= x
    BY GreatestId
  <1>2. {y \in S : y > x} = {}
    <2>1. \A y \in S : ~ (y > x)
      BY <1>1 DEF Ids
    <2> QED BY <2>1
  <1>3. Cardinality({y \in S : y > x}) < n
    BY <1>2, FS_EmptySet
  <1> QED BY <1>3 DEF Newest

-----------------------------------------------------------------------------
(* The client's steps.                                                     *)

\* The next page starts below the cursor, so that nothing on it was there
\* before, and the cursor moves to its last row.
LEMMA FetchPageStep ==
  ASSUME IInv, PageTypeOK, PagesOK, NEW s \in Streams, FetchPage(s)
  PROVE  PageTypeOK' /\ PagesOK'
  <1> DEFINE found == Newest(Older(channel[s], cursor[s]), Limit + 1)
             page  == Newest(found, Limit)
             more  == Cardinality(found) > Limit
             next  == IF more THEN Min(page) ELSE cursor[s]
  <1>1. /\ asking[s]
        /\ asking' = [asking EXCEPT ![s] = FALSE]
        /\ fetched' = [fetched EXCEPT ![s] = @ \cup page]
        /\ rows' = [rows EXCEPT ![s] = @ + Cardinality(page)]
        /\ walked' = [walked EXCEPT ![s] = ~more]
        /\ cursor' = [cursor EXCEPT ![s] = next]
    BY DEF FetchPage, NextBefore
  <1>2. /\ cursor[s] \in 0..MaxId /\ fetched[s] \subseteq Ids /\ ~walked[s]
        /\ rows[s] = Cardinality(fetched[s])
        /\ \A m \in fetched[s] : cursor[s] # 0 /\ m >= cursor[s]
    BY <1>1 DEF PageTypeOK, PagesOK
  <1>3. /\ found \subseteq Ids /\ page \subseteq found
        /\ \A m \in page : cursor[s] = 0 \/ m < cursor[s]
    BY Parts DEF Newest, Older, MessagesOf, RowsOK, Ids
  <1>4. more => page # {}
    <2>1. SUFFICES ASSUME more
                   PROVE  found # {}
      BY <1>3, PageNotEmpty
    <2>2. found = {} => Cardinality(found) = 0
      BY FS_EmptySet
    <2> HIDE DEF found
    <2> QED BY <2>1, <2>2
  <1>5. more => next \in page /\ \A m \in page : next <= m
    BY <1>3, <1>4, LeastId DEF Ids
  <1>6. next \in 0..MaxId
    BY <1>2, <1>3, <1>5 DEF Ids
  <1> HIDE DEF found, page, more, next
  <1>7. fetched[s] \cap page = {}
    BY <1>2, <1>3 DEF Ids
  <1>8. /\ IsFiniteSet(fetched[s] \cup page)
        /\ Cardinality(fetched[s] \cup page) = Cardinality(fetched[s]) + Cardinality(page)
        /\ Cardinality(fetched[s] \cup page) \in Nat
    <2>1. /\ IsFiniteSet(fetched[s]) /\ Cardinality(fetched[s]) \in Nat
          /\ IsFiniteSet(page) /\ Cardinality(page) \in Nat
      BY <1>2, <1>3, IdsFinite
    <2>2. Cardinality(fetched[s] \cap page) = 0
      BY <1>7, FS_EmptySet
    <2>3. /\ IsFiniteSet(fetched[s] \cup page)
          /\ Cardinality(fetched[s] \cup page)
               = Cardinality(fetched[s]) + Cardinality(page) - Cardinality(fetched[s] \cap page)
      BY <2>1, FS_Union
    <2> QED BY <2>1, <2>2, <2>3
  <1>9. more => \A m \in fetched[s] \cup page : next # 0 /\ m >= next
    <2>1. more => next \in Ids /\ (cursor[s] = 0 \/ next < cursor[s])
      BY <1>3, <1>5
    <2>2. more => \A m \in fetched[s] : m >= next
      BY <1>2, <2>1 DEF Ids
    <2>3. more => \A m \in page : m >= next
      BY <1>3, <1>5, <2>1 DEF Ids
    <2> QED BY <2>1, <2>2, <2>3 DEF Ids
  <1>10. PageTypeOK'
    BY <1>1, <1>2, <1>3, <1>6, <1>8 DEF PageTypeOK, more
  <1>11. ASSUME NEW t \in Streams
         PROVE  /\ rows'[t] = Cardinality(fetched'[t])
                /\ IsFiniteSet(fetched'[t])
                /\ asking'[t] => ~walked'[t]
                /\ ~walked'[t] => \A m \in fetched'[t] : cursor'[t] # 0 /\ m >= cursor'[t]
    <2>1. CASE t = s
      <3>1. /\ fetched'[t] = fetched[s] \cup page /\ rows'[t] = rows[s] + Cardinality(page)
            /\ walked'[t] = ~more /\ cursor'[t] = next /\ asking'[t] = FALSE
        BY <1>1, <2>1 DEF PageTypeOK
      <3> QED BY <1>2, <1>8, <1>9, <3>1
    <2>2. CASE t # s
      <3>1. /\ fetched'[t] = fetched[t] /\ rows'[t] = rows[t] /\ walked'[t] = walked[t]
            /\ cursor'[t] = cursor[t] /\ asking'[t] = asking[t]
        BY <1>1, <2>2 DEF PageTypeOK
      <3> QED BY <3>1 DEF PagesOK
    <2> QED BY <2>1, <2>2
  <1> QED BY <1>10, <1>11 DEF PagesOK

LEMMA AskPageStep ==
  ASSUME PageTypeOK, PagesOK, NEW s \in Streams, NEW c \in Channels, AskPage(s, c)
  PROVE  PageTypeOK' /\ PagesOK'
  BY DEF AskPage, PageTypeOK, PagesOK

LEMMA PagesKept ==
  ASSUME PageTypeOK, PagesOK, UNCHANGED <<asking, cursor, walked, fetched, rows>>
  PROVE  PageTypeOK' /\ PagesOK'
  BY DEF PageTypeOK, PagesOK

LEMMA PagesInit == Init => PageTypeOK /\ PagesOK
  BY FS_EmptySet DEF Init, PageTypeOK, PagesOK

LEMMA PagesStep == IInv /\ PageTypeOK /\ PagesOK /\ [Next]_vars => PageTypeOK' /\ PagesOK'
  <1> SUFFICES ASSUME IInv, PageTypeOK, PagesOK, [Next]_vars
               PROVE  PageTypeOK' /\ PagesOK'
    OBVIOUS
  <1>1. CASE UNCHANGED streamVars
    BY <1>1, PagesKept DEF streamVars
  <1>2. ASSUME NEW s \in Streams, StreamStep(s)
        PROVE  PageTypeOK' /\ PagesOK'
    <2>1. ASSUME NEW c \in Channels, AskPage(s, c)
          PROVE  PageTypeOK' /\ PagesOK'
      BY <2>1, AskPageStep
    <2>2. CASE FetchPage(s)
      BY <2>2, FetchPageStep
    <2>3. CASE UNCHANGED <<asking, cursor, walked, fetched, rows>>
      BY <2>3, PagesKept
    <2> QED
      BY <1>2, <2>1, <2>2, <2>3 DEF StreamStep, Admit, Connect, Forward, Disconnect, Heartbeat, streamVars
  <1> QED BY <1>1, <1>2 DEF Next, HubStep, vars

\* Paging backwards while others write and delete never shows a row twice.
THEOREM PagesNeverOverlap == Spec => []PagesDisjoint
  <1>1. Init => PageTypeOK /\ PagesOK
    BY PagesInit
  <1>2. IInv /\ PageTypeOK /\ PagesOK /\ [Next]_vars => PageTypeOK' /\ PagesOK'
    BY PagesStep
  <1>3. PagesOK => PagesDisjoint
    BY DEF PagesOK, PagesDisjoint
  <1> QED BY <1>1, <1>2, <1>3, GuildInvariance, PTL DEF Spec

-----------------------------------------------------------------------------
(* The hubs.                                                               *)

\* The types of the hubs, for a proof to open in one go.
LEMMA HubTypes ==
  ASSUME HubsOK
  PROVE  /\ closed \in [Instances -> BOOLEAN]
         /\ subs \in [Instances -> SUBSET Streams]
         /\ hubOf \in [Streams -> Instances \cup {None}]
         /\ topicOf \in [Streams -> Guild \cup {None}]
         /\ queue \in [Streams -> Seq(Event)]
         /\ \A s \in Streams : Len(queue[s]) <= Buffer
         /\ closes \in [Streams -> Nat]
         /\ reading \in [Streams -> BOOLEAN]
         /\ inbox \in [Instances -> Seq(Guild \X Event)]
         /\ inhand \in [Instances -> Seq(Guild \X Event)]
         /\ DOMAIN pending \subseteq Requests
         /\ \A r \in DOMAIN pending :
              /\ pending[r] \in Hub!Publication
              /\ pending[r].hub \in Instances /\ pending[r].topic \in Guild
              /\ pending[r].event \in Event /\ pending[r].via \in {"redis", "local"}
  BY DEF HubsOK, Hub!HubTypeOK, Hub!Message, Hub!Publication

\* What every step keeps of the subscriptions of the hubs.
RegistryOK ==
  /\ subs \in [Instances -> SUBSET Streams]
  /\ closes \in [Streams -> Nat]
  /\ Hub!ClosedOnce
  /\ \A i \in Instances : \A s \in subs[i] : hubOf[s] = i

\* Unregistering closes exactly what it unregisters.
LEMMA Unregisters ==
  ASSUME HubsOK, NEW i \in Instances, NEW ss \in SUBSET Streams,
         \A s \in ss : hubOf[s] = i, Hub!RemoveLocked(i, ss), UNCHANGED hubOf
  PROVE  /\ RegistryOK'
         /\ \A s \in Streams : closes[s] # 0 => closes'[s] # 0
         /\ \A s \in ss : closes'[s] # 0
  <1>1. /\ subs \in [Instances -> SUBSET Streams] /\ closes \in [Streams -> Nat]
        /\ hubOf \in [Streams -> Instances \cup {None}]
        /\ \A j \in Instances : \A s \in subs[j] : hubOf[s] = j
        /\ Hub!ClosedOnce
    BY HubTypes DEF HubsOK
  <1>2. /\ subs' = [subs EXCEPT ![i] = @ \ ss]
        /\ closes' = [s \in Streams |-> IF s \in ss \cap subs[i] THEN closes[s] + 1 ELSE closes[s]]
    BY DEF Hub!RemoveLocked
  <1>3. \A j \in Instances : subs'[j] = IF j = i THEN subs[i] \ ss ELSE subs[j]
    BY <1>1, <1>2
  <1>4. ASSUME NEW s \in Streams
        PROVE  /\ closes'[s] = IF hubOf[s] = None \/ s \in subs'[hubOf[s]] THEN 0 ELSE 1
               /\ closes[s] # 0 => closes'[s] # 0
               /\ s \in ss => closes'[s] # 0
    <2>1. closes[s] = IF hubOf[s] = None \/ s \in subs[hubOf[s]] THEN 0 ELSE 1
      BY <1>1 DEF Hub!ClosedOnce
    <2>2. CASE s \in ss \cap subs[i]
      BY <1>1, <1>2, <1>3, <2>1, <2>2
    <2>3. CASE s \notin ss \cap subs[i]
      <3>1. closes'[s] = closes[s]
        BY <1>2, <2>3
      <3>2. s \in ss => hubOf[s] = i /\ i # None /\ s \notin subs[i]
        BY <2>3
      <3>3. hubOf[s] # None => (s \in subs'[hubOf[s]] <=> s \in subs[hubOf[s]])
        BY <1>1, <1>3, <2>3
      <3> QED BY <2>1, <3>1, <3>2, <3>3
    <2> QED BY <2>2, <2>3
  <1>5. Hub!ClosedOnce'
    BY <1>4 DEF Hub!ClosedOnce
  <1>6. subs' \in [Instances -> SUBSET Streams] /\ closes' \in [Streams -> Nat]
    BY <1>1, <1>2
  <1>7. \A j \in Instances : \A s \in subs'[j] : hubOf'[s] = j
    BY <1>1, <1>3
  <1> QED BY <1>4, <1>5, <1>6, <1>7 DEF RegistryOK

\* A delivery puts the event last in the channel of every subscriber of the
\* topic, or closes the channel; it takes nothing out of any.
LEMMA Delivers ==
  ASSUME HubsOK, NEW i \in Instances, NEW g \in Guild, NEW e \in Event,
         Hub!Deliver(i, g, e), UNCHANGED hubOf
  PROVE  /\ RegistryOK'
         /\ queue' \in [Streams -> Seq(Event)]
         /\ \A s \in Streams :
              /\ Len(queue'[s]) <= Buffer
              /\ closes[s] # 0 => closes'[s] # 0
              /\ queue'[s] = queue[s] \/ queue'[s] = Append(queue[s], e)
              /\ s \in subs[i] /\ topicOf[s] = g /\ closes'[s] = 0 => queue'[s] = Append(queue[s], e)
  <1> DEFINE to   == {s \in subs[i] : topicOf[s] = g}
             fits == {s \in to : Len(queue[s]) < Buffer}
  <1>1. /\ queue' = [s \in Streams |-> IF s \in fits THEN Append(queue[s], e) ELSE queue[s]]
        /\ Hub!RemoveLocked(i, to \ fits)
    BY DEF Hub!Deliver, Hub!Registered
  <1>2. /\ to \subseteq Streams /\ \A s \in to : hubOf[s] = i
        /\ queue \in [Streams -> Seq(Event)] /\ \A s \in Streams : Len(queue[s]) <= Buffer
    BY HubTypes DEF HubsOK
  <1>3. /\ RegistryOK'
        /\ \A s \in Streams : closes[s] # 0 => closes'[s] # 0
        /\ \A s \in to \ fits : closes'[s] # 0
    BY <1>1, <1>2, Unregisters
  <1>4. ASSUME NEW s \in Streams
        PROVE  /\ queue'[s] \in Seq(Event) /\ Len(queue'[s]) <= Buffer
               /\ queue'[s] = IF s \in fits THEN Append(queue[s], e) ELSE queue[s]
    <2>1. queue'[s] = IF s \in fits THEN Append(queue[s], e) ELSE queue[s]
      BY <1>1
    <2>2. CASE s \in fits
      <3>1. queue[s] \in Seq(Event) /\ Len(queue[s]) < Buffer /\ Len(queue[s]) \in Nat
        BY <1>2, <2>2
      <3>2. Append(queue[s], e) \in Seq(Event) /\ Len(Append(queue[s], e)) = Len(queue[s]) + 1
        BY <3>1
      <3> QED BY <2>1, <2>2, <3>1, <3>2, HubsAssumption
    <2>3. CASE s \notin fits
      BY <1>2, <2>1, <2>3
    <2> QED BY <2>1, <2>2, <2>3
  <1>5. queue' \in [Streams -> Seq(Event)]
    BY <1>1, <1>4
  <1>6. ASSUME NEW s \in Streams, s \in subs[i], topicOf[s] = g, closes'[s] = 0
        PROVE  s \in fits
    BY <1>3, <1>6
  <1> HIDE DEF fits, to
  <1> QED BY <1>3, <1>4, <1>5, <1>6

\* The invariant of the hubs from the variables a step may have touched.
LEMMA HubsParts ==
  /\ HubsOK => RegistryOK
  /\ HubsOK' <=> RegistryOK' /\ Hub!HubTypeOK'
  BY DEF HubsOK, RegistryOK, Hub!HubTypeOK

LEMMA RegistryKept ==
  ASSUME HubsOK, UNCHANGED <<subs, closes, hubOf>>
  PROVE  RegistryOK'
  BY HubsParts DEF RegistryOK, Hub!ClosedOnce

LEMMA SubscribeStep ==
  ASSUME HubsOK, NEW i \in Instances, NEW s \in Streams, NEW g \in Guild, Hub!Subscribe(i, s, g)
  PROVE  HubsOK'
  <1>1. RegistryOK /\ Hub!HubTypeOK
    BY HubsParts DEF HubsOK
  <1>2. /\ hubOf[s] = None
        /\ hubOf' = [hubOf EXCEPT ![s] = i]
        /\ topicOf' = [topicOf EXCEPT ![s] = g]
        /\ reading' = [reading EXCEPT ![s] = TRUE]
        /\ UNCHANGED <<closed, queue, relay, inbox, inhand, closer, pending>>
    BY DEF Hub!Subscribe
  <1>3. \A j \in Instances : s \notin subs[j]
    BY <1>1, <1>2 DEF RegistryOK
  <1>4. closes[s] = 0
    BY <1>1, <1>2 DEF RegistryOK, Hub!ClosedOnce
  <1>5. CASE closes' = [closes EXCEPT ![s] = @ + 1] /\ UNCHANGED subs
    <2>1. ASSUME NEW u \in Streams
          PROVE  closes'[u] = IF hubOf'[u] = None \/ u \in subs'[hubOf'[u]] THEN 0 ELSE 1
      <3>1. CASE u = s
        BY <1>1, <1>2, <1>3, <1>4, <1>5, <3>1 DEF RegistryOK, Hub!HubTypeOK
      <3>2. CASE u # s
        BY <1>1, <1>2, <1>5, <3>2 DEF RegistryOK, Hub!ClosedOnce
      <3> QED BY <3>1, <3>2
    <2>2. \A j \in Instances : \A u \in subs'[j] : hubOf'[u] = j
      BY <1>1, <1>2, <1>3, <1>5 DEF RegistryOK
    <2>3. subs' \in [Instances -> SUBSET Streams] /\ closes' \in [Streams -> Nat]
      BY <1>1, <1>5 DEF RegistryOK
    <2> QED BY <2>1, <2>2, <2>3, <1>1, <1>2, HubsParts DEF RegistryOK, Hub!ClosedOnce, Hub!HubTypeOK
  <1>6. CASE subs' = [subs EXCEPT ![i] = @ \cup {s}] /\ UNCHANGED closes
    <2>1. ASSUME NEW u \in Streams
          PROVE  closes'[u] = IF hubOf'[u] = None \/ u \in subs'[hubOf'[u]] THEN 0 ELSE 1
      <3>1. CASE u = s
        BY <1>1, <1>2, <1>4, <1>6, <3>1 DEF RegistryOK, Hub!HubTypeOK
      <3>2. CASE u # s
        <4>1. hubOf'[u] = hubOf[u] /\ (hubOf[u] # None => hubOf[u] \in Instances)
          BY <1>1, <1>2, <3>2 DEF Hub!HubTypeOK
        <4>2. \A j \in Instances : u \in subs'[j] <=> u \in subs[j]
          BY <1>1, <1>6, <3>2 DEF RegistryOK
        <4> QED BY <1>1, <1>6, <4>1, <4>2 DEF RegistryOK, Hub!ClosedOnce
      <3> QED BY <3>1, <3>2
    <2>2. \A j \in Instances : \A u \in subs'[j] : hubOf'[u] = j
      BY <1>1, <1>2, <1>3, <1>6 DEF RegistryOK, Hub!HubTypeOK
    <2>3. subs' \in [Instances -> SUBSET Streams] /\ closes' \in [Streams -> Nat]
      BY <1>1, <1>6 DEF RegistryOK
    <2> QED BY <2>1, <2>2, <2>3, <1>1, <1>2, HubsParts DEF RegistryOK, Hub!ClosedOnce, Hub!HubTypeOK
  <1> QED BY <1>5, <1>6 DEF Hub!Subscribe

LEMMA ReceiveStep ==
  ASSUME HubsOK, NEW s \in Streams, Hub!Receive(s)
  PROVE  /\ HubsOK'
         /\ Head(queue[s]) \in Event
         /\ \A u \in Streams : queue'[u] = IF u = s THEN Tail(queue[s]) ELSE queue[u]
  <1>1. /\ queue \in [Streams -> Seq(Event)] /\ queue[s] # <<>>
        /\ queue' = [queue EXCEPT ![s] = Tail(queue[s])]
        /\ \A u \in Streams : Len(queue[u]) <= Buffer
    BY HubTypes DEF Hub!Receive
  <1>2. /\ Head(queue[s]) \in Event /\ Tail(queue[s]) \in Seq(Event)
        /\ Len(Tail(queue[s])) = Len(queue[s]) - 1 /\ Len(queue[s]) \in Nat
    BY <1>1
  <1>3. /\ queue' \in [Streams -> Seq(Event)]
        /\ \A u \in Streams : queue'[u] = IF u = s THEN Tail(queue[s]) ELSE queue[u]
    BY <1>1, <1>2
  <1>4. \A u \in Streams : Len(queue'[u]) <= Buffer
    BY <1>1, <1>2, <1>3, HubsAssumption
  <1>5. RegistryOK'
    BY RegistryKept DEF Hub!Receive
  <1> QED BY <1>2, <1>3, <1>4, <1>5, HubsParts DEF HubsOK, RegistryOK, Hub!HubTypeOK, Hub!Receive

LEMMA StopReadingStep ==
  ASSUME HubsOK, NEW s \in Streams, hubOf[s] \in Instances, Hub!StopReading(s)
  PROVE  /\ HubsOK' /\ closes'[s] # 0
         /\ \A u \in Streams : /\ closes[u] # 0 => closes'[u] # 0
                               /\ reading'[u] => reading[u]
  <1>1. Hub!RemoveLocked(hubOf[s], {s}) /\ reading' = [reading EXCEPT ![s] = FALSE] /\ UNCHANGED hubOf
    BY DEF Hub!StopReading
  <1>2. /\ RegistryOK'
        /\ \A u \in Streams : closes[u] # 0 => closes'[u] # 0
        /\ \A u \in {s} : closes'[u] # 0
    BY <1>1, Unregisters
  <1>3. reading \in [Streams -> BOOLEAN]
    BY HubTypes
  <1>4. reading' \in [Streams -> BOOLEAN] /\ \A u \in Streams : reading'[u] => reading[u]
    BY <1>1, <1>3
  <1>5. Hub!HubTypeOK'
    BY <1>2, <1>4 DEF HubsOK, RegistryOK, Hub!HubTypeOK, Hub!StopReading
  <1> QED BY <1>2, <1>4, <1>5, HubsParts

\* What is submitted is published to the guild it names.
LEMMA SubmitStep ==
  ASSUME HubsOK, NEW r \in Requests, NEW i \in Instances, NEW g \in Guild, NEW e \in Event,
         Hub!Submit(r, i, g, e),
         UNCHANGED <<closed, subs, hubOf, topicOf, queue, closes, reading, relay, inbox, inhand, closer>>
  PROVE  /\ HubsOK'
         /\ DOMAIN pending' = DOMAIN pending \cup {r}
         /\ \A q \in DOMAIN pending \ {r} : pending'[q] = pending[q]
         /\ pending'[r].topic = g /\ pending'[r].event = e /\ pending'[r].hub = i
         /\ pending'[r].via = "redis" => WithRedis
  <1> DEFINE p == [hub |-> i, topic |-> g, event |-> e, via |-> IF WithRedis THEN "redis" ELSE "local"]
  <1>1. pending' = [q \in DOMAIN pending \cup {r} |-> IF q = r THEN p ELSE pending[q]]
    BY DEF Hub!Submit
  <1>2. p \in Hub!Publication /\ p.topic = g /\ p.event = e /\ p.hub = i /\ (p.via = "redis" => WithRedis)
    BY DEF Hub!Publication
  <1> HIDE DEF p
  <1>3. /\ DOMAIN pending' = DOMAIN pending \cup {r} /\ pending'[r] = p
        /\ \A q \in DOMAIN pending \ {r} : pending'[q] = pending[q]
    BY <1>1
  <1>4. DOMAIN pending \subseteq Requests /\ \A q \in DOMAIN pending : pending[q] \in Hub!Publication
    BY HubTypes
  <1>5. DOMAIN pending' \subseteq Requests /\ \A q \in DOMAIN pending' : pending'[q] \in Hub!Publication
    BY <1>2, <1>3, <1>4
  <1>6. RegistryOK'
    BY RegistryKept
  <1> QED BY <1>2, <1>3, <1>5, <1>6, HubsParts DEF HubsOK, Hub!HubTypeOK

\* A publication that is done, or is tried again at home.
LEMMA PendingLess ==
  ASSUME HubsOK, NEW r \in DOMAIN pending,
         Hub!Done(r) \/ pending' = [pending EXCEPT ![r].via = "local"]
  PROVE  /\ DOMAIN pending' \subseteq DOMAIN pending
         /\ \A q \in DOMAIN pending' :
              /\ pending'[q] \in Hub!Publication
              /\ pending'[q].hub = pending[q].hub
              /\ pending'[q].topic = pending[q].topic
              /\ pending'[q].event = pending[q].event
              /\ pending'[q].via = "redis" => pending[q].via = "redis"
  <1>1. \A q \in DOMAIN pending : pending[q] \in Hub!Publication
    BY HubTypes
  <1>2. CASE Hub!Done(r)
    BY <1>1, <1>2 DEF Hub!Done
  <1>3. CASE pending' = [pending EXCEPT ![r].via = "local"]
    <2>1. DOMAIN pending' = DOMAIN pending
      BY <1>3
    <2>2. ASSUME NEW q \in DOMAIN pending
          PROVE  pending'[q] = IF q = r THEN [pending[q] EXCEPT !.via = "local"] ELSE pending[q]
      BY <1>3
    <2> QED BY <1>1, <2>1, <2>2 DEF Hub!Publication
  <1> QED BY <1>2, <1>3

LEMMA BroadcastTypes ==
  ASSUME HubsOK, NEW g \in Guild, NEW e \in Event, Hub!Broadcast(<<g, e>>)
  PROVE  inbox' \in [Instances -> Seq(Guild \X Event)]
  <1>1. inbox \in [Instances -> Seq(Guild \X Event)]
    BY HubTypes
  <1>2. \A i \in Instances : Append(inbox[i], <<g, e>>) \in Seq(Guild \X Event)
    BY <1>1
  <1> QED BY <1>1, <1>2 DEF Hub!Broadcast

\* What a hub does on its own: it opens no channel, takes nothing out of one,
\* and no publication begins.
HubMoves ==
  /\ UNCHANGED <<hubOf, topicOf, reading>>
  /\ \A s \in Streams : closes[s] # 0 => closes'[s] # 0
  /\ \A s \in Streams : \A n \in DOMAIN queue[s] :
       n \in DOMAIN queue'[s] /\ queue'[s][n] = queue[s][n]
  /\ DOMAIN pending' \subseteq DOMAIN pending
  /\ \A r \in DOMAIN pending' :
       /\ pending'[r].topic = pending[r].topic
       /\ pending'[r].event = pending[r].event
       /\ pending'[r].via = "redis" => pending[r].via = "redis"

LEMMA QueuesGrow ==
  ASSUME HubsOK, NEW e \in Event,
         \A s \in Streams : queue'[s] = queue[s] \/ queue'[s] = Append(queue[s], e)
  PROVE  \A s \in Streams : \A n \in DOMAIN queue[s] :
           n \in DOMAIN queue'[s] /\ queue'[s][n] = queue[s][n]
  <1> SUFFICES ASSUME NEW s \in Streams, NEW n \in DOMAIN queue[s]
               PROVE  n \in DOMAIN queue'[s] /\ queue'[s][n] = queue[s][n]
    OBVIOUS
  <1>1. queue[s] \in Seq(Event)
    BY HubTypes
  <1>2. n \in 1..Len(queue[s]) /\ Len(queue[s]) \in Nat
    BY <1>1
  <1>3. n \in DOMAIN Append(queue[s], e) /\ Append(queue[s], e)[n] = queue[s][n]
    BY <1>1, <1>2
  <1> QED BY <1>3

LEMMA PublishStep ==
  ASSUME HubsOK, NEW r \in Requests, Hub!PublishStep(r)
  PROVE  HubsOK' /\ HubMoves
  <1>1. r \in DOMAIN pending
    BY DEF Hub!PublishStep, Hub!PublishToRedis, Hub!PublishRejected, Hub!PublishLocally
  <1>2. /\ pending[r] \in Hub!Publication /\ pending[r].hub \in Instances
        /\ pending[r].topic \in Guild /\ pending[r].event \in Event
    BY <1>1, HubTypes
  <1>3. Hub!Done(r) \/ pending' = [pending EXCEPT ![r].via = "local"]
    BY DEF Hub!PublishStep, Hub!PublishToRedis, Hub!PublishRejected, Hub!PublishLocally
  <1>4. /\ DOMAIN pending' \subseteq DOMAIN pending
        /\ \A q \in DOMAIN pending' :
             /\ pending'[q] \in Hub!Publication
             /\ pending'[q].topic = pending[q].topic
             /\ pending'[q].event = pending[q].event
             /\ pending'[q].via = "redis" => pending[q].via = "redis"
    BY <1>1, <1>3, PendingLess
  <1>5. DOMAIN pending' \subseteq Requests
    BY <1>4, HubTypes
  <1>6. CASE Hub!PublishToRedis(r) \/ Hub!PublishRejected(r)
    <2>1. /\ UNCHANGED <<closed, subs, hubOf, topicOf, queue, closes, reading, relay, inhand, closer>>
          /\ UNCHANGED inbox \/ Hub!Broadcast(<<pending[r].topic, pending[r].event>>)
      BY <1>6 DEF Hub!PublishToRedis, Hub!PublishRejected
    <2>2. inbox' \in [Instances -> Seq(Guild \X Event)]
      BY <1>2, <2>1, BroadcastTypes, HubTypes
    <2>3. RegistryOK'
      BY <2>1, RegistryKept
    <2>4. HubsOK'
      BY <1>4, <1>5, <2>1, <2>2, <2>3, HubsParts DEF HubsOK, Hub!HubTypeOK, Hub!Message
    <2> QED BY <1>4, <2>1, <2>4 DEF HubMoves
  <1>7. CASE Hub!PublishLocally(r)
    <2>1. /\ Hub!Deliver(pending[r].hub, pending[r].topic, pending[r].event)
          /\ UNCHANGED <<closed, hubOf, topicOf, reading, relay, inbox, inhand, closer>>
      BY <1>7 DEF Hub!PublishLocally
    <2>2. /\ RegistryOK'
          /\ queue' \in [Streams -> Seq(Event)]
          /\ \A s \in Streams :
               /\ Len(queue'[s]) <= Buffer
               /\ closes[s] # 0 => closes'[s] # 0
               /\ queue'[s] = queue[s] \/ queue'[s] = Append(queue[s], pending[r].event)
      BY <1>2, <2>1, Delivers
    <2>3. HubsOK'
      BY <1>4, <1>5, <2>1, <2>2, HubsParts DEF HubsOK, RegistryOK, Hub!HubTypeOK, Hub!Message
    <2>4. \A s \in Streams : \A n \in DOMAIN queue[s] :
            n \in DOMAIN queue'[s] /\ queue'[s][n] = queue[s][n]
      BY <1>2, <2>2, QueuesGrow
    <2> QED BY <1>4, <2>1, <2>2, <2>3, <2>4 DEF HubMoves
  <1> QED BY <1>6, <1>7 DEF Hub!PublishStep

LEMMA RelayStep ==
  ASSUME HubsOK, NEW i \in Instances, Hub!RelayStep(i) \/ Hub!RelayLoses(i)
  PROVE  HubsOK' /\ HubMoves
  <1>1. /\ inbox \in [Instances -> Seq(Guild \X Event)] /\ inhand \in [Instances -> Seq(Guild \X Event)]
        /\ HubsOK /\ Hub!HubTypeOK
    BY HubTypes DEF HubsOK
  <1>2. CASE Hub!RelayReceive(i)
    <2>1. Head(inbox[i]) \in Guild \X Event /\ Tail(inbox[i]) \in Seq(Guild \X Event)
      BY <1>1, <1>2 DEF Hub!RelayReceive
    <2>2. <<Head(inbox[i])>> \in Seq(Guild \X Event)
      BY <2>1
    <2>3. inbox' \in [Instances -> Seq(Guild \X Event)] /\ inhand' \in [Instances -> Seq(Guild \X Event)]
      BY <1>1, <1>2, <2>1, <2>2 DEF Hub!RelayReceive
    <2>4. UNCHANGED <<closed, subs, hubOf, topicOf, queue, closes, reading, relay, closer, pending>>
      BY <1>2 DEF Hub!RelayReceive
    <2>5. RegistryOK'
      BY <2>4, RegistryKept
    <2> QED BY <1>1, <2>3, <2>4, <2>5, HubsParts DEF Hub!HubTypeOK, Hub!Message, HubMoves
  <1>3. CASE Hub!RelayDeliver(i)
    <2> DEFINE g == Head(inhand[i])[1]
               e == Head(inhand[i])[2]
    <2>1. /\ Hub!Deliver(i, g, e)
          /\ inhand[i] # <<>> /\ inhand' = [inhand EXCEPT ![i] = <<>>]
          /\ UNCHANGED <<closed, hubOf, topicOf, reading, relay, inbox, closer, pending>>
      BY <1>3 DEF Hub!RelayDeliver
    <2>2. g \in Guild /\ e \in Event
      <3>1. Head(inhand[i]) \in Guild \X Event
        BY <1>1, <2>1
      <3> QED BY <3>1
    <2> HIDE DEF g, e
    <2>3. /\ RegistryOK'
          /\ queue' \in [Streams -> Seq(Event)]
          /\ \A s \in Streams :
               /\ Len(queue'[s]) <= Buffer
               /\ closes[s] # 0 => closes'[s] # 0
               /\ queue'[s] = queue[s] \/ queue'[s] = Append(queue[s], e)
      BY <2>1, <2>2, Delivers
    <2>4. inhand' \in [Instances -> Seq(Guild \X Event)]
      BY <1>1, <2>1
    <2>5. HubsOK'
      BY <1>1, <2>1, <2>3, <2>4, HubsParts DEF RegistryOK, Hub!HubTypeOK, Hub!Message
    <2>6. \A s \in Streams : \A n \in DOMAIN queue[s] :
            n \in DOMAIN queue'[s] /\ queue'[s][n] = queue[s][n]
      BY <2>2, <2>3, QueuesGrow
    <2> QED BY <2>1, <2>3, <2>5, <2>6 DEF HubMoves
  <1>4. CASE Hub!RelayExit(i) \/ Hub!RelayLoses(i)
    <2>1. /\ UNCHANGED <<closed, subs, hubOf, topicOf, queue, closes, reading, inhand, closer, pending>>
          /\ inbox' = [inbox EXCEPT ![i] = <<>>]
          /\ UNCHANGED relay \/ relay' = [relay EXCEPT ![i] = "done"]
      BY <1>4 DEF Hub!RelayExit, Hub!RelayLoses
    <2>2. /\ inbox' \in [Instances -> Seq(Guild \X Event)]
          /\ relay' \in [Instances -> {"running", "canceled", "done"}]
      <3>1. inbox' \in [Instances -> Seq(Guild \X Event)]
        <4>1. <<>> \in Seq(Guild \X Event)
          OBVIOUS
        <4> QED BY <1>1, <2>1, <4>1
      <3>2. relay \in [Instances -> {"running", "canceled", "done"}]
        BY <1>1 DEF Hub!HubTypeOK
      <3>3. relay' \in [Instances -> {"running", "canceled", "done"}]
        BY <2>1, <3>2
      <3> QED BY <3>1, <3>3
    <2>3. RegistryOK'
      BY <2>1, RegistryKept
    <2> QED BY <1>1, <2>1, <2>2, <2>3, HubsParts DEF Hub!HubTypeOK, Hub!Message, HubMoves
  <1> QED BY <1>2, <1>3, <1>4 DEF Hub!RelayStep

LEMMA HubStepMoves ==
  ASSUME HubsOK, HubStep
  PROVE  HubsOK' /\ HubMoves /\ UNCHANGED <<guildVars, messageVars, streamVars>>
  BY PublishStep, RelayStep DEF HubStep

-----------------------------------------------------------------------------
(* The requests.                                                           *)

\* What a step of request r leaves to everybody else: channels stay in their
\* guilds and no message comes back.
Lasting ==
  /\ \A c, g : Belongs(c, g) => Belongs(c, g)'
  /\ \A m : Settled(m) =>
       /\ Settled(m)'
       /\ m \in DOMAIN messages' =>
            m \in DOMAIN messages /\ messages'[m].channel = messages[m].channel

LEMMA Lasts ==
  ASSUME NEW r, DOMAIN call \subseteq Requests, OthersStay(r), RowsStay(r), DrawsAnew(r),
         \A c, g : Belongs(c, g) => Belongs(c, g)'
  PROVE  Lasting
  <1>1. ASSUME NEW m, Settled(m)
        PROVE  /\ Settled(m)'
               /\ m \in DOMAIN messages' =>
                    m \in DOMAIN messages /\ messages'[m].channel = messages[m].channel
    <2>1. Settled(m)'
      BY <1>1 DEF Settled, OthersStay, DrawsAnew, Inserting
    <2>2. r \in DOMAIN call /\ Inserting(r) => m # call[r].message
      BY <1>1 DEF Settled
    <2> QED BY <2>1, <2>2 DEF RowsStay
  <1> QED BY <1>1 DEF Lasting

\* The message of every row that was there is told, or can still be told, or
\* its request failed; and so is that of every new row.
Announced ==
  \A m \in DOMAIN messages' :
    \/ m \in unannounced'
    \/ StillToCome(m)'
    \/ m \in DOMAIN messages /\ messages'[m].channel = messages[m].channel /\ ~StillToCome(m)

AnnouncesOK == \A r \in DOMAIN call : AnnounceOK(r)
EventsOK    == \A r \in DOMAIN pending : EventOK(r)

\* The other requests and what is already being published are not disturbed.
LEMMA OthersAnnounce ==
  ASSUME AnnouncesOK, EventsOK, DOMAIN call \subseteq Requests, NEW r,
         OthersStay(r), Lasting,
         DOMAIN pending' \ {r} \subseteq DOMAIN pending,
         \A q \in DOMAIN pending' :
           \/ EventOK(q)'
           \/ /\ q \in DOMAIN pending
              /\ pending'[q].topic = pending[q].topic
              /\ pending'[q].event = pending[q].event
              /\ pending'[q].via = "redis" => pending[q].via = "redis",
         r \in DOMAIN call' => AnnounceOK(r)'
  PROVE  AnnouncesOK' /\ EventsOK'
  <1>1. ASSUME NEW q \in DOMAIN call', q # r
        PROVE  AnnounceOK(q)'
    <2>1. q \in DOMAIN call /\ call'[q] = call[q] /\ pc'[q] = pc[q]
      BY <1>1 DEF OthersStay
    <2>2. AnnounceOK(q) /\ (q \in DOMAIN pending' => q \in DOMAIN pending)
      BY <1>1, <2>1 DEF AnnouncesOK
    <2>3. PICK c, g, m : c = call[q].channel /\ g = call[q].guild /\ m = call[q].message
      OBVIOUS
    <2>4. Belongs(c, g) => Belongs(c, g)'
      BY DEF Lasting
    <2>5. Settled(m) =>
            /\ Settled(m)'
            /\ m \in DOMAIN messages' => m \in DOMAIN messages /\ messages'[m].channel = messages[m].channel
      BY DEF Lasting
    <2> QED BY <2>1, <2>2, <2>3, <2>4, <2>5 DEF AnnounceOK, Inserting
  <1>2. ASSUME NEW q \in DOMAIN pending', ~EventOK(q)'
        PROVE  EventOK(q)'
    <2>1. /\ q \in DOMAIN pending /\ EventOK(q)
          /\ pending'[q].topic = pending[q].topic /\ pending'[q].event = pending[q].event
          /\ pending'[q].via = "redis" => pending[q].via = "redis"
      BY <1>2 DEF EventsOK
    <2>2. PICK m, g : m = pending[q].event.message /\ g = pending[q].topic
      OBVIOUS
    <2>3. Settled(m) =>
            /\ Settled(m)'
            /\ m \in DOMAIN messages' => m \in DOMAIN messages /\ messages'[m].channel = messages[m].channel
      BY DEF Lasting
    <2>4. \A c : Belongs(c, g) => Belongs(c, g)'
      BY DEF Lasting
    <2> QED BY <2>1, <2>2, <2>3, <2>4 DEF EventOK
  <1> QED BY <1>1, <1>2 DEF AnnouncesOK, EventsOK

\* Channels keep their ids and their guilds.
ChannelsStay ==
  /\ usedIds \subseteq usedIds'
  /\ \A c \in DOMAIN channels' \cap usedIds :
       c \in DOMAIN channels /\ channels'[c].guild = channels[c].guild

\* What a request leaves to the streams.
Told ==
  /\ HubsOK' /\ AnnouncesOK' /\ EventsOK'
  /\ Lasting /\ Announced
  /\ unannounced \subseteq unannounced'
  /\ UNCHANGED <<subs, hubOf, topicOf, queue, closes, reading>>

\* What r does not tell is not its message, or no longer has to be told.
Owes(r) ==
  \A m \in DOMAIN messages' :
    r \in DOMAIN call /\ call[r].message = m /\ (call[r].op = "send" \/ Inserting(r))
      => m \in unannounced' \/ StillToCome(m)'

LEMMA Announces ==
  ASSUME NEW r, OthersStay(r), RowsStay(r), Owes(r),
         \A q \in DOMAIN pending : q \in DOMAIN pending' /\ pending'[q] = pending[q]
  PROVE  Announced
  <1> SUFFICES ASSUME NEW m \in DOMAIN messages', m \notin unannounced', ~StillToCome(m)'
               PROVE  /\ m \in DOMAIN messages /\ messages'[m].channel = messages[m].channel
                      /\ ~StillToCome(m)
    BY DEF Announced
  <1>1. ~(r \in DOMAIN call /\ call[r].message = m /\ (call[r].op = "send" \/ Inserting(r)))
    BY DEF Owes
  <1>2. m \in DOMAIN messages /\ messages'[m].channel = messages[m].channel
    BY <1>1 DEF RowsStay
  <1>3. \A q \in DOMAIN call : call[q].op = "send" => call[q].message # m
    BY <1>1 DEF StillToCome, OthersStay
  <1>4. \A q \in DOMAIN pending : m \notin Created(pending[q].event)
    BY DEF StillToCome, Created
  <1> QED BY <1>2, <1>3, <1>4 DEF StillToCome

LEMMA QuietStep ==
  ASSUME IInv, HubsOK, AnnouncesOK, EventsOK, NEW r \in Requests,
         OthersStay(r), RowsStay(r), DrawsAnew(r), ChannelsStay, Owes(r),
         unannounced \subseteq unannounced', UNCHANGED hubVars,
         r \in DOMAIN call' => AnnounceOK(r)'
  PROVE  Told
  <1>1. DOMAIN call \subseteq Requests
    BY Parts DEF RequestsTypeOK
  <1>2. Lasting
    <2>1. ASSUME NEW c, NEW g, Belongs(c, g)
          PROVE  Belongs(c, g)'
      BY <2>1 DEF Belongs, ChannelsStay
    <2> QED BY <1>1, <2>1, Lasts
  <1>3. AnnouncesOK' /\ EventsOK'
    BY <1>1, <1>2, OthersAnnounce DEF hubVars
  <1>4. Announced
    BY Announces DEF hubVars
  <1>5. HubsOK'
    BY DEF hubVars, HubsOK, Hub!HubTypeOK, Hub!ClosedOnce
  <1> QED BY <1>2, <1>3, <1>4, <1>5 DEF Told, hubVars

LEMMA PublishingStep ==
  ASSUME IInv, HubsOK, AnnouncesOK, EventsOK, NEW r \in Requests, r \in DOMAIN call, r \notin DOMAIN pending,
         RowsStay(r), ChannelsStay, Owes(r), UNCHANGED lastId,
         unannounced \subseteq unannounced',
         NEW i \in Instances, NEW kind, NEW c, NEW m, Publish(r, i, kind, c, m),
         [kind |-> kind, channel |-> c, message |-> m] \in Event,
         kind = "message.created" =>
           Settled(m) /\ (m \in DOMAIN messages => Belongs(messages[m].channel, call[r].guild))
  PROVE  Told
  <1> DEFINE e == [kind |-> kind, channel |-> c, message |-> m]
             g == call[r].guild
  <1>1. /\ DOMAIN call \subseteq Requests /\ g \in Guild
        /\ OthersStay(r) /\ r \notin DOMAIN call'
    BY Parts, Returns DEF RequestsTypeOK, Call, Publish
  <1>2. DrawsAnew(r)
    BY <1>1, Parts DEF DrawsAnew, RowsOK
  <1>3. Lasting
    <2>1. ASSUME NEW d, NEW h, Belongs(d, h)
          PROVE  Belongs(d, h)'
      BY <2>1 DEF Belongs, ChannelsStay
    <2> QED BY <1>1, <1>2, <2>1, Lasts
  <1>4. e.kind = kind /\ e.message = m
    OBVIOUS
  <1>5. /\ HubsOK'
        /\ DOMAIN pending' = DOMAIN pending \cup {r}
        /\ \A q \in DOMAIN pending \ {r} : pending'[q] = pending[q]
        /\ pending'[r].topic = g /\ pending'[r].event = e
        /\ pending'[r].via = "redis" => WithRedis
    <2>1. /\ e \in Event /\ Hub!Submit(r, i, g, e)
          /\ UNCHANGED <<closed, subs, hubOf, topicOf, queue, closes, reading, relay, inbox, inhand, closer>>
      BY DEF Publish
    <2> HIDE DEF e
    <2> QED BY <1>1, <2>1, SubmitStep
  <1> HIDE DEF e
  <1>6. EventOK(r)'
    <2>1. PICK h, d : h = g /\ d = messages'[m].channel
      OBVIOUS
    <2>2. kind = "message.created" => Settled(m)' /\ (m \in DOMAIN messages' => Belongs(d, h)')
      <3>1. SUFFICES ASSUME kind = "message.created"
                     PROVE  Settled(m)' /\ (m \in DOMAIN messages' => Belongs(d, h)')
        OBVIOUS
      <3>2. Settled(m)' /\ (m \in DOMAIN messages' => m \in DOMAIN messages /\ messages'[m].channel = messages[m].channel)
        BY <1>3, <3>1 DEF Lasting
      <3>3. m \in DOMAIN messages' => Belongs(d, h)
        BY <2>1, <3>1, <3>2
      <3>4. Belongs(d, h) => Belongs(d, h)'
        BY <1>3 DEF Lasting
      <3> QED BY <3>2, <3>3, <3>4
    <2> QED BY <1>4, <1>5, <2>1, <2>2 DEF EventOK
  <1>7. AnnouncesOK' /\ EventsOK'
    BY <1>1, <1>3, <1>5, <1>6, OthersAnnounce
  <1>8. Announced
    BY <1>1, <1>5, Announces
  <1> QED BY <1>3, <1>5, <1>7, <1>8 DEF Told, Publish

\* A request that ends, or goes on with the locals it has.
LEMMA Ends ==
  ASSUME IInv, NEW r \in Requests, Return(r), UNCHANGED lastId
  PROVE  OthersStay(r) /\ DrawsAnew(r) /\ r \notin DOMAIN call'
  <1>1. OthersStay(r) /\ r \notin DOMAIN call'
    BY Parts, Returns
  <1> QED BY <1>1, Parts DEF DrawsAnew, RowsOK

LEMMA GoesOn ==
  ASSUME IInv, NEW r \in DOMAIN call, UNCHANGED <<call, lastId>>, NEW label \in {"write", "reread"},
         Goto(r, label)
  PROVE  OthersStay(r) /\ DrawsAnew(r) /\ pc'[r] = label /\ ~Inserting(r)'
  <1>1. OthersStay(r) /\ pc'[r] = label
    BY Parts, Moves
  <1> QED BY <1>1, Parts DEF DrawsAnew, RowsOK, Inserting

\* What a request under way is known to be at.
LEMMA Underway ==
  ASSUME IInv, AnnouncesOK, NEW r \in Requests, pc[r] # "idle"
  PROVE  /\ r \in DOMAIN call /\ call[r] \in Call /\ CallOK(r) /\ StepFits(r) /\ AnnounceOK(r)
         /\ pc \in [Requests -> {"idle", "member", "replyTo", "author", "write", "insert", "reread"}]
  BY Parts, Active DEF CallsOK, CallOK, AnnouncesOK, RequestsTypeOK

\* The guild service tells the streams nothing.
LEMMA GuildServiceTold ==
  ASSUME IInv, HubsOK, AnnouncesOK, EventsOK, GuildRequest
  PROVE  Told
  <1>1. /\ UNCHANGED <<lastId, unannounced, hubVars>>
        /\ \A m \in DOMAIN messages' : m \in DOMAIN messages /\ messages'[m] = messages[m]
    BY DEF GuildRequest, Restrict
  <1>2. \A r : RowsStay(r)
    BY <1>1 DEF RowsStay
  <1>3. RequestsTypeOK /\ TablesOK /\ RowsOK
    BY Parts
  <1>4. ASSUME NEW r \in Requests, Return(r), pc[r] # "idle", call[r].op \in GuildOps, ~Inserting(r), ChannelsStay
        PROVE  Told
    <2>1. OthersStay(r) /\ DrawsAnew(r) /\ r \notin DOMAIN call'
      BY <1>1, <1>4, Ends
    <2>2. Owes(r)
      BY <1>4 DEF Owes, GuildOps
    <2> QED BY <1>1, <1>2, <1>4, <2>1, <2>2, QuietStep
  <1>5. ASSUME UNCHANGED <<channels, usedIds>>
        PROVE  ChannelsStay
    BY <1>5 DEF ChannelsStay
  <1>6. ASSUME NEW u \in Users, NEW g \in Guild, NEW public \in BOOLEAN, NEW c \in Channels,
               CreateGuild(u, g, public, c)
        PROVE  Told
    <2>1. PICK r : r \notin Requests
      BY NoSetContainsEverything
    <2>2. UNCHANGED <<pc, call>> /\ DOMAIN call \subseteq Requests
      BY <1>3, <1>6 DEF CreateGuild, RequestsTypeOK
    <2>3. OthersStay(r) /\ r \notin DOMAIN call /\ r \notin DOMAIN call'
      BY <2>1, <2>2 DEF OthersStay
    <2>4. /\ c \notin usedIds /\ usedIds \subseteq usedIds'
          /\ DOMAIN channels' = DOMAIN channels \cup {c}
          /\ \A d \in DOMAIN channels' \ {c} : channels'[d] = channels[d]
      BY <1>6 DEF CreateGuild, InsertGuild
    <2>5. ChannelsStay
      BY <2>4 DEF ChannelsStay
    <2>6. Lasting
      <3>1. DrawsAnew(r)
        BY <1>1, <1>3, <2>3 DEF DrawsAnew, RowsOK
      <3>2. ASSUME NEW d, NEW h, Belongs(d, h)
            PROVE  Belongs(d, h)'
        BY <2>5, <3>2 DEF Belongs, ChannelsStay
      <3> QED BY <1>2, <2>2, <2>3, <3>1, <3>2, Lasts
    <2>7. AnnouncesOK' /\ EventsOK'
      BY <1>1, <2>2, <2>3, <2>6, OthersAnnounce DEF hubVars
    <2>8. Announced
      BY <1>1, <1>2, <2>3, Announces DEF Owes, hubVars
    <2>9. HubsOK'
      BY <1>1 DEF hubVars, HubsOK, Hub!HubTypeOK, Hub!ClosedOnce
    <2> QED BY <1>1, <2>6, <2>7, <2>8, <2>9 DEF Told, hubVars
  <1>7. ASSUME NEW r \in Requests, NEW u \in Users, NEW op \in GuildOps, NEW g \in Guild,
               FindGuild(r, u, op, g)
        PROVE  Told
    <2> DEFINE c == [op |-> op, user |-> u, guild |-> g, role |-> None, channel |-> None,
                     message |-> None, replyTo |-> None]
               label == IF op = "deleteGuild" THEN "write" ELSE "member"
    <2>1. c \in Call /\ c.op = op
      BY DEF Call
    <2>2. OthersStay(r) /\ r \in DOMAIN call' /\ call'[r] = c /\ pc'[r] = label
      BY <1>3, <1>7, <2>1, Enters DEF FindGuild
    <2>3. DrawsAnew(r) /\ AnnounceOK(r)'
      BY <1>1, <1>3, <2>1, <2>2
      DEF DrawsAnew, RowsOK, AnnounceOK, Inserting, GuildOps, ChannelOps, MessageOps
    <2>4. r \notin DOMAIN call
      BY <1>3, <1>7 DEF FindGuild, RequestsTypeOK
    <2> QED BY <1>1, <1>2, <1>5, <1>7, <2>2, <2>3, <2>4, QuietStep DEF FindGuild, Owes
  <1>8. ASSUME NEW r \in Requests, FindMember(r)
        PROVE  Told
    <2>1. /\ r \in DOMAIN call /\ call[r] \in Call /\ ~Inserting(r)
          /\ call[r].op \in {"join", "leave", "updateGuild"} /\ pc[r] = "member"
      BY <1>8, Underway DEF FindMember, StepFits, Inserting
    <2>2. ChannelsStay /\ Owes(r)
      BY <1>5, <1>8, <2>1 DEF FindMember, Owes
    <2>3. CASE Return(r)
      BY <1>4, <2>1, <2>2, <2>3 DEF GuildOps
    <2>4. CASE ~Return(r)
      <3> DEFINE role == RoleOf(call[r].guild, call[r].user)
                 c == [call[r] EXCEPT !.role = role]
      <3>1. call' = [call EXCEPT ![r] = c] /\ Goto(r, "write")
        BY <1>8, <2>4 DEF FindMember
      <3>2. role \in Role \cup {None}
        BY <1>3 DEF RoleOf, TablesOK, TablesTypeOK
      <3>3. c \in Call /\ c.op = call[r].op
        BY <2>1, <3>2 DEF Call
      <3> HIDE DEF c
      <3>4. OthersStay(r) /\ r \in DOMAIN call' /\ call'[r] = c /\ pc'[r] = "write"
        BY <1>3, <2>1, <3>1, <3>3, Assigns
      <3>5. DrawsAnew(r) /\ AnnounceOK(r)'
        BY <1>1, <1>3, <2>1, <3>3, <3>4
        DEF DrawsAnew, RowsOK, AnnounceOK, Inserting, ChannelOps, MessageOps
      <3> QED BY <1>1, <1>2, <2>2, <3>4, <3>5, QuietStep
    <2> QED BY <2>3, <2>4
  <1>9. ASSUME NEW r \in Requests, JoinGuild(r) \/ LeaveGuild(r) \/ \E public \in BOOLEAN : UpdateGuild(r, public)
        PROVE  Told
    <2>1. /\ Return(r) /\ UNCHANGED <<channels, usedIds>>
          /\ pc[r] = "write" /\ call[r].op \in GuildOps
      BY <1>9 DEF JoinGuild, LeaveGuild, UpdateGuild, Writing, GuildOps
    <2> QED BY <1>4, <1>5, <2>1 DEF Inserting
  <1>10. ASSUME NEW r \in Requests, DeleteGuild(r)
         PROVE  Told
    <2>1. /\ Return(r) /\ UNCHANGED usedIds
          /\ pc[r] = "write" /\ call[r].op \in GuildOps
      BY <1>10 DEF DeleteGuild, Writing, GuildOps
    <2>2. \A c \in DOMAIN channels' : c \in DOMAIN channels /\ channels'[c] = channels[c]
      BY <1>10 DEF DeleteGuild, DeleteGuildRow, Restrict
    <2>3. ChannelsStay
      BY <2>1, <2>2 DEF ChannelsStay
    <2> QED BY <1>4, <2>1, <2>3 DEF Inserting
  <1>11. GuildNext
    BY DEF GuildRequest
  <1> QED BY <1>6, <1>7, <1>8, <1>9, <1>10, <1>11 DEF GuildNext, GuildStep

\* Steps of the channel service that publish nothing.
LEMMA ResolveAccessTold ==
  ASSUME IInv, HubsOK, AnnouncesOK, EventsOK, NEW r \in Requests, NEW u \in Users, NEW g \in Guild,
         NEW op \in ChannelOps \cup MessageOps, NEW c \in Channels \cup {None},
         NEW m \in Ids \cup {None}, NEW re \in Ids \cup {None}, op = "send" => m = None,
         ResolveAccess(r, u, op, g, c, m, re)
  PROVE  Told
  <1> DEFINE new == [op |-> op, user |-> u, guild |-> g, role |-> RoleOf(g, u),
                     channel |-> c, message |-> m, replyTo |-> re]
             label == AfterAccess(op, re)
  <1>1. RequestsTypeOK /\ TablesOK /\ RowsOK
    BY Parts
  <1>2. RoleOf(g, u) \in Role \cup {None}
    BY <1>1 DEF RoleOf, TablesOK, TablesTypeOK
  <1>3. new \in Call
    BY <1>2 DEF Call
  <1>4. label \in {"write", "replyTo", "author"}
    BY DEF AfterAccess, ChannelOps, MessageOps
  <1>5. Enter(r, new, label)
    BY DEF ResolveAccess
  <1>6. OthersStay(r) /\ r \in DOMAIN call' /\ call'[r] = new /\ pc'[r] = label
    BY <1>1, <1>3, <1>4, <1>5, Enters
  <1>7. new.op = op /\ new.channel = c /\ new.guild = g /\ new.message = m
    OBVIOUS
  <1> HIDE DEF new, label
  <1>8. /\ UNCHANGED <<guilds, members, channels, usedIds, messages, lastId, unannounced, hubVars>>
        /\ r \notin DOMAIN pending /\ r \notin DOMAIN call
        /\ op # "createChannel" => c \in DOMAIN channels /\ channels[c].guild = g
    BY <1>1 DEF ResolveAccess, messageVars, RequestsTypeOK, Allowed, Exists, ChannelsOf
  <1>9. op \in MessageOps => c \in usedIds /\ c \in DOMAIN channels /\ channels[c].guild = g
    BY <1>1, <1>8 DEF TablesOK, IdsOK, MessageOps
  <1>10. AnnounceOK(r)'
    BY <1>4, <1>6, <1>7, <1>8, <1>9 DEF AnnounceOK, Belongs, Inserting, hubVars
  <1>11. RowsStay(r) /\ ChannelsStay /\ DrawsAnew(r) /\ Owes(r)
    BY <1>1, <1>4, <1>6, <1>8 DEF RowsStay, ChannelsStay, DrawsAnew, Inserting, RowsOK, Owes
  <1> QED BY <1>6, <1>8, <1>10, <1>11, QuietStep

LEMMA MessageExistsTold ==
  ASSUME IInv, HubsOK, AnnouncesOK, EventsOK, NEW r \in Requests, MessageExists(r)
  PROVE  Told
  <1>1. /\ r \in DOMAIN call /\ pc[r] = "replyTo" /\ call[r].op = "send" /\ call[r].message = None
        /\ AnnounceOK(r)
    BY Underway DEF MessageExists, StepFits, AnnounceOK
  <1>2. UNCHANGED <<guilds, members, channels, usedIds, messages, lastId, unannounced, hubVars>>
    BY DEF MessageExists, messageVars
  <1>3. RowsStay(r) /\ ChannelsStay /\ \A m \in DOMAIN messages : m # None
    BY <1>2, Parts DEF RowsStay, ChannelsStay, RowsOK
  <1>4. Owes(r)
    BY <1>1, <1>2, <1>3 DEF Owes
  <1>5. CASE Return(r)
    BY <1>2, <1>3, <1>4, <1>5, Ends, QuietStep
  <1>6. CASE Goto(r, "write") /\ UNCHANGED call
    <2>1. OthersStay(r) /\ DrawsAnew(r) /\ pc'[r] = "write" /\ ~Inserting(r)'
      BY <1>1, <1>2, <1>6, GoesOn
    <2>2. AnnounceOK(r)'
      BY <1>1, <1>2, <1>6, <2>1 DEF AnnounceOK, Belongs, hubVars
    <2> QED BY <1>2, <1>3, <1>4, <2>1, <2>2, QuietStep
  <1> QED BY <1>5, <1>6 DEF MessageExists

LEMMA FindMessageAuthorTold ==
  ASSUME IInv, HubsOK, AnnouncesOK, EventsOK, NEW r \in Requests, FindMessageAuthor(r)
  PROVE  Told
  <1>1. /\ r \in DOMAIN call /\ pc[r] = "author" /\ call[r].op \in {"edit", "remove"}
        /\ AnnounceOK(r) /\ ~Inserting(r)
    BY Underway DEF FindMessageAuthor, StepFits, Inserting
  <1>2. UNCHANGED <<guilds, members, channels, usedIds, messages, lastId, unannounced, hubVars>>
    BY DEF FindMessageAuthor, messageVars
  <1>3. RowsStay(r) /\ ChannelsStay /\ Owes(r)
    BY <1>1, <1>2 DEF RowsStay, ChannelsStay, Owes
  <1>4. CASE Return(r)
    BY <1>2, <1>3, <1>4, Ends, QuietStep
  <1>5. CASE Goto(r, "write") /\ UNCHANGED call
    <2>1. OthersStay(r) /\ DrawsAnew(r) /\ pc'[r] = "write" /\ ~Inserting(r)'
      BY <1>1, <1>2, <1>5, GoesOn
    <2>2. AnnounceOK(r)'
      BY <1>1, <1>2, <1>5, <2>1 DEF AnnounceOK, Belongs, hubVars
    <2> QED BY <1>2, <1>3, <2>1, <2>2, QuietStep
  <1> QED BY <1>4, <1>5 DEF FindMessageAuthor

LEMMA UpdateChannelTold ==
  ASSUME IInv, HubsOK, AnnouncesOK, EventsOK, NEW r \in Requests, NEW n \in Names, UpdateChannel(r, n)
  PROVE  Told
  <1> DEFINE c == call[r].channel
  <1>1. /\ r \in DOMAIN call /\ pc[r] = "write" /\ call[r].op = "updateChannel"
        /\ AnnounceOK(r) /\ ~Inserting(r)
    BY Underway DEF UpdateChannel, Writing, Inserting
  <1>2. UNCHANGED <<guilds, members, usedIds, messages, lastId, unannounced, hubVars>>
    BY DEF UpdateChannel, messageVars
  <1>3. UNCHANGED channels \/ channels' = [channels EXCEPT ![c].name = n]
    BY DEF UpdateChannel
  <1>4. /\ DOMAIN channels' = DOMAIN channels
        /\ \A d \in DOMAIN channels : channels'[d].guild = channels[d].guild
    <2>1. CASE UNCHANGED channels
      BY <2>1
    <2>2. CASE channels' = [channels EXCEPT ![c].name = n]
      <3>1. \A d \in DOMAIN channels : channels[d] \in ChannelRow
        BY Parts DEF TablesOK, TablesTypeOK
      <3> QED BY <2>2, <3>1 DEF ChannelRow
    <2> QED BY <1>3, <2>1, <2>2
  <1>5. RowsStay(r) /\ ChannelsStay /\ Owes(r)
    BY <1>1, <1>2, <1>4 DEF RowsStay, ChannelsStay, Owes
  <1>6. CASE Return(r)
    BY <1>2, <1>5, <1>6, Ends, QuietStep
  <1>7. CASE Goto(r, "reread") /\ UNCHANGED call
    <2>1. OthersStay(r) /\ DrawsAnew(r) /\ pc'[r] = "reread" /\ ~Inserting(r)'
      BY <1>1, <1>2, <1>7, GoesOn
    <2>2. AnnounceOK(r)'
      BY <1>1, <1>2, <1>7, <2>1 DEF AnnounceOK, MessageOps, hubVars
    <2> QED BY <1>2, <1>5, <2>1, <2>2, QuietStep
  <1> QED BY <1>6, <1>7 DEF UpdateChannel

LEMMA DrawIdTold ==
  ASSUME IInv, HubsOK, AnnouncesOK, EventsOK, NEW r \in Requests, DrawId(r)
  PROVE  Told
  <1> DEFINE c == [call[r] EXCEPT !.message = lastId + 1]
  <1>1. RequestsTypeOK /\ RowsOK
    BY Parts
  <1>2. /\ r \in DOMAIN call /\ call[r] \in Call /\ pc[r] = "write" /\ call[r].op = "send"
        /\ AnnounceOK(r) /\ call[r].message = None
    BY Underway DEF DrawId, Writing, AnnounceOK
  <1>3. lastId \in 0..MaxId /\ lastId' = lastId + 1 /\ lastId + 1 \in Ids /\ lastId + 1 \notin 1..lastId
    BY <1>1 DEF DrawId, RowsOK, Ids
  <1>4. /\ c \in Call /\ c.message = lastId + 1
        /\ c.op = call[r].op /\ c.channel = call[r].channel /\ c.guild = call[r].guild
    BY <1>2, <1>3 DEF Call
  <1>5. call' = [call EXCEPT ![r] = c] /\ Goto(r, "insert")
    BY DEF DrawId
  <1>6. OthersStay(r) /\ r \in DOMAIN call' /\ call'[r] = c /\ pc'[r] = "insert"
    BY <1>1, <1>2, <1>4, <1>5, Assigns
  <1> HIDE DEF c
  <1>7. UNCHANGED <<guilds, members, channels, usedIds, messages, unannounced, hubVars>>
    BY DEF DrawId
  <1>8. DrawsAnew(r)
    BY <1>3, <1>4, <1>6 DEF DrawsAnew
  <1>9. AnnounceOK(r)'
    BY <1>2, <1>4, <1>6, <1>7 DEF AnnounceOK, Belongs, hubVars
  <1>10. RowsStay(r) /\ ChannelsStay /\ Owes(r)
    BY <1>1, <1>2, <1>7 DEF RowsStay, ChannelsStay, Owes, RowsOK
  <1> QED BY <1>6, <1>7, <1>8, <1>9, <1>10, QuietStep

\* The message of a row that appears is still to be told.
LEMMA CreateMessageTold ==
  ASSUME IInv, HubsOK, AnnouncesOK, EventsOK, NEW r \in Requests, CreateMessage(r)
  PROVE  Told
  <1>1. RequestsTypeOK /\ TablesOK /\ RowsOK /\ CallsOK
    BY Parts
  <1>2. r \in DOMAIN call /\ CallOK(r) /\ AnnounceOK(r) /\ Inserting(r) /\ call[r].op = "send"
    BY Underway DEF CreateMessage, Inserting, AnnounceOK
  <1>3. UNCHANGED <<guilds, members, channels, usedIds, lastId, unannounced, hubVars>>
    BY DEF CreateMessage
  <1>4. ChannelsStay
    BY <1>3 DEF ChannelsStay
  <1>5. /\ call[r].message \in (1..lastId) \ DOMAIN messages
        /\ \A q \in DOMAIN call \ {r} : Inserting(q) => call[q].message # call[r].message
    BY <1>2 DEF CallOK, DrawnOK
  <1>6. CASE Return(r) /\ UNCHANGED messages
    <2>1. RowsStay(r) /\ Owes(r)
      BY <1>5, <1>6 DEF RowsStay, Owes
    <2> QED BY <1>3, <1>4, <1>6, <2>1, Ends, QuietStep
  <1>7. CASE ~(Return(r) /\ UNCHANGED messages)
    <2>1. Goto(r, "reread") /\ UNCHANGED call
      BY <1>7 DEF CreateMessage
    <2>2. OthersStay(r) /\ DrawsAnew(r) /\ pc'[r] = "reread" /\ ~Inserting(r)'
      BY <1>2, <1>3, <2>1, GoesOn
    <2>3. RowsStay(r)
      BY <1>1, <1>2, <1>3, <1>7, RowsInsert DEF CreateMessage
    <2>4. Owes(r)
      BY <1>2, <2>1 DEF Owes, StillToCome
    <2>5. messages'[call[r].message].channel = call[r].channel
      BY <1>7 DEF CreateMessage
    <2>6. PICK m : m = call[r].message
      OBVIOUS
    <2>7. Settled(m)'
      <3>1. m \in 1..lastId' /\ DOMAIN call' \subseteq Requests
        BY <1>1, <1>3, <1>5, <2>1, <2>6 DEF RequestsTypeOK
      <3>2. ASSUME NEW q \in DOMAIN call', Inserting(q)'
            PROVE  call'[q].message # m
        <4>1. q # r
          BY <2>2, <3>2
        <4>2. Inserting(q)
          BY <2>1, <2>2, <3>1, <3>2, <4>1 DEF OthersStay, Inserting
        <4> QED BY <1>5, <2>1, <2>6, <4>1, <4>2
      <3> QED BY <3>1, <3>2 DEF Settled
    <2>8. AnnounceOK(r)'
      BY <1>2, <1>3, <2>1, <2>2, <2>5, <2>6, <2>7 DEF AnnounceOK, Belongs, hubVars
    <2> QED BY <1>3, <1>4, <2>2, <2>3, <2>4, <2>8, QuietStep
  <1> QED BY <1>6, <1>7

LEMMA EditMessageTold ==
  ASSUME IInv, HubsOK, AnnouncesOK, EventsOK, NEW r \in Requests, EditMessage(r)
  PROVE  Told
  <1>1. RequestsTypeOK /\ TablesOK /\ RowsOK /\ CallsOK
    BY Parts
  <1>2. r \in DOMAIN call /\ CallOK(r) /\ AnnounceOK(r) /\ Writing(r, "edit") /\ ~Inserting(r)
    BY Underway DEF EditMessage, Writing, Inserting
  <1>3. UNCHANGED <<guilds, members, channels, usedIds, lastId, unannounced, hubVars>>
    BY DEF EditMessage
  <1>4. ChannelsStay /\ Owes(r)
    BY <1>2, <1>3 DEF ChannelsStay, Owes, Writing
  <1>5. CASE Return(r) /\ UNCHANGED messages
    <2>1. RowsStay(r)
      BY <1>5 DEF RowsStay
    <2> QED BY <1>3, <1>4, <1>5, <2>1, Ends, QuietStep
  <1>6. CASE ~(Return(r) /\ UNCHANGED messages)
    <2>1. Goto(r, "reread") /\ UNCHANGED call
      BY <1>6 DEF EditMessage
    <2>2. OthersStay(r) /\ DrawsAnew(r) /\ pc'[r] = "reread" /\ ~Inserting(r)'
      BY <1>2, <1>3, <2>1, GoesOn
    <2>3. RowsStay(r)
      BY <1>1, <1>2, <1>3, <1>6, RowsEdit DEF EditMessage
    <2>4. AnnounceOK(r)'
      BY <1>2, <1>3, <2>1, <2>2 DEF AnnounceOK, Belongs, Writing, hubVars
    <2> QED BY <1>3, <1>4, <2>2, <2>3, <2>4, QuietStep
  <1> QED BY <1>5, <1>6

\* Steps of the channel service that may publish.
LEMMA ChannelWritesTold ==
  ASSUME IInv, HubsOK, AnnouncesOK, EventsOK, NEW r \in Requests, NEW i \in Instances,
         \/ \E c \in Channels, n \in Names : CreateChannel(r, i, c, n)
         \/ RereadChannel(r, i)
         \/ DeleteChannel(r, i)
  PROVE  Told
  <1>1. RequestsTypeOK /\ TablesOK
    BY Parts
  <1>2. /\ r \in DOMAIN call /\ pc[r] \in {"write", "reread"} /\ call[r].op \in ChannelOps
        /\ AnnounceOK(r) /\ ~Inserting(r)
    BY Underway DEF CreateChannel, RereadChannel, DeleteChannel, Writing, Inserting, ChannelOps
  <1>3. r \notin DOMAIN pending
    BY <1>2 DEF AnnounceOK
  <1>4. UNCHANGED <<lastId, unannounced>> /\ Owes(r)
    BY <1>2 DEF CreateChannel, RereadChannel, DeleteChannel, messageVars, Owes, ChannelOps
  <1>5. \A m \in DOMAIN messages' : /\ m \in DOMAIN messages
                                    /\ messages'[m].channel = messages[m].channel
                                    /\ messages'[m].author = messages[m].author
    <2>1. CASE DeleteChannel(r, i)
      <3>1. UNCHANGED messages \/ messages' = Forget(messages, MessagesOf(call[r].channel))
        BY <2>1 DEF DeleteChannel
      <3>2. \A m \in DOMAIN messages : messages[m] \in MessageRow
        BY Parts DEF RowsOK
      <3>3. CASE messages' = Forget(messages, MessagesOf(call[r].channel))
        BY <3>2, <3>3 DEF Forget, MessageRow
      <3> QED BY <3>1, <3>3
    <2>2. CASE ~DeleteChannel(r, i)
      BY <2>2 DEF CreateChannel, RereadChannel, messageVars
    <2> QED BY <2>1, <2>2
  <1>6. RowsStay(r)
    BY <1>5 DEF RowsStay
  <1>7. ChannelsStay
    <2>1. ASSUME NEW c \in Channels, NEW n \in Names, CreateChannel(r, i, c, n)
          PROVE  ChannelsStay
      BY <2>1 DEF CreateChannel, ChannelsStay
    <2>2. CASE RereadChannel(r, i)
      BY <2>2 DEF RereadChannel, ChannelsStay
    <2>3. CASE DeleteChannel(r, i)
      BY <2>3 DEF DeleteChannel, ChannelsStay, Restrict
    <2> QED BY <2>1, <2>2, <2>3
  <1>8. CASE Return(r) /\ UNCHANGED hubVars
    BY <1>4, <1>6, <1>7, <1>8, Ends, QuietStep
  <1>9. ASSUME NEW c \in Channels, NEW kind \in {"channel.created", "channel.updated", "channel.deleted"},
               Publish(r, i, kind, c, None)
        PROVE  Told
    <2>1. [kind |-> kind, channel |-> c, message |-> None] \in Event
      BY DEF Event
    <2> QED BY <1>2, <1>3, <1>4, <1>6, <1>7, <1>9, <2>1, PublishingStep
  <1>10. ASSUME NEW c \in Channels, NEW n \in Names, CreateChannel(r, i, c, n)
         PROVE  Told
    BY <1>8, <1>9, <1>10 DEF CreateChannel
  <1>11. DOMAIN channels \subseteq Channels
    BY <1>1 DEF TablesOK, TablesTypeOK
  <1>12. CASE RereadChannel(r, i)
    BY <1>8, <1>9, <1>11, <1>12 DEF RereadChannel
  <1>13. CASE DeleteChannel(r, i)
    BY <1>8, <1>9, <1>11, <1>13 DEF DeleteChannel
  <1> QED BY <1>10, <1>12, <1>13

LEMMA MessageWritesTold ==
  ASSUME IInv, HubsOK, AnnouncesOK, EventsOK, NEW r \in Requests, NEW i \in Instances,
         RereadMessage(r, i) \/ DeleteMessage(r, i)
  PROVE  Told
  <1> DEFINE m == call[r].message
             c == call[r].channel
  <1>1. RequestsTypeOK /\ TablesOK /\ RowsOK
    BY Parts
  <1>2. /\ r \in DOMAIN call /\ pc[r] \in {"write", "reread"} /\ call[r].op \in MessageOps
        /\ AnnounceOK(r) /\ ~Inserting(r)
    BY Underway DEF RereadMessage, DeleteMessage, Writing, Inserting, MessageOps
  <1>3. r \notin DOMAIN pending /\ c \in Channels
    BY <1>1, <1>2 DEF AnnounceOK, Belongs, RequestsTypeOK, Call, TablesOK, TablesTypeOK
  <1>4. UNCHANGED <<channels, usedIds, lastId>> /\ unannounced \subseteq unannounced'
    BY DEF RereadMessage, DeleteMessage
  <1>5. \A x \in DOMAIN messages' : /\ x \in DOMAIN messages
                                    /\ messages'[x].channel = messages[x].channel
                                    /\ messages'[x].author = messages[x].author
    <2>1. CASE DeleteMessage(r, i)
      <3>1. UNCHANGED messages \/ messages' = Forget(messages, {m})
        BY <2>1 DEF DeleteMessage
      <3>2. \A x \in DOMAIN messages : messages[x] \in MessageRow
        BY <1>1 DEF RowsOK
      <3>3. CASE messages' = Forget(messages, {m})
        BY <3>2, <3>3 DEF Forget, MessageRow
      <3> QED BY <3>1, <3>3
    <2>2. CASE RereadMessage(r, i)
      BY <2>2 DEF RereadMessage
    <2> QED BY <2>1, <2>2
  <1>6. RowsStay(r) /\ ChannelsStay
    BY <1>4, <1>5 DEF RowsStay, ChannelsStay
  <1>7. ASSUME NEW kind \in {"message.created", "message.updated", "message.deleted"},
               m \in DOMAIN messages, Publish(r, i, kind, c, m), Owes(r),
               kind = "message.created" => call[r].op = "send" /\ pc[r] = "reread"
        PROVE  Told
    <2>1. [kind |-> kind, channel |-> c, message |-> m] \in Event
      BY <1>1, <1>3, <1>7 DEF Event, RowsOK, Ids
    <2>2. kind = "message.created" =>
            Settled(m) /\ (m \in DOMAIN messages => Belongs(messages[m].channel, call[r].guild))
      BY <1>2, <1>7 DEF AnnounceOK, Belongs
    <2> QED BY <1>2, <1>3, <1>4, <1>6, <1>7, <2>1, <2>2, PublishingStep
  <1>8. CASE DeleteMessage(r, i)
    <2>1. call[r].op = "remove"
      BY <1>8 DEF DeleteMessage, Writing
    <2>2. Owes(r)
      BY <1>2, <2>1 DEF Owes
    <2>3. CASE Return(r) /\ UNCHANGED hubVars
      BY <1>4, <1>6, <2>2, <2>3, Ends, QuietStep
    <2> QED BY <1>7, <1>8, <2>2, <2>3 DEF DeleteMessage
  <1>9. CASE RereadMessage(r, i)
    <2> DEFINE kind == IF call[r].op = "send" THEN "message.created" ELSE "message.updated"
    <2>1. pc[r] = "reread" /\ call[r].op \in {"send", "edit"}
      BY <1>9 DEF RereadMessage
    <2>2. CASE m \in DOMAIN messages /\ Publish(r, i, kind, c, m)
      <3>1. ASSUME call[r].op = "send", NEW x, x = m
            PROVE  StillToCome(x)'
        <4>1. DOMAIN pending' = DOMAIN pending \cup {r}
          BY <2>2 DEF Publish, Hub!Submit
        <4>2. pending'[r].event = [kind |-> "message.created", channel |-> c, message |-> x]
          BY <2>2, <3>1 DEF Publish, Hub!Submit
        <4>3. x \in Created(pending'[r].event)
          BY <4>2 DEF Created
        <4> QED BY <4>1, <4>3 DEF StillToCome, Created
      <3>2. Owes(r)
        <4>1. ASSUME NEW x \in DOMAIN messages', call[r].message = x,
                     call[r].op = "send" \/ Inserting(r)
              PROVE  StillToCome(x)'
          BY <1>2, <3>1, <4>1
        <4> QED BY <4>1 DEF Owes
      <3> QED BY <1>7, <2>1, <2>2, <3>2
    <2>3. CASE /\ Return(r) /\ UNCHANGED hubVars
               /\ unannounced' = IF call[r].op = "send" THEN unannounced \cup {m} ELSE unannounced
      <3>1. Owes(r)
        BY <1>2, <2>3 DEF Owes
      <3> QED BY <1>4, <1>6, <2>3, <3>1, Ends, QuietStep
    <2> QED BY <1>9, <2>2, <2>3 DEF RereadMessage
  <1> QED BY <1>8, <1>9

LEMMA ChannelRequestTold ==
  ASSUME IInv, HubsOK, AnnouncesOK, EventsOK, NEW r \in Requests, ChannelRequest(r)
  PROVE  Told
  <1>1. /\ {"createChannel", "updateChannel", "deleteChannel"} = ChannelOps
        /\ {"send", "edit", "remove"} = MessageOps
    BY DEF ChannelOps, MessageOps
  <1>2. ASSUME NEW u \in Users, NEW g \in Guild, NEW op \in ChannelOps \cup MessageOps,
               NEW c \in Channels \cup {None}, NEW m \in Ids \cup {None}, NEW re \in Ids \cup {None},
               op = "send" => m = None, ResolveAccess(r, u, op, g, c, m, re)
        PROVE  Told
    BY <1>2, ResolveAccessTold
  <1>3. ASSUME NEW u \in Users, NEW g \in Guild,
               \/ ResolveAccess(r, u, "createChannel", g, None, None, None)
               \/ \E c \in Channels :
                    \/ \E op \in {"updateChannel", "deleteChannel"} :
                         ResolveAccess(r, u, op, g, c, None, None)
                    \/ \E re \in Ids \cup {None} : ResolveAccess(r, u, "send", g, c, None, re)
                    \/ \E op \in {"edit", "remove"}, m \in Ids :
                         ResolveAccess(r, u, op, g, c, m, None)
        PROVE  Told
    BY <1>1, <1>2, <1>3
  <1> QED
    BY <1>3, MessageExistsTold, FindMessageAuthorTold, UpdateChannelTold, DrawIdTold,
       CreateMessageTold, EditMessageTold, ChannelWritesTold, MessageWritesTold
    DEF ChannelRequest

-----------------------------------------------------------------------------
(* The streams.                                                            *)

\* The types of what a stream knows.
StreamsTypeOK ==
  /\ viewer \in [Streams -> Users \cup {None}]
  /\ admitted \in [Streams -> Guild \cup {None}]
  /\ channel \in [Streams -> Channels \cup {None}]
  /\ asking \in [Streams -> BOOLEAN]
  /\ cursor \in [Streams -> 0..MaxId]
  /\ walked \in [Streams -> BOOLEAN]
  /\ fetched \in [Streams -> SUBSET Ids]
  /\ heard \in [Streams -> SUBSET Ids]
  /\ rows \in [Streams -> Nat]

StreamsOK == \A s \in Streams : StreamOK(s)

LEMMA FeedParts ==
  /\ FeedInv => StreamsTypeOK /\ HubsOK /\ AnnouncesOK /\ EventsOK /\ StreamsOK
  /\ IInv' /\ StreamsTypeOK' /\ HubsOK' /\ AnnouncesOK' /\ EventsOK' /\ StreamsOK' => FeedInv'
  BY DEF FeedInv, TypeOK, IInv, StreamsTypeOK, HubsOK, AnnouncesOK, EventsOK, StreamsOK

\* What m is to stream s when nothing was missed.
Caught(s, m) ==
  \/ m \in fetched[s]
  \/ m \in heard[s]
  \/ InChannel(s, m)
  \/ StillToCome(m)
  \/ ~walked[s] /\ (cursor[s] = 0 \/ m < cursor[s])

\* m is the stream's to show.
Due(s, m) ==
  /\ m \in DOMAIN messages
  /\ hubOf[s] # None
  /\ closes[s] = 0
  /\ messages[m].channel = channel[s]
  /\ m \notin unannounced

LEMMA MissedDef ==
  /\ NothingMissed <=> \A s \in Streams : \A m : Due(s, m) => Caught(s, m)
  /\ NothingMissed' <=> \A s \in Streams : \A m : Due(s, m)' => Caught(s, m)'
  BY DEF NothingMissed, Due, Caught

\* The requests disturb no stream.
LEMMA ToldStreams ==
  ASSUME StreamsTypeOK, StreamsOK, Told, UNCHANGED streamVars
  PROVE  StreamsTypeOK' /\ StreamsOK' /\ (NothingMissed => NothingMissed')
  <1>1. UNCHANGED <<viewer, admitted, channel, asking, cursor, walked, fetched, heard, rows,
                    hubOf, topicOf, queue, closes, reading>>
    BY DEF Told, streamVars
  <1>2. StreamsTypeOK'
    BY <1>1 DEF StreamsTypeOK
  <1>3. StreamsOK'
    <2>1. ASSUME NEW s \in Streams
          PROVE  StreamOK(s)'
      <3>1. StreamOK(s)
        BY DEF StreamsOK
      <3>2. PICK c, g : c = channel[s] /\ g = admitted[s]
        OBVIOUS
      <3>3. Belongs(c, g) => Belongs(c, g)'
        BY DEF Told, Lasting
      <3> QED BY <1>1, <3>1, <3>2, <3>3 DEF StreamOK
    <2> QED BY <2>1 DEF StreamsOK
  <1>4. ASSUME NothingMissed, NEW s \in Streams, NEW m, Due(s, m)'
        PROVE  Caught(s, m)'
    <2>1. m \in DOMAIN messages' /\ m \notin unannounced' /\ m \notin unannounced
      BY <1>4 DEF Due, Told
    <2>2. CASE StillToCome(m)'
      BY <2>2 DEF Caught
    <2>3. CASE ~StillToCome(m)'
      <3>1. m \in DOMAIN messages /\ messages'[m].channel = messages[m].channel /\ ~StillToCome(m)
        BY <2>1, <2>3 DEF Told, Announced
      <3>2. Due(s, m)
        BY <1>1, <1>4, <2>1, <3>1 DEF Due
      <3>3. Caught(s, m)
        BY <1>4, <3>2, MissedDef
      <3> QED BY <1>1, <3>1, <3>3 DEF Caught, InChannel
    <2> QED BY <2>2, <2>3
  <1> QED BY <1>2, <1>3, <1>4, MissedDef

\* Steps that touch no table keep what the requests rely on.
LEMMA TablesStill ==
  ASSUME IInv, HubsOK, AnnouncesOK, EventsOK, UNCHANGED <<guildVars, messageVars>>,
         DOMAIN pending' \subseteq DOMAIN pending,
         \A r \in DOMAIN pending' :
           /\ pending'[r].topic = pending[r].topic
           /\ pending'[r].event = pending[r].event
           /\ pending'[r].via = "redis" => pending[r].via = "redis"
  PROVE  AnnouncesOK' /\ EventsOK'
  <1>1. UNCHANGED <<guilds, members, channels, usedIds, pc, call, messages, lastId, unannounced>>
    BY DEF guildVars, messageVars
  <1>2. PICK r : r \notin Requests
    BY NoSetContainsEverything
  <1>3. DOMAIN call \subseteq Requests /\ OthersStay(r) /\ r \notin DOMAIN call'
    BY <1>1, <1>2, Parts DEF RequestsTypeOK, OthersStay
  <1>4. \A c, g : Belongs(c, g) => Belongs(c, g)'
    BY <1>1 DEF Belongs
  <1>5. RowsStay(r) /\ DrawsAnew(r)
    BY <1>1, <1>3, Parts DEF RowsStay, DrawsAnew, RowsOK
  <1>6. Lasting
    BY <1>3, <1>4, <1>5, Lasts
  <1> QED BY <1>3, <1>6, OthersAnnounce

\* Streams that only see their hubs move.
LEMMA HubStreams ==
  ASSUME StreamsTypeOK, StreamsOK, UNCHANGED <<guildVars, messageVars, streamVars>>, HubMoves
  PROVE  StreamsTypeOK' /\ StreamsOK'
  <1>1. UNCHANGED <<viewer, admitted, channel, asking, cursor, walked, fetched, heard, rows,
                    hubOf, topicOf, reading, channels, usedIds>>
    BY DEF HubMoves, streamVars, guildVars
  <1>2. \A s \in Streams : StreamOK(s)' <=> StreamOK(s)
    BY <1>1 DEF StreamOK, Belongs
  <1> QED BY <1>1, <1>2 DEF StreamsTypeOK, StreamsOK

\* Without Redis, a publication reaches every stream of the one instance.
LEMMA PublishMissesNone ==
  ASSUME IInv, FeedInv, NothingMissed, ~WithRedis, \A i, j \in Instances : i = j,
         NEW r \in Requests, Hub!PublishStep(r), UNCHANGED <<guildVars, messageVars, streamVars>>
  PROVE  NothingMissed'
  <1>1. HubsOK /\ EventsOK /\ StreamsOK /\ RowsOK
    BY FeedParts, Parts
  <1>2. r \in DOMAIN pending /\ pending[r].via = "local"
    BY <1>1, HubTypes DEF EventsOK, EventOK, Hub!PublishStep, Hub!PublishToRedis, Hub!PublishRejected,
                      Hub!PublishLocally
  <1> DEFINE i == pending[r].hub
             g == pending[r].topic
             e == pending[r].event
  <1>3. i \in Instances /\ g \in Guild /\ e \in Event
    BY <1>1, <1>2, HubTypes
  <1>4. Hub!Deliver(i, g, e) /\ UNCHANGED hubOf /\ Hub!Done(r)
    BY <1>2 DEF Hub!PublishStep, Hub!PublishToRedis, Hub!PublishRejected, Hub!PublishLocally
  <1>5. \A s \in Streams :
          /\ closes[s] # 0 => closes'[s] # 0
          /\ queue[s] \in Seq(Event) /\ queue'[s] \in Seq(Event)
          /\ s \in subs[i] /\ topicOf[s] = g /\ closes'[s] = 0 => queue'[s] = Append(queue[s], e)
    BY <1>1, <1>3, <1>4, Delivers, HubTypes
  <1>6. HubMoves
    BY <1>1, PublishStep
  <1>7. UNCHANGED <<channels, call, messages, unannounced, channel, cursor, walked, fetched, heard, hubOf>>
    BY <1>4 DEF guildVars, messageVars, streamVars
  <1>8. ASSUME NEW s \in Streams, NEW m, Due(s, m)'
        PROVE  Caught(s, m)'
    <2>1. Due(s, m)
      BY <1>5, <1>7, <1>8 DEF Due
    <2>2. Caught(s, m)
      BY <2>1, MissedDef
    <2>3. CASE InChannel(s, m)
      BY <1>6, <2>3 DEF InChannel, HubMoves, Caught
    <2>4. CASE StillToCome(m)
      <3>1. CASE m \in Created(e)
        <4>1. e.kind = "message.created" /\ e.message = m
          BY <3>1 DEF Created
        <4>2. Belongs(messages[m].channel, g)
          BY <1>1, <1>2, <2>1, <4>1 DEF EventsOK, EventOK, Due
        <4>3. messages[m].channel = channel[s] /\ messages[m].channel \in DOMAIN channels
          BY <1>1, <2>1 DEF Due, RowsOK, QuotesStayInChannel
        <4>4. hubOf[s] # None /\ closes[s] = 0 /\ StreamOK(s)
          BY <1>1, <2>1 DEF Due, StreamsOK
        <4>5. channel[s] # None
          BY <4>3, Parts DEF TablesOK, TablesTypeOK
        <4>6. topicOf[s] = g
          BY <4>2, <4>3, <4>4, <4>5 DEF StreamOK, Belongs
        <4>7. hubOf[s] = i
          BY <1>1, <1>3, <4>4, HubTypes
        <4>8. s \in subs[i]
          BY <1>1, <4>4, <4>7 DEF HubsOK, Hub!ClosedOnce
        <4>9. queue'[s] = Append(queue[s], e)
          BY <1>5, <1>8, <4>6, <4>8 DEF Due
        <4>10. \E n \in DOMAIN queue'[s] : queue'[s][n] = e
          <5>1. Len(queue[s]) + 1 \in DOMAIN Append(queue[s], e) /\ Append(queue[s], e)[Len(queue[s]) + 1] = e
            BY <1>3, <1>5
          <5> QED BY <4>9, <5>1
        <4>11. InChannel(s, m)'
          BY <3>1, <4>10 DEF InChannel, Created
        <4> QED BY <4>11 DEF Caught
      <3>2. CASE m \notin Created(e)
        <4>1. \A q \in DOMAIN pending \ {r} : q \in DOMAIN pending' /\ pending'[q] = pending[q]
          BY <1>4 DEF Hub!Done
        <4>2. StillToCome(m)'
          BY <1>7, <2>4, <3>2, <4>1 DEF StillToCome, Created
        <4> QED BY <4>2 DEF Caught
      <3> QED BY <3>1, <3>2
    <2> QED BY <1>7, <2>2, <2>3, <2>4 DEF Caught
  <1> QED BY <1>8, MissedDef

\* Whatever else the hubs do, no event is lost before its time.
LEMMA RelayMissesNone ==
  ASSUME FeedInv, NothingMissed, NEW i \in Instances, Hub!RelayStep(i) \/ Hub!RelayLoses(i),
         UNCHANGED <<guildVars, messageVars, streamVars>>
  PROVE  NothingMissed'
  <1>1. HubMoves
    BY FeedParts, RelayStep
  <1>2. UNCHANGED pending
    BY DEF Hub!RelayStep, Hub!RelayReceive, Hub!RelayDeliver, Hub!RelayExit, Hub!RelayLoses
  <1>3. UNCHANGED <<channels, call, messages, unannounced, channel, cursor, walked, fetched, heard, hubOf>>
    BY <1>1 DEF guildVars, messageVars, streamVars, HubMoves
  <1>4. ASSUME NEW s \in Streams, NEW m, Due(s, m)'
        PROVE  Caught(s, m)'
    <2>1. Due(s, m)
      BY <1>1, <1>3, <1>4 DEF Due, HubMoves
    <2>2. Caught(s, m)
      BY <2>1, MissedDef
    <2>3. CASE InChannel(s, m)
      BY <1>1, <2>3 DEF InChannel, HubMoves, Caught
    <2> QED BY <1>2, <1>3, <2>2, <2>3 DEF Caught, StillToCome
  <1> QED BY <1>4, MissedDef

\* What is not among the newest n is older than they are, and they are n.
LEMMA NewestOf ==
  ASSUME NEW S, S \subseteq Ids, NEW n \in Nat, NEW m \in S, m \notin Newest(S, n)
  PROVE  /\ \A x \in Newest(S, n) : m < x
         /\ Cardinality(Newest(S, n)) >= n
  <1> DEFINE Above(x) == {y \in S : y > x}
             N == Newest(S, n)
             R == S \ N
  <1>1. N \subseteq S /\ \A x \in S : x \in N <=> Cardinality(Above(x)) < n
    BY DEF Newest
  <1>2. S \subseteq Nat
    BY DEF Ids
  <1>3. \A x : Above(x) \subseteq S /\ \A y \in S : y \in Above(x) <=> y > x
    OBVIOUS
  <1> HIDE DEF Above, N
  <1>4. \A x : IsFiniteSet(Above(x)) /\ Cardinality(Above(x)) \in Nat
    <2>1. ASSUME NEW x
          PROVE  IsFiniteSet(Above(x)) /\ Cardinality(Above(x)) \in Nat
      <3>1. Above(x) \subseteq Ids
        BY <1>3
      <3> QED BY <3>1, IdsFinite
    <2> QED BY <2>1
  <1>5. ASSUME NEW x \in N
        PROVE  m < x
    <2>1. SUFFICES ASSUME x <= m
                   PROVE  FALSE
      BY <1>1, <1>2
    <2>2. ASSUME NEW y \in Above(m)
          PROVE  y \in Above(x)
      <3>1. y \in S /\ y > m
        BY <1>3
      <3>2. x \in S /\ y \in Nat /\ m \in Nat /\ x \in Nat
        BY <1>1, <1>2, <3>1
      <3>3. y > x
        BY <2>1, <3>1, <3>2
      <3> QED BY <1>3, <3>1, <3>3
    <2>3. Cardinality(Above(m)) <= Cardinality(Above(x))
      BY <1>4, <2>2, FS_Subset
    <2>4. Cardinality(Above(x)) < n /\ ~(Cardinality(Above(m)) < n)
      BY <1>1 DEF N
    <2> QED BY <1>4, <2>3, <2>4
  <1>6. R \subseteq Ids /\ R # {}
    BY DEF N
  <1> HIDE DEF R
  <1>7. PICK x \in R : \A y \in R : y <= x
    BY <1>6, GreatestId
  <1>8. x \in S /\ x \notin N /\ \A y \in S : y > x => y \in N
    BY <1>2, <1>7 DEF R
  <1>9. Above(x) \subseteq N
    BY <1>3, <1>8
  <1>10. IsFiniteSet(N) /\ Cardinality(N) \in Nat
    BY <1>1, IdsFinite
  <1>11. Cardinality(Above(x)) <= Cardinality(N)
    BY <1>9, <1>10, FS_Subset
  <1>12. ~(Cardinality(Above(x)) < n)
    BY <1>1, <1>8
  <1>13. Cardinality(N) >= n
    BY <1>4, <1>10, <1>11, <1>12
  <1> QED BY <1>5, <1>13 DEF N

\* What is older than the cursor is on the page, or older than the next one.
LEMMA PageTakes ==
  ASSUME NEW S, S \subseteq Ids, NEW n \in Nat \ {0}, NEW m \in S, NEW found, NEW page,
         found = Newest(S, n + 1), page = Newest(found, n), m \notin page
  PROVE  Cardinality(found) > n /\ \A x \in page : m < x
  <1>1. found \subseteq S /\ page \subseteq found /\ IsFiniteSet(found) /\ Cardinality(found) \in Nat
    <2>1. found \subseteq S /\ page \subseteq found
      BY DEF Newest
    <2> QED BY <2>1, IdsFinite
  <1>2. CASE m \notin found
    <2>1. (\A x \in found : m < x) /\ Cardinality(found) >= n + 1
      BY <1>2, NewestOf
    <2> QED BY <1>1, <2>1
  <1>3. CASE m \in found
    <2>1. (\A x \in page : m < x) /\ Cardinality(page) >= n
      BY <1>1, <1>3, NewestOf
    <2>2. page \subseteq found \ {m} /\ IsFiniteSet(found \ {m}) /\ Cardinality(found \ {m}) = Cardinality(found) - 1
      BY <1>1, <1>3, FS_RemoveElement
    <2>3. Cardinality(page) <= Cardinality(found \ {m})
      BY <2>2, FS_Subset
    <2>4. Cardinality(page) \in Nat
      BY <1>1, IdsFinite
    <2> QED BY <1>1, <2>1, <2>2, <2>3, <2>4
  <1> QED BY <1>2, <1>3

\* Nothing below the cursor is skipped by the next page.
LEMMA FetchPageMissesNone ==
  ASSUME IInv, FeedInv, PageTypeOK, PagesOK, NEW s \in Streams, FetchPage(s)
  PROVE  StreamsTypeOK' /\ StreamsOK' /\ (NothingMissed => NothingMissed')
  <1> DEFINE S     == Older(channel[s], cursor[s])
             found == Newest(S, Limit + 1)
             page  == Newest(found, Limit)
             more  == Cardinality(found) > Limit
             next  == IF more THEN Min(page) ELSE cursor[s]
  <1>1. /\ asking[s]
        /\ asking' = [asking EXCEPT ![s] = FALSE]
        /\ fetched' = [fetched EXCEPT ![s] = @ \cup page]
        /\ walked' = [walked EXCEPT ![s] = ~more]
        /\ cursor' = [cursor EXCEPT ![s] = next]
        /\ UNCHANGED <<guildVars, messageVars, hubVars, viewer, admitted, channel, heard>>
    BY DEF FetchPage, NextBefore
  <1>2. StreamsTypeOK /\ StreamsOK /\ PageTypeOK'
    BY FeedParts, FetchPageStep
  <1>3. StreamsTypeOK'
    BY <1>1, <1>2 DEF StreamsTypeOK, PageTypeOK
  <1>4. UNCHANGED <<channels, usedIds, call, messages, unannounced, hubOf, topicOf, queue, closes, reading, pending>>
    BY <1>1 DEF guildVars, messageVars, hubVars
  <1>5. /\ fetched'[s] = fetched[s] \cup page /\ walked'[s] = ~more /\ cursor'[s] = next /\ asking'[s] = FALSE
        /\ \A t \in Streams \ {s} : /\ fetched'[t] = fetched[t] /\ walked'[t] = walked[t]
                                    /\ cursor'[t] = cursor[t] /\ asking'[t] = asking[t]
    BY <1>1, <1>2 DEF StreamsTypeOK
  <1> HIDE DEF next, more
  <1>6. StreamsOK'
    <2>1. ASSUME NEW t \in Streams
          PROVE  StreamOK(t)'
      <3>1. StreamOK(t) /\ (t = s => channel[t] # None)
        BY <1>1, <1>2 DEF StreamsOK, StreamOK
      <3> QED BY <1>1, <1>4, <1>5, <3>1 DEF StreamOK, Belongs
    <2> QED BY <2>1 DEF StreamsOK
  <1>7. ASSUME NothingMissed, NEW t \in Streams, NEW m, Due(t, m)'
        PROVE  Caught(t, m)'
    <2>1. Due(t, m)
      BY <1>1, <1>4, <1>7 DEF Due
    <2>2. Caught(t, m)
      BY <1>7, <2>1, MissedDef
    <2>3. CASE t # s
      BY <1>1, <1>4, <1>5, <2>2, <2>3 DEF Caught, InChannel, StillToCome
    <2>4. CASE t = s /\ ~(~walked[s] /\ (cursor[s] = 0 \/ m < cursor[s]))
      BY <1>1, <1>4, <1>5, <2>2, <2>4 DEF Caught, InChannel, StillToCome
    <2>5. CASE t = s /\ ~walked[s] /\ (cursor[s] = 0 \/ m < cursor[s]) /\ m \notin page
      <3>1. m \in S /\ S \subseteq Ids
        BY <2>1, <2>5, Parts DEF Due, Older, MessagesOf, RowsOK, Ids
      <3>2. /\ found = Newest(S, Limit + 1) /\ page = Newest(found, Limit)
            /\ found \subseteq S /\ page \subseteq found
        BY DEF Newest
      <3> HIDE DEF found, page, S
      <3>3. Cardinality(found) > Limit /\ \A x \in page : m < x
        BY <2>5, <3>1, <3>2, PageTakes, PageAssumption
      <3>4. page \subseteq Nat /\ found \subseteq Ids /\ found # {}
        <4>1. found = {} => Cardinality(found) = 0
          BY FS_EmptySet
        <4>2. found # {}
          BY <3>3, <4>1, PageAssumption
        <4>3. found \subseteq Ids /\ page \subseteq Ids
          BY <3>1, <3>2
        <4>4. Ids \subseteq Nat
          BY DEF Ids
        <4> QED BY <4>2, <4>3, <4>4
      <3>5. page # {}
        BY <3>2, <3>4, PageNotEmpty
      <3>6. Min(page) \in page
        BY <3>4, <3>5, LeastId
      <3>7. ~walked'[s] /\ m < cursor'[s]
        BY <1>5, <3>3, <3>6 DEF next, more
      <3> QED BY <2>5, <3>7 DEF Caught
    <2>6. CASE t = s /\ m \in page
      BY <1>5, <2>6 DEF Caught
    <2> QED BY <2>3, <2>4, <2>5, <2>6
  <1> QED BY <1>3, <1>6, <1>7, MissedDef


\* What a step of a stream keeps.
FeedKept == StreamsTypeOK' /\ HubsOK' /\ StreamsOK' /\ (NothingMissed => NothingMissed')

\* Steps that change only who a stream is for, or what its client asks.
LEMMA AdmitMissesNone ==
  ASSUME FeedInv, NEW s \in Streams, NEW u \in Users, NEW g \in Guild, Admit(s, u, g)
  PROVE  FeedKept
  <1>1. StreamsTypeOK /\ HubsOK /\ StreamsOK
    BY FeedParts
  <1>2. /\ viewer[s] = None
        /\ viewer' = [viewer EXCEPT ![s] = u] /\ admitted' = [admitted EXCEPT ![s] = g]
        /\ UNCHANGED <<channel, asking, cursor, walked, fetched, heard, rows>>
        /\ UNCHANGED <<channels, usedIds, call, messages, unannounced, hubVars>>
    BY DEF Admit, guildVars, messageVars
  <1>3. UNCHANGED <<hubOf, topicOf, queue, closes, reading, pending>> /\ HubsOK'
    BY <1>1, <1>2 DEF hubVars, HubsOK, Hub!HubTypeOK, Hub!ClosedOnce
  <1>4. StreamsTypeOK'
    BY <1>1, <1>2 DEF StreamsTypeOK
  <1>5. ASSUME NEW t \in Streams
        PROVE  StreamOK(t)'
    <2>1. StreamOK(t)
      BY <1>1 DEF StreamsOK
    <2>2. CASE t = s
      <3>1. admitted[s] = None /\ hubOf[s] = None /\ channel[s] = None /\ ~reading[s]
        BY <1>2, <2>1, <2>2 DEF StreamOK
      <3>2. viewer'[s] = u /\ admitted'[s] = g /\ u # None /\ g # None
        BY <1>1, <1>2 DEF StreamsTypeOK
      <3> QED BY <1>2, <1>3, <2>1, <2>2, <3>1, <3>2 DEF StreamOK
    <2>3. CASE t # s
      BY <1>1, <1>2, <1>3, <2>1, <2>3 DEF StreamOK, StreamsTypeOK, Belongs
    <2> QED BY <2>2, <2>3
  <1>6. ASSUME NothingMissed, NEW t \in Streams, NEW m, Due(t, m)'
        PROVE  Caught(t, m)'
    <2>1. Due(t, m) /\ Caught(t, m)
      BY <1>2, <1>3, <1>6, MissedDef DEF Due
    <2> QED BY <1>2, <1>3, <2>1 DEF Caught, InChannel, StillToCome
  <1>7. NothingMissed => NothingMissed'
    BY <1>6, MissedDef
  <1> QED BY <1>3, <1>4, <1>5, <1>7 DEF FeedKept, StreamsOK

\* A client has nothing to show before it first asks for a channel: from then
\* on all of it is ahead of the first page.
LEMMA AskPageMissesNone ==
  ASSUME IInv, FeedInv, NEW s \in Streams, NEW c \in Channels, AskPage(s, c)
  PROVE  FeedKept
  <1>1. StreamsTypeOK /\ HubsOK /\ StreamsOK
    BY FeedParts
  <1>2. /\ ~walked[s] /\ reading[s] /\ channel[s] \in {None, c} /\ Exists(admitted[s], c)
        /\ asking' = [asking EXCEPT ![s] = TRUE] /\ channel' = [channel EXCEPT ![s] = c]
        /\ UNCHANGED <<viewer, admitted, cursor, walked, fetched, heard, rows>>
        /\ UNCHANGED <<channels, usedIds, call, messages, unannounced, hubVars>>
    BY DEF AskPage, guildVars, messageVars
  <1>3. UNCHANGED <<hubOf, topicOf, queue, closes, reading, pending>> /\ HubsOK'
    BY <1>1, <1>2 DEF hubVars, HubsOK, Hub!HubTypeOK, Hub!ClosedOnce
  <1>4. StreamsTypeOK'
    BY <1>1, <1>2 DEF StreamsTypeOK
  <1>5. StreamOK(s) /\ channel'[s] = c /\ c # None /\ asking'[s]
    BY <1>1, <1>2 DEF StreamsOK, StreamsTypeOK
  <1>6. ASSUME NEW t \in Streams
        PROVE  StreamOK(t)'
    <2>1. StreamOK(t)
      BY <1>1 DEF StreamsOK
    <2>2. CASE t = s
      <3>1. hubOf[s] # None
        BY <1>2, <1>5 DEF StreamOK
      <3>2. Belongs(c, admitted[s])
        BY <1>2, Parts DEF Exists, ChannelsOf, Belongs, TablesOK, IdsOK
      <3> QED BY <1>2, <1>3, <1>5, <2>2, <3>1, <3>2 DEF StreamOK, Belongs
    <2>3. CASE t # s
      BY <1>1, <1>2, <1>3, <2>1, <2>3 DEF StreamOK, StreamsTypeOK, Belongs
    <2> QED BY <2>2, <2>3
  <1>7. ASSUME NothingMissed, NEW t \in Streams, NEW m, Due(t, m)'
        PROVE  Caught(t, m)'
    <2>1. CASE t = s /\ channel[s] = None
      <3>1. ~walked'[s] /\ cursor'[s] = 0
        BY <1>2, <1>5, <2>1 DEF StreamOK
      <3> QED BY <2>1, <3>1 DEF Caught
    <2>2. CASE ~(t = s /\ channel[s] = None)
      <3>1. channel'[t] = channel[t]
        BY <1>1, <1>2, <1>5, <2>2 DEF StreamsTypeOK
      <3>2. Due(t, m) /\ Caught(t, m)
        BY <1>2, <1>3, <1>7, <3>1, MissedDef DEF Due
      <3> QED BY <1>2, <1>3, <3>2 DEF Caught, InChannel, StillToCome
    <2> QED BY <2>1, <2>2
  <1>8. NothingMissed => NothingMissed'
    BY <1>7, MissedDef
  <1> QED BY <1>3, <1>4, <1>6, <1>8 DEF FeedKept, StreamsOK

\* A stream that subscribes is nobody's yet: no page was asked for.
LEMMA ConnectMissesNone ==
  ASSUME IInv, FeedInv, NEW s \in Streams, NEW i \in Instances, Connect(s, i)
  PROVE  FeedKept
  <1>1. StreamsTypeOK /\ HubsOK /\ StreamsOK
    BY FeedParts
  <1>2. /\ admitted[s] # None /\ Hub!Subscribe(i, s, admitted[s])
        /\ UNCHANGED <<viewer, admitted, channel, asking, cursor, walked, fetched, heard, rows>>
        /\ UNCHANGED <<channels, usedIds, call, messages, unannounced>>
    BY DEF Connect, guildVars, messageVars, streamVars
  <1>3. admitted[s] \in Guild
    BY <1>1, <1>2 DEF StreamsTypeOK
  <1>4. HubsOK'
    BY <1>1, <1>2, <1>3, SubscribeStep
  <1>5. /\ hubOf[s] = None /\ hubOf' = [hubOf EXCEPT ![s] = i]
        /\ topicOf' = [topicOf EXCEPT ![s] = admitted[s]]
        /\ reading' = [reading EXCEPT ![s] = TRUE]
        /\ closes' = [closes EXCEPT ![s] = @ + 1] \/ UNCHANGED closes
        /\ UNCHANGED <<queue, pending>>
    BY <1>2 DEF Hub!Subscribe
  <1>6. /\ hubOf'[s] = i /\ i # None /\ topicOf'[s] = admitted[s]
        /\ \A t \in Streams \ {s} : /\ hubOf'[t] = hubOf[t] /\ topicOf'[t] = topicOf[t]
                                    /\ reading'[t] = reading[t] /\ closes'[t] = closes[t]
    BY <1>1, <1>5, HubTypes, HubsAssumption
  <1>7. StreamsTypeOK'
    BY <1>1, <1>2 DEF StreamsTypeOK
  <1>8. \A t \in Streams : StreamOK(t)
    BY <1>1 DEF StreamsOK
  <1>9. ASSUME NEW t \in Streams
        PROVE  StreamOK(t)'
    <2>1. CASE t = s
      BY <1>2, <1>5, <1>6, <1>8, <2>1 DEF StreamOK
    <2>2. CASE t # s
      BY <1>2, <1>6, <1>8, <2>2 DEF StreamOK, Belongs
    <2> QED BY <2>1, <2>2
  <1>10. ASSUME NothingMissed, NEW t \in Streams, NEW m, Due(t, m)'
         PROVE  Caught(t, m)'
    <2>1. t # s
      <3>1. m \in DOMAIN messages /\ messages[m].channel = channel[t]
        BY <1>2, <1>10 DEF Due
      <3>2. messages[m].channel \in DOMAIN channels
        BY <3>1, Parts DEF RowsOK, QuotesStayInChannel
      <3>3. channel[t] # None
        BY <3>1, <3>2, Parts DEF TablesOK, TablesTypeOK
      <3> QED BY <1>5, <1>8, <3>3 DEF StreamOK
    <2>2. Due(t, m) /\ Caught(t, m)
      BY <1>2, <1>6, <1>10, <2>1, MissedDef DEF Due
    <2> QED BY <1>2, <1>5, <2>2 DEF Caught, InChannel, StillToCome
  <1>11. NothingMissed => NothingMissed'
    BY <1>10, MissedDef
  <1> QED BY <1>4, <1>7, <1>9, <1>11 DEF FeedKept, StreamsOK

\* A stream that ends is cut off, and its client will have to reconnect.
LEMMA EndingMissesNone ==
  ASSUME FeedInv, NEW s \in Streams, Hub!StopReading(s), UNCHANGED <<guildVars, messageVars, streamVars>>
  PROVE  FeedKept
  <1>1. StreamsTypeOK /\ HubsOK /\ StreamsOK
    BY FeedParts
  <1>2. /\ reading[s]
        /\ UNCHANGED <<viewer, admitted, channel, asking, cursor, walked, fetched, heard, rows>>
        /\ UNCHANGED <<channels, usedIds, call, messages, unannounced>>
        /\ UNCHANGED <<hubOf, topicOf, queue, pending>>
    BY DEF Hub!StopReading, guildVars, messageVars, streamVars
  <1>3. hubOf[s] \in Instances
    BY <1>1, <1>2, HubTypes DEF StreamsOK, StreamOK
  <1>4. /\ HubsOK'
        /\ \A u \in Streams : /\ closes[u] # 0 => closes'[u] # 0
                              /\ reading'[u] => reading[u]
    BY <1>1, <1>3, StopReadingStep
  <1>5. StreamsTypeOK'
    BY <1>1, <1>2 DEF StreamsTypeOK
  <1>6. ASSUME NEW t \in Streams
        PROVE  StreamOK(t)'
    BY <1>1, <1>2, <1>4 DEF StreamsOK, StreamOK, Belongs
  <1>7. ASSUME NothingMissed, NEW t \in Streams, NEW m, Due(t, m)'
        PROVE  Caught(t, m)'
    <2>1. Due(t, m) /\ Caught(t, m)
      BY <1>2, <1>4, <1>7, MissedDef DEF Due
    <2> QED BY <1>2, <2>1 DEF Caught, InChannel, StillToCome
  <1>8. NothingMissed => NothingMissed'
    BY <1>7, MissedDef
  <1> QED BY <1>4, <1>5, <1>6, <1>8 DEF FeedKept, StreamsOK

\* What leaves the channel was heard.
LEMMA ReceiveMissesNone ==
  ASSUME FeedInv, NEW s \in Streams, Hub!Receive(s),
         heard' = [heard EXCEPT ![s] = @ \cup Created(Head(queue[s]))],
         UNCHANGED <<guildVars, messageVars, viewer, admitted, channel, asking, cursor, walked, fetched, rows>>
  PROVE  FeedKept
  <1>1. StreamsTypeOK /\ HubsOK /\ StreamsOK
    BY FeedParts
  <1>2. /\ UNCHANGED <<channels, usedIds, call, messages, unannounced>>
        /\ UNCHANGED <<hubOf, topicOf, closes, reading, pending>>
        /\ queue[s] # <<>>
    BY DEF Hub!Receive, guildVars, messageVars
  <1>3. /\ HubsOK' /\ Head(queue[s]) \in Event
        /\ \A t \in Streams : queue'[t] = IF t = s THEN Tail(queue[s]) ELSE queue[t]
    BY <1>1, ReceiveStep
  <1>4. Created(Head(queue[s])) \subseteq Ids
    BY <1>3 DEF Created, Event
  <1>5. StreamsTypeOK'
    BY <1>1, <1>4 DEF StreamsTypeOK
  <1>6. ASSUME NEW t \in Streams
        PROVE  StreamOK(t)'
    BY <1>1, <1>2 DEF StreamsOK, StreamOK, Belongs
  <1>7. \A t \in Streams : heard'[t] = IF t = s THEN heard[s] \cup Created(Head(queue[s])) ELSE heard[t]
    BY <1>1 DEF StreamsTypeOK
  <1>8. ASSUME NothingMissed, NEW t \in Streams, NEW m, Due(t, m)'
        PROVE  Caught(t, m)'
    <2>1. Due(t, m) /\ Caught(t, m)
      BY <1>2, <1>8, MissedDef DEF Due
    <2>2. CASE t # s
      BY <1>2, <1>3, <1>7, <2>1, <2>2 DEF Caught, InChannel, StillToCome
    <2>3. CASE t = s /\ InChannel(s, m)
      <3>1. PICK n \in DOMAIN queue[s] : m \in Created(queue[s][n])
        BY <2>3 DEF InChannel
      <3>2. queue[s] \in Seq(Event)
        BY <1>1, HubTypes
      <3>3. CASE n = 1
        <4>1. m \in heard'[s]
          BY <1>2, <1>7, <3>1, <3>2, <3>3
        <4> QED BY <2>3, <4>1 DEF Caught
      <3>4. CASE n # 1
        <4>1. n - 1 \in DOMAIN Tail(queue[s]) /\ Tail(queue[s])[n - 1] = queue[s][n]
          BY <1>2, <3>1, <3>2, <3>4
        <4>2. InChannel(s, m)'
          BY <1>3, <3>1, <4>1 DEF InChannel, Created
        <4> QED BY <2>3, <4>2 DEF Caught
      <3> QED BY <3>3, <3>4
    <2>4. CASE t = s /\ ~InChannel(s, m)
      BY <1>2, <1>7, <2>1, <2>4 DEF Caught, StillToCome
    <2> QED BY <2>2, <2>3, <2>4
  <1>9. NothingMissed => NothingMissed'
    BY <1>8, MissedDef
  <1> QED BY <1>3, <1>5, <1>6, <1>9 DEF FeedKept, StreamsOK

LEMMA StreamMissesNone ==
  ASSUME IInv, FeedInv, PageTypeOK, PagesOK, NEW s \in Streams, StreamStep(s)
  PROVE  FeedKept /\ UNCHANGED <<guildVars, messageVars, pending>>
  <1>1. ASSUME NEW u \in Users, NEW g \in Guild, Admit(s, u, g)
        PROVE  FeedKept /\ UNCHANGED <<guildVars, messageVars, pending>>
    BY <1>1, AdmitMissesNone DEF Admit, hubVars
  <1>2. ASSUME NEW i \in Instances, Connect(s, i)
        PROVE  FeedKept /\ UNCHANGED <<guildVars, messageVars, pending>>
    BY <1>2, ConnectMissesNone DEF Connect, Hub!Subscribe
  <1>3. CASE Forward(s)
    <2>1. CASE Hub!EndOfStream(s) /\ UNCHANGED heard
      <3>1. Hub!StopReading(s) /\ UNCHANGED <<guildVars, messageVars, streamVars, pending>>
        BY <1>3, <2>1 DEF Forward, Hub!EndOfStream, Hub!StopReading, streamVars
      <3> QED BY <3>1, EndingMissesNone
    <2>2. CASE Hub!Receive(s) /\ heard' = [heard EXCEPT ![s] = @ \cup Created(Head(queue[s]))]
      <3>1. UNCHANGED <<guildVars, messageVars, viewer, admitted, channel, asking, cursor, walked, fetched,
                        rows, pending>>
        BY <1>3, <2>2 DEF Forward, Hub!Receive
      <3> QED BY <2>2, <3>1, ReceiveMissesNone
    <2> QED BY <1>3, <2>1, <2>2 DEF Forward
  <1>4. CASE Disconnect(s) \/ Heartbeat(s)
    <2>1. Hub!StopReading(s) /\ UNCHANGED <<guildVars, messageVars, streamVars, pending>>
      BY <1>4 DEF Disconnect, Heartbeat, Hub!GiveUp, Hub!StopReading
    <2> QED BY <2>1, EndingMissesNone
  <1>5. ASSUME NEW c \in Channels, AskPage(s, c)
        PROVE  FeedKept /\ UNCHANGED <<guildVars, messageVars, pending>>
    BY <1>5, AskPageMissesNone DEF AskPage, hubVars
  <1>6. CASE FetchPage(s)
    <2>1. UNCHANGED <<guildVars, messageVars, hubVars>>
      BY <1>6 DEF FetchPage
    <2>2. HubsOK'
      BY <2>1, FeedParts DEF hubVars, HubsOK, Hub!HubTypeOK, Hub!ClosedOnce
    <2> QED BY <1>6, <2>1, <2>2, FetchPageMissesNone DEF FeedKept, hubVars
  <1> QED BY <1>1, <1>2, <1>3, <1>4, <1>5, <1>6 DEF StreamStep

-----------------------------------------------------------------------------
(* The specification.                                                      *)

LEMMA FeedInit == Init => FeedInv /\ NothingMissed
  <1> SUFFICES ASSUME Init
               PROVE  FeedInv /\ NothingMissed
    OBVIOUS
  <1>1. ChannelsTypeOK
    BY InvariantInit DEF IInv
  <1>2. /\ closed = [i \in Instances |-> FALSE]
        /\ subs = [i \in Instances |-> {}]
        /\ hubOf = [s \in Streams |-> None]
        /\ topicOf = [s \in Streams |-> None]
        /\ queue = [s \in Streams |-> <<>>]
        /\ closes = [s \in Streams |-> 0]
        /\ reading = [s \in Streams |-> FALSE]
        /\ relay = [i \in Instances |-> IF WithRedis THEN "running" ELSE "done"]
        /\ inbox = [i \in Instances |-> <<>>]
        /\ inhand = [i \in Instances |-> <<>>]
        /\ closer = [i \in Instances |-> "open"]
        /\ pending = [p \in {} |-> None]
    BY DEF Init, ChannelsInit, Hub!HubInit
  <1>3. HubsOK
    <2>1. <<>> \in Seq(Event) /\ <<>> \in Seq(Guild \X Event) /\ Len(<<>>) = 0
      OBVIOUS
    <2>2. /\ queue \in [Streams -> Seq(Event)] /\ \A s \in Streams : Len(queue[s]) <= Buffer
          /\ inbox \in [Instances -> Seq(Guild \X Event)] /\ inhand \in [Instances -> Seq(Guild \X Event)]
      BY <1>2, <2>1
    <2>3. DOMAIN pending = {}
      BY <1>2
    <2>4. Hub!HubTypeOK
      BY <1>2, <2>2, <2>3 DEF Hub!HubTypeOK, Hub!Message
    <2> QED BY <1>2, <2>4 DEF HubsOK, Hub!ClosedOnce
  <1>4. StreamsTypeOK /\ StreamsOK
    BY <1>2 DEF Init, StreamsTypeOK, StreamsOK, StreamOK
  <1>5. DOMAIN call = {} /\ DOMAIN pending = {}
    BY <1>2 DEF Init, ChannelsInit, GuildInit
  <1>6. NothingMissed
    BY <1>2 DEF NothingMissed
  <1> QED BY <1>1, <1>3, <1>4, <1>5, <1>6 DEF FeedInv, TypeOK, HubsOK, StreamsTypeOK, StreamsOK

LEMMA FeedStep ==
  ASSUME IInv, PageTypeOK, PagesOK, FeedInv, [Next]_vars
  PROVE  /\ FeedInv'
         /\ ~WithRedis /\ (\A i, j \in Instances : i = j) /\ NothingMissed => NothingMissed'
  <1>1. StreamsTypeOK /\ HubsOK /\ AnnouncesOK /\ EventsOK /\ StreamsOK /\ IInv'
    BY FeedParts, InvariantStep
  <1>2. CASE \/ GuildRequest /\ UNCHANGED streamVars
             \/ \E r \in Requests : ChannelRequest(r) /\ UNCHANGED streamVars
    <2>1. Told /\ UNCHANGED streamVars
      BY <1>1, <1>2, GuildServiceTold, ChannelRequestTold
    <2>2. StreamsTypeOK' /\ StreamsOK' /\ (NothingMissed => NothingMissed')
      BY <1>1, <2>1, ToldStreams
    <2> QED BY <1>1, <2>1, <2>2, FeedParts DEF Told
  <1>3. CASE HubStep
    <2>1. HubsOK' /\ HubMoves /\ UNCHANGED <<guildVars, messageVars, streamVars>>
      BY <1>1, <1>3, HubStepMoves
    <2>2. StreamsTypeOK' /\ StreamsOK'
      BY <1>1, <2>1, HubStreams
    <2>3. AnnouncesOK' /\ EventsOK'
      BY <1>1, <2>1, TablesStill DEF HubMoves
    <2>4. ASSUME ~WithRedis, \A i, j \in Instances : i = j, NothingMissed
          PROVE  NothingMissed'
      <3>1. ASSUME NEW r \in Requests, Hub!PublishStep(r)
            PROVE  NothingMissed'
        BY <2>1, <2>4, <3>1, PublishMissesNone
      <3>2. ASSUME NEW i \in Instances, Hub!RelayStep(i) \/ Hub!RelayLoses(i)
            PROVE  NothingMissed'
        BY <2>1, <2>4, <3>2, RelayMissesNone
      <3> QED BY <1>3, <3>1, <3>2 DEF HubStep
    <2> QED BY <1>1, <2>1, <2>2, <2>3, <2>4, FeedParts
  <1>4. ASSUME NEW s \in Streams, StreamStep(s)
        PROVE  /\ FeedInv'
               /\ NothingMissed => NothingMissed'
    <2>1. FeedKept /\ UNCHANGED <<guildVars, messageVars, pending>>
      BY <1>4, StreamMissesNone
    <2>2. AnnouncesOK' /\ EventsOK'
      BY <1>1, <2>1, TablesStill
    <2> QED BY <1>1, <2>1, <2>2, FeedParts DEF FeedKept
  <1>5. CASE UNCHANGED vars
    <2>1. UNCHANGED <<guildVars, messageVars, hubVars, streamVars>>
      BY <1>5 DEF vars
    <2>2. HubsOK' /\ HubMoves
      BY <1>1, <2>1 DEF hubVars, HubsOK, Hub!HubTypeOK, Hub!ClosedOnce, HubMoves
    <2>3. StreamsTypeOK' /\ StreamsOK'
      BY <1>1, <2>1, <2>2, HubStreams
    <2>4. AnnouncesOK' /\ EventsOK'
      BY <1>1, <2>1, <2>2, TablesStill DEF HubMoves
    <2>5. NothingMissed => NothingMissed'
      BY <2>1 DEF NothingMissed, InChannel, StillToCome, guildVars, messageVars, hubVars, streamVars
    <2> QED BY <1>1, <2>2, <2>3, <2>4, <2>5, FeedParts
  <1> QED BY <1>2, <1>3, <1>4, <1>5 DEF Next

\* Guilds, channels, messages, hubs and the streams' clients keep their types:
\* in particular no channel of a subscription holds more than its buffer.
THEOREM StreamsTypeCorrect == Spec => []TypeOK
  <1>1. Init => PageTypeOK /\ PagesOK /\ FeedInv
    BY PagesInit, FeedInit
  <1>2. IInv /\ PageTypeOK /\ PagesOK /\ FeedInv /\ [Next]_vars => PageTypeOK' /\ PagesOK' /\ FeedInv'
    BY PagesStep, FeedStep
  <1>3. FeedInv => TypeOK
    BY DEF FeedInv
  <1> QED BY <1>1, <1>2, <1>3, GuildInvariance, PTL DEF Spec

\* With one instance and no Redis, a client that connects and then pages misses
\* no message that was announced, whatever is posted, deleted, dropped or cut
\* off meanwhile.  (With a relay, a message published before the client
\* subscribed at one instance may still be lost on its way to another.)
THEOREM NothingIsMissed ==
  ASSUME ~WithRedis, \A i, j \in Instances : i = j
  PROVE  Spec => []NothingMissed
  <1>1. Init => PageTypeOK /\ PagesOK /\ FeedInv /\ NothingMissed
    BY PagesInit, FeedInit
  <1>2. IInv /\ PageTypeOK /\ PagesOK /\ FeedInv /\ NothingMissed /\ [Next]_vars
          => PageTypeOK' /\ PagesOK' /\ FeedInv' /\ NothingMissed'
    BY PagesStep, FeedStep
  <1> QED BY <1>1, <1>2, GuildInvariance, PTL DEF Spec
=============================================================================
