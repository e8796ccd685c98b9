-------------------------- MODULE RealtimeHubFeedsProofs -------------------------
(***************************************************************************)
(* Type correctness of the hub, and its two safety properties, for any     *)
(* number of instances, topics, subscriptions and publishers and for any   *)
(* buffer size, with or without Redis.                                     *)
(***************************************************************************)
EXTENDS RealtimeHubFeeds, SequenceTheorems, TLAPS

USE HubAssumption

-----------------------------------------------------------------------------
(* The inductive invariant.                                                *)

\* A hub holds only its own subscriptions, and none once it is closed.
Ownership ==
  \A i \in Instances :
    /\ \A s \in subs[i] : hubOf[s] = i
    /\ closed[i] => subs[i] = {}

\* A subscription that was not made yet has no history.
Fresh ==
  \A s \in Subs : hubOf[s] = None =>
    /\ queue[s] = <<>>
    /\ owed[s] = <<>>
    /\ got[s] = <<>>
    /\ ~reading[s]

HubInv == TypeOK /\ Ownership /\ Fresh /\ ClosedOnce /\ NoSilentGap

-----------------------------------------------------------------------------
(* Sequences.                                                              *)

LEMMA PrefixRefl ==
  ASSUME NEW S, NEW q \in Seq(S)
  PROVE  IsPrefix(q, q)
BY DEF IsPrefix

LEMMA PrefixAppend ==
  ASSUME NEW S, NEW q \in Seq(S), NEW r \in Seq(S), NEW e \in S, IsPrefix(q, r)
  PROVE  IsPrefix(q, Append(r, e))
<1>1. Len(q) <= Len(r) /\ Len(q) \in Nat /\ Len(r) \in Nat
  BY LenProperties DEF IsPrefix
<1>2. Len(Append(r, e)) = Len(r) + 1
  BY AppendProperties
<1>3. SubSeq(Append(r, e), 1, Len(q)) = SubSeq(r, 1, Len(q))
  BY <1>1, SubSeqProperties, AppendProperties, SeqEqual
<1> QED
  BY <1>1, <1>2, <1>3 DEF IsPrefix

\* Taking the head of the channel moves it to the end of what was received.
LEMMA MoveHead ==
  ASSUME NEW S, NEW g \in Seq(S), NEW q \in Seq(S), q # <<>>
  PROVE  /\ Append(g, Head(q)) \o Tail(q) = g \o q
         /\ Append(g, Head(q)) \in Seq(S)
         /\ Tail(q) \in Seq(S)
         /\ Len(Tail(q)) = Len(q) - 1
<1>1. /\ Head(q) \in S /\ Tail(q) \in Seq(S) /\ Len(q) \in Nat \ {0}
      /\ Len(Tail(q)) = Len(q) - 1
      /\ \A k \in 1..Len(Tail(q)) : Tail(q)[k] = q[k+1]
  BY HeadTailProperties, EmptySeq
<1>2. Head(q) = q[1]
  OBVIOUS
<1> QED
  BY <1>1, <1>2

LEMMA ConcatAppend ==
  ASSUME NEW S, NEW g \in Seq(S), NEW q \in Seq(S), NEW e \in S
  PROVE  g \o Append(q, e) = Append(g \o q, e)
OBVIOUS

-----------------------------------------------------------------------------
(* What each critical section preserves.                                   *)

\* Unregistering closes exactly what it unregisters.
LEMMA RemoveLockedClosesOnce ==
  ASSUME HubInv, NEW i \in Instances, NEW ss \in SUBSET Subs,
         \A s \in ss : hubOf[s] = i,
         RemoveLocked(i, ss), UNCHANGED <<hubOf>>
  PROVE  /\ subs' \in [Instances -> SUBSET Subs]
         /\ closes' \in [Subs -> Nat]
         /\ \A j \in Instances : subs'[j] = IF j = i THEN subs[i] \ ss ELSE subs[j]
         /\ \A j \in Instances : \A s \in subs'[j] : hubOf'[s] = j
         /\ ClosedOnce'
<1>1. /\ subs \in [Instances -> SUBSET Subs] /\ closes \in [Subs -> Nat]
      /\ hubOf \in [Subs -> Instances \cup {None}]
      /\ \A j \in Instances : \A s \in subs[j] : hubOf[s] = j
      /\ ClosedOnce
  BY DEF HubInv, TypeOK, HubTypeOK, Ownership
<1>2. /\ subs' = [subs EXCEPT ![i] = @ \ ss]
      /\ closes' = [s \in Subs |-> IF s \in ss \cap subs[i] THEN closes[s] + 1 ELSE closes[s]]
      /\ hubOf' = hubOf
  BY DEF RemoveLocked
<1>3. \A j \in Instances : subs'[j] = IF j = i THEN subs[i] \ ss ELSE subs[j]
  BY <1>1, <1>2
<1>4. ASSUME NEW s \in Subs
      PROVE  closes'[s] = IF hubOf'[s] = None \/ s \in subs'[hubOf'[s]] THEN 0 ELSE 1
  <2>1. closes[s] = IF hubOf[s] = None \/ s \in subs[hubOf[s]] THEN 0 ELSE 1
    BY <1>1 DEF ClosedOnce
  <2>2. CASE s \in ss \cap subs[i]
    BY <1>1, <1>2, <1>3, <2>1, <2>2
  <2>3. CASE s \notin ss \cap subs[i]
    BY <1>1, <1>2, <1>3, <2>1, <2>3
  <2> QED
    BY <2>2, <2>3
<1> QED
  BY <1>1, <1>2, <1>3, <1>4 DEF ClosedOnce

\* What the sequence properties say of one subscription.
Whole(s) ==
  /\ IsPrefix(got[s] \o queue[s], owed[s])
  /\ \A i \in Instances : s \in subs[i] => got[s] \o queue[s] = owed[s]

LEMMA WholeIsNoSilentGap ==
  ASSUME TypeOK
  PROVE  NoSilentGap <=> \A s \in Subs : Whole(s)
<1>1. ASSUME NEW s \in Subs
      PROVE  s \in UNION {subs[i] : i \in Instances} <=> \E i \in Instances : s \in subs[i]
  OBVIOUS
<1> QED
  BY <1>1 DEF NoSilentGap, Whole

\* Steps that neither fill nor empty a channel keep every feed whole, as long
\* as they register nothing.
LEMMA FeedsKept ==
  ASSUME HubInv, TypeOK', UNCHANGED <<hubOf, queue, owed, got>>,
         \A i \in Instances : subs'[i] \subseteq subs[i],
         \A s \in Subs : reading'[s] => reading[s]
  PROVE  NoSilentGap' /\ Fresh'
<1>1. \A s \in Subs : Whole(s)
  BY WholeIsNoSilentGap DEF HubInv
<1>2. \A s \in Subs : Whole(s)'
  BY <1>1 DEF Whole
<1>3. NoSilentGap'
  BY <1>2 DEF NoSilentGap, Whole, TypeOK, HubTypeOK
<1>4. Fresh'
  BY DEF HubInv, Fresh
<1> QED
  BY <1>3, <1>4

\* A delivery reaches every subscriber of the topic that stays, in order.
LEMMA DeliverPreserves ==
  ASSUME HubInv, NEW i \in Instances, NEW t \in Topics, NEW e \in Events,
         Deliver(i, t, e), Owe(i, t, e),
         UNCHANGED <<closed, hubOf, topicOf, reading, got>>
  PROVE  /\ subs' \in [Instances -> SUBSET Subs]
         /\ closes' \in [Subs -> Nat]
         /\ queue' \in [Subs -> Seq(Events)]
         /\ \A s \in Subs : Len(queue'[s]) <= Buffer
         /\ owed' \in [Subs -> Seq(Events)]
         /\ Ownership' /\ Fresh' /\ ClosedOnce' /\ NoSilentGap'
<1> DEFINE to   == Registered(i, t)
           fits == {s \in to : Len(queue[s]) < Buffer}
<1>1. /\ subs \in [Instances -> SUBSET Subs]
      /\ hubOf \in [Subs -> Instances \cup {None}]
      /\ queue \in [Subs -> Seq(Events)]
      /\ \A s \in Subs : Len(queue[s]) <= Buffer
      /\ owed \in [Subs -> Seq(Events)]
      /\ got \in [Subs -> Seq(Events)]
      /\ \A j \in Instances : \A s \in subs[j] : hubOf[s] = j
      /\ \A j \in Instances : closed[j] => subs[j] = {}
      /\ Fresh
      /\ \A s \in Subs : Whole(s)
  BY WholeIsNoSilentGap DEF HubInv, TypeOK, HubTypeOK, Ownership
<1>2. /\ queue' = [s \in Subs |-> IF s \in fits THEN Append(queue[s], e) ELSE queue[s]]
      /\ RemoveLocked(i, to \ fits)
      /\ owed' = [s \in Subs |-> IF hubOf[s] = i /\ topicOf[s] = t
                                 THEN Append(owed[s], e) ELSE owed[s]]
      /\ hubOf' = hubOf /\ topicOf' = topicOf /\ reading' = reading /\ got' = got
      /\ closed' = closed
  BY DEF Deliver, Owe
<1>3. to \subseteq Subs /\ \A s \in to : hubOf[s] = i /\ topicOf[s] = t /\ s \in subs[i]
  BY <1>1 DEF Registered
<1>4. /\ subs' \in [Instances -> SUBSET Subs]
      /\ closes' \in [Subs -> Nat]
      /\ \A j \in Instances : subs'[j] = IF j = i THEN subs[i] \ (to \ fits) ELSE subs[j]
      /\ \A j \in Instances : \A s \in subs'[j] : hubOf'[s] = j
      /\ ClosedOnce'
  <2>1. (to \ fits) \in SUBSET Subs /\ \A s \in to \ fits : hubOf[s] = i
    BY <1>3
  <2> QED
    BY <1>2, <2>1, RemoveLockedClosesOnce
<1>5. Ownership'
  BY <1>1, <1>2, <1>4 DEF Ownership
<1>6. /\ queue' \in [Subs -> Seq(Events)]
      /\ \A s \in Subs : Len(queue'[s]) <= Buffer
  <2>1. ASSUME NEW s \in Subs
        PROVE  queue'[s] \in Seq(Events) /\ Len(queue'[s]) <= Buffer
    <3>1. CASE s \in fits
      BY <1>1, <1>2, <3>1, AppendProperties, LenProperties
    <3>2. CASE s \notin fits
      BY <1>1, <1>2, <3>2
    <3> QED
      BY <3>1, <3>2
  <2> QED
    BY <1>2, <2>1
<1>7. owed' \in [Subs -> Seq(Events)]
  BY <1>1, <1>2, AppendProperties
<1>8. Fresh'
  <2>1. ASSUME NEW s \in Subs, hubOf'[s] = None
        PROVE  queue'[s] = <<>> /\ owed'[s] = <<>> /\ got'[s] = <<>> /\ ~reading'[s]
    <3>1. s \notin fits /\ hubOf[s] # i
      BY <1>2, <1>3, <2>1
    <3> QED
      BY <1>1, <1>2, <2>1, <3>1 DEF Fresh
  <2> QED
    BY <2>1 DEF Fresh
<1>9. ASSUME NEW s \in Subs
      PROVE  /\ IsPrefix(got'[s] \o queue'[s], owed'[s])
             /\ \A j \in Instances : s \in subs'[j] => got'[s] \o queue'[s] = owed'[s]
  <2>1. /\ got[s] \in Seq(Events) /\ queue[s] \in Seq(Events) /\ owed[s] \in Seq(Events)
        /\ got[s] \o queue[s] \in Seq(Events)
        /\ IsPrefix(got[s] \o queue[s], owed[s])
        /\ \A j \in Instances : s \in subs[j] => got[s] \o queue[s] = owed[s]
    BY <1>1, ConcatProperties DEF Whole
  <2>2. CASE s \in fits
    <3>1. got[s] \o queue[s] = owed[s]
      BY <1>3, <2>1, <2>2
    <3>2. queue'[s] = Append(queue[s], e) /\ owed'[s] = Append(owed[s], e) /\ got'[s] = got[s]
      BY <1>2, <1>3, <2>2
    <3>3. got'[s] \o queue'[s] = owed'[s] /\ owed'[s] \in Seq(Events)
      <4>1. got[s] \o Append(queue[s], e) = Append(got[s] \o queue[s], e)
        <5>1. got[s] \in Seq(Events) /\ queue[s] \in Seq(Events)
          BY <2>1
        <5>2. \A g, q \in Seq(Events) : g \o Append(q, e) = Append(g \o q, e)
          BY ConcatAppend
        <5> QED
          BY <5>1, <5>2, Zenon
      <4>2. Append(owed[s], e) \in Seq(Events)
        BY <2>1, AppendProperties
      <4> QED
        BY <3>1, <3>2, <4>1, <4>2
    <3>4. IsPrefix(owed'[s], owed'[s])
      BY <3>3, PrefixRefl
    <3> QED
      BY <3>3, <3>4
  <2>3. CASE s \notin fits /\ hubOf[s] = i /\ topicOf[s] = t
    <3>1. \A j \in Instances : s \notin subs'[j]
      BY <1>1, <1>4, <2>3 DEF Registered
    <3>2. queue'[s] = queue[s] /\ owed'[s] = Append(owed[s], e) /\ got'[s] = got[s]
      BY <1>2, <2>3
    <3>3. IsPrefix(got[s] \o queue[s], Append(owed[s], e))
      BY <2>1, PrefixAppend
    <3> QED
      BY <3>1, <3>2, <3>3
  <2>4. CASE s \notin fits /\ ~(hubOf[s] = i /\ topicOf[s] = t)
    BY <1>2, <1>4, <2>1, <2>4
  <2> QED
    BY <2>2, <2>3, <2>4
<1>10. NoSilentGap'
  <2>1. ASSUME NEW s \in Subs, s \in UNION {subs'[j] : j \in Instances}
        PROVE  got'[s] \o queue'[s] = owed'[s]
    BY <1>9, <2>1
  <2> QED
    BY <1>9, <2>1 DEF NoSilentGap
<1> QED
  BY <1>4, <1>5, <1>6, <1>7, <1>8, <1>10

-----------------------------------------------------------------------------
(* The invariant, action by action.                                        *)

LEMMA SubscribePreserves ==
  ASSUME HubInv, NEW i \in Instances, NEW s \in Subs, NEW t \in Topics, Subscribe(i, s, t), UNCHANGED history
  PROVE  HubInv'
<1>1. /\ hubOf[s] = None /\ i # None
      /\ hubOf' = [hubOf EXCEPT ![s] = i] /\ topicOf' = [topicOf EXCEPT ![s] = t]
      /\ reading' = [reading EXCEPT ![s] = TRUE]
      /\ \/ closed[i] /\ closes' = [closes EXCEPT ![s] = @ + 1] /\ subs' = subs
         \/ ~closed[i] /\ closes' = closes /\ subs' = [subs EXCEPT ![i] = @ \cup {s}]
      /\ queue' = queue /\ got' = got /\ owed' = owed /\ closed' = closed
  BY DEF Subscribe, history
<1>2. TypeOK /\ TypeOK'
  <2>1. TypeOK
    BY DEF HubInv
  <2>2. subs' \in [Instances -> SUBSET Subs] /\ closes' \in [Subs -> Nat]
    <3>1. subs \in [Instances -> SUBSET Subs] /\ closes \in [Subs -> Nat]
      BY <2>1 DEF TypeOK, HubTypeOK
    <3>2. CASE closed[i]
      BY <1>1, <3>1, <3>2
    <3>3. CASE ~closed[i]
      BY <1>1, <3>1, <3>3
    <3> QED
      BY <3>2, <3>3
  <2>3. /\ hubOf' \in [Subs -> Instances \cup {None}]
        /\ topicOf' \in [Subs -> Topics \cup {None}]
        /\ reading' \in [Subs -> BOOLEAN]
    BY <1>1, <2>1 DEF TypeOK, HubTypeOK
  <2>4. UNCHANGED <<closed, queue, relay, inbox, inhand, closer, pending, sent, owed, got>>
    BY DEF Subscribe, history
  <2> QED
    BY <2>1, <2>2, <2>3, <2>4 DEF TypeOK, HubTypeOK
<1>3. \A j \in Instances : s \notin subs[j]
  BY <1>1 DEF HubInv, Ownership
<1>9. \A j \in Instances :
        subs'[j] = IF j = i /\ ~closed[i] THEN subs[j] \cup {s} ELSE subs[j]
  <2>1. subs \in [Instances -> SUBSET Subs]
    BY <1>2 DEF TypeOK, HubTypeOK
  <2>2. CASE closed[i]
    BY <1>1, <2>1, <2>2
  <2>3. CASE ~closed[i]
    BY <1>1, <2>1, <2>3
  <2> QED
    BY <2>2, <2>3
<1>4. Ownership'
  <2>1. CASE closed[i]
    <3>1. /\ subs' = subs /\ closed' = closed
          /\ \A r \in Subs : r # s => hubOf'[r] = hubOf[r]
      BY <1>1, <1>2, <2>1 DEF TypeOK, HubTypeOK
    <3>2. \A j \in Instances : subs[j] \subseteq Subs \ {s}
      BY <1>2, <1>3 DEF TypeOK, HubTypeOK
    <3> QED
      BY <3>1, <3>2 DEF HubInv, Ownership
  <2>2. CASE ~closed[i]
    <3>1. \A j \in Instances : subs'[j] = IF j = i THEN subs[i] \cup {s} ELSE subs[j]
      BY <1>1, <1>2, <2>2 DEF TypeOK, HubTypeOK
    <3>2. \A r \in Subs : hubOf'[r] = IF r = s THEN i ELSE hubOf[r]
      BY <1>1, <1>2 DEF TypeOK, HubTypeOK
    <3>3. \A j \in Instances : subs[j] \subseteq Subs
      BY <1>2 DEF TypeOK, HubTypeOK
    <3> QED
      BY <1>1, <1>3, <2>2, <3>1, <3>2, <3>3 DEF HubInv, Ownership
  <2> QED
    BY <2>1, <2>2
<1>5. Fresh'
  BY <1>1, <1>2 DEF HubInv, Fresh, TypeOK, HubTypeOK
<1>6. ASSUME NEW r \in Subs
      PROVE  closes'[r] = IF hubOf'[r] = None \/ r \in subs'[hubOf'[r]] THEN 0 ELSE 1
  <2>1. closes[r] = IF hubOf[r] = None \/ r \in subs[hubOf[r]] THEN 0 ELSE 1
    BY DEF HubInv, ClosedOnce
  <2>2. CASE r = s
    <3>1. hubOf'[r] = i /\ closes[r] = 0 /\ closes'[r] = IF closed[i] THEN 1 ELSE 0
      BY <1>1, <1>2, <2>1, <2>2 DEF TypeOK, HubTypeOK
    <3>2. r \in subs'[i] <=> ~closed[i]
      BY <1>1, <1>2, <1>3, <2>2 DEF TypeOK, HubTypeOK
    <3> QED
      BY <1>1, <3>1, <3>2
  <2>3. CASE r # s
    <3>1. hubOf'[r] = hubOf[r] /\ closes'[r] = closes[r] /\ hubOf[r] \in Instances \cup {None}
      BY <1>1, <1>2, <2>3 DEF TypeOK, HubTypeOK
    <3>2. \A j \in Instances : r \in subs'[j] <=> r \in subs[j]
      BY <1>9, <2>3
    <3> QED
      BY <2>1, <3>1, <3>2
  <2> QED
    BY <2>2, <2>3
<1>7. NoSilentGap'
  <2>1. ASSUME NEW r \in Subs
        PROVE  /\ IsPrefix(got[r] \o queue[r], owed[r])
               /\ \A j \in Instances : r \in subs'[j] => got[r] \o queue[r] = owed[r]
    <3>1. CASE r = s
      <4>1. got[r] = <<>> /\ queue[r] = <<>> /\ owed[r] = <<>>
        BY <1>1, <3>1 DEF HubInv, Fresh
      <4>2. <<>> \o <<>> = <<>> /\ <<>> \in Seq(Events)
        OBVIOUS
      <4>3. IsPrefix(<<>>, <<>>)
        BY <4>2, PrefixRefl
      <4> QED
        BY <4>1, <4>2, <4>3
    <3>2. CASE r # s
      <4>1. \A j \in Instances : r \in subs'[j] => r \in subs[j]
        BY <1>9, <3>2
      <4>2. Whole(r)
        BY WholeIsNoSilentGap DEF HubInv
      <4> QED
        BY <4>1, <4>2 DEF Whole
    <3> QED
      BY <3>1, <3>2
  <2> QED
    BY <1>1, <2>1 DEF NoSilentGap
<1> QED
  BY <1>2, <1>4, <1>5, <1>6, <1>7 DEF HubInv, ClosedOnce

LEMMA TakePreserves ==
  ASSUME HubInv, NEW s \in Subs, Take(s)
  PROVE  HubInv'
<1>1. /\ reading[s] /\ queue[s] # <<>>
      /\ got' = [got EXCEPT ![s] = Append(@, Head(queue[s]))]
      /\ queue' = [queue EXCEPT ![s] = Tail(@)]
      /\ UNCHANGED <<closed, subs, hubOf, topicOf, closes, reading, relay, inbox,
                     inhand, closer, pending, sent, owed>>
  BY DEF Take, Receive
<1>2. TypeOK
  BY DEF HubInv
<1>3. /\ Append(got[s], Head(queue[s])) \o Tail(queue[s]) = got[s] \o queue[s]
      /\ Append(got[s], Head(queue[s])) \in Seq(Events)
      /\ Tail(queue[s]) \in Seq(Events)
      /\ Len(Tail(queue[s])) = Len(queue[s]) - 1
  <2>1. got[s] \in Seq(Events) /\ queue[s] \in Seq(Events) /\ queue[s] # <<>>
    BY <1>1, <1>2 DEF TypeOK, HubTypeOK
  <2> QED
    BY <2>1, MoveHead
<1>4. TypeOK'
  <2>1. got' \in [Subs -> Seq(Events)] /\ queue' \in [Subs -> Seq(Events)]
    BY <1>1, <1>2, <1>3 DEF TypeOK, HubTypeOK
  <2>2. \A r \in Subs : Len(queue'[r]) <= Buffer
    BY <1>1, <1>2, <1>3, LenProperties DEF TypeOK, HubTypeOK
  <2> QED
    BY <1>1, <1>2, <2>1, <2>2 DEF TypeOK, HubTypeOK
<1>5. Ownership' /\ ClosedOnce'
  BY <1>1 DEF HubInv, Ownership, ClosedOnce
<1>6. Fresh'
  <2>1. hubOf[s] # None
    BY <1>1 DEF HubInv, Fresh
  <2> QED
    BY <1>1, <1>2, <2>1 DEF HubInv, Fresh, TypeOK, HubTypeOK
<1>7. \A r \in Subs : got'[r] \o queue'[r] = got[r] \o queue[r]
  BY <1>1, <1>2, <1>3 DEF TypeOK, HubTypeOK
<1>8. NoSilentGap'
  BY <1>1, <1>7 DEF HubInv, NoSilentGap
<1> QED
  BY <1>4, <1>5, <1>6, <1>8 DEF HubInv

LEMMA StopReadingPreserves ==
  ASSUME HubInv, NEW s \in Subs, StopReading(s), UNCHANGED history
  PROVE  HubInv'
<1>1. /\ reading[s] /\ reading' = [reading EXCEPT ![s] = FALSE]
      /\ RemoveLocked(hubOf[s], {s})
      /\ UNCHANGED <<closed, hubOf, topicOf, queue, relay, inbox, inhand, closer,
                     pending, sent, owed, got>>
  BY DEF StopReading, history
<1>2. TypeOK
  BY DEF HubInv
<1>3. hubOf[s] \in Instances
  BY <1>1, <1>2 DEF HubInv, Fresh, TypeOK, HubTypeOK
<1>4. /\ subs' \in [Instances -> SUBSET Subs]
      /\ closes' \in [Subs -> Nat]
      /\ \A j \in Instances : subs'[j] = IF j = hubOf[s] THEN subs[j] \ {s} ELSE subs[j]
      /\ \A j \in Instances : \A r \in subs'[j] : hubOf'[r] = j
      /\ ClosedOnce'
  <2>1. PICK i \in Instances : i = hubOf[s]
    BY <1>3
  <2>2. {s} \in SUBSET Subs /\ \A r \in {s} : hubOf[r] = i
    BY <2>1
  <2>3. RemoveLocked(i, {s}) /\ UNCHANGED <<hubOf>>
    BY <1>1, <2>1
  <2>4. /\ subs' \in [Instances -> SUBSET Subs]
        /\ closes' \in [Subs -> Nat]
        /\ \A j \in Instances : subs'[j] = IF j = i THEN subs[i] \ {s} ELSE subs[j]
        /\ \A j \in Instances : \A r \in subs'[j] : hubOf'[r] = j
        /\ ClosedOnce'
    BY <2>2, <2>3, RemoveLockedClosesOnce
  <2> QED
    BY <2>1, <2>4
<1>5. TypeOK'
  BY <1>1, <1>2, <1>4 DEF TypeOK, HubTypeOK
<1>6. Ownership'
  BY <1>1, <1>4 DEF HubInv, Ownership
<1>7. NoSilentGap' /\ Fresh'
  <2>1. \A j \in Instances : subs'[j] \subseteq subs[j]
    BY <1>4
  <2>2. \A r \in Subs : reading'[r] => reading[r]
    BY <1>1, <1>2 DEF TypeOK, HubTypeOK
  <2> QED
    BY <1>1, <1>5, <2>1, <2>2, FeedsKept
<1> QED
  BY <1>4, <1>5, <1>6, <1>7 DEF HubInv

LEMMA CloseHubPreserves ==
  ASSUME HubInv, NEW i \in Instances, CloseHub(i), UNCHANGED history
  PROVE  HubInv'
<1>1. /\ closed' = [closed EXCEPT ![i] = TRUE]
      /\ RemoveLocked(i, subs[i])
      /\ closer' = [closer EXCEPT ![i] = "cancel"]
      /\ UNCHANGED <<hubOf, topicOf, queue, reading, relay, inbox, inhand,
                     pending, sent, owed, got>>
  BY DEF CloseHub, history
<1>2. TypeOK
  BY DEF HubInv
<1>3. /\ subs' \in [Instances -> SUBSET Subs]
      /\ closes' \in [Subs -> Nat]
      /\ \A j \in Instances : subs'[j] = IF j = i THEN {} ELSE subs[j]
      /\ \A j \in Instances : \A r \in subs'[j] : hubOf'[r] = j
      /\ ClosedOnce'
  <2>1. subs[i] \in SUBSET Subs /\ \A r \in subs[i] : hubOf[r] = i
    BY <1>2 DEF TypeOK, HubTypeOK, HubInv, Ownership
  <2>2. UNCHANGED <<hubOf>>
    BY <1>1
  <2>3. subs[i] \ subs[i] = {}
    OBVIOUS
  <2> QED
    BY <1>1, <2>1, <2>2, <2>3, RemoveLockedClosesOnce
<1>4. TypeOK'
  <2>1. closed' \in [Instances -> BOOLEAN] /\ closer' \in [Instances -> {"open", "cancel", "wait", "returned"}]
    BY <1>1, <1>2 DEF TypeOK, HubTypeOK
  <2> QED
    BY <1>1, <1>2, <1>3, <2>1 DEF TypeOK, HubTypeOK
<1>5. Ownership'
  <2>1. \A j \in Instances : closed'[j] => closed[j] \/ j = i
    BY <1>1, <1>2 DEF TypeOK, HubTypeOK
  <2> QED
    BY <1>3, <2>1 DEF HubInv, Ownership
<1>6. NoSilentGap' /\ Fresh'
  <2>1. \A j \in Instances : subs'[j] \subseteq subs[j]
    BY <1>3
  <2> QED
    BY <1>1, <1>4, <2>1, FeedsKept
<1> QED
  BY <1>3, <1>4, <1>5, <1>6 DEF HubInv

\* Steps that leave the subscriptions and their channels alone.
LEMMA SubscriptionsUntouched ==
  ASSUME HubInv, TypeOK',
         UNCHANGED <<closed, subs, hubOf, topicOf, queue, closes, reading, owed, got>>
  PROVE  HubInv'
BY DEF HubInv, Ownership, Fresh, ClosedOnce, NoSilentGap

\* Redis only ever hands over messages.
LEMMA BroadcastType ==
  ASSUME TypeOK, NEW m \in Message, Broadcast(m)
  PROVE  inbox' \in [Instances -> Seq(Message)]
<1>1. inbox \in [Instances -> Seq(Message)]
  BY DEF TypeOK, HubTypeOK
<1>2. \A i \in Instances : Append(inbox[i], m) \in Seq(Message)
  BY <1>1, AppendProperties
<1> QED
  BY <1>1, <1>2 DEF Broadcast

LEMMA PublishersPreserve ==
  ASSUME HubInv, NEW p \in Publishers,
         \/ \E i \in Instances, t \in Topics, e \in Events : PublishOnce(p, i, t, e)
         \/ (PublishToRedis(p) \/ PublishRejected(p)) /\ UNCHANGED history
         \/ DeliverLocally(p)
  PROVE  HubInv'
<1> DEFINE Pending == /\ DOMAIN pending \subseteq Publishers
                      /\ \A q \in DOMAIN pending : pending[q] \in Publication
<1>1. TypeOK /\ Pending
  BY DEF HubInv, TypeOK, HubTypeOK
<1>2. ASSUME NEW i \in Instances, NEW t \in Topics, NEW e \in Events, PublishOnce(p, i, t, e)
      PROVE  HubInv'
  <2>1. Pending'
    BY <1>1, <1>2 DEF PublishOnce, BeginPublish, Submit, Publication
  <2>2. sent' \subseteq Events
    BY <1>1, <1>2 DEF PublishOnce, BeginPublish, TypeOK, HubTypeOK
  <2>3. TypeOK'
    BY <1>1, <1>2, <2>1, <2>2 DEF PublishOnce, BeginPublish, TypeOK, HubTypeOK
  <2> QED
    BY <1>2, <2>3, SubscriptionsUntouched DEF PublishOnce, BeginPublish
<1>3. CASE PublishToRedis(p) /\ UNCHANGED history
  <2>1. p \in DOMAIN pending /\ <<pending[p].topic, pending[p].event>> \in Message
    BY <1>1, <1>3 DEF PublishToRedis, Publication, Message
  <2>2. inbox' \in [Instances -> Seq(Message)]
    BY <1>1, <1>3, <2>1, BroadcastType DEF PublishToRedis
  <2>3. Pending'
    BY <1>1, <1>3 DEF PublishToRedis, Done
  <2>4. TypeOK'
    BY <1>1, <1>3, <2>2, <2>3 DEF PublishToRedis, history, TypeOK, HubTypeOK
  <2> QED
    BY <1>3, <2>4, SubscriptionsUntouched DEF PublishToRedis, history
<1>4. CASE PublishRejected(p) /\ UNCHANGED history
  <2>1. p \in DOMAIN pending /\ <<pending[p].topic, pending[p].event>> \in Message
    BY <1>1, <1>4 DEF PublishRejected, Publication, Message
  <2>2. inbox' \in [Instances -> Seq(Message)]
    BY <1>1, <1>4, <2>1, BroadcastType DEF PublishRejected, TypeOK, HubTypeOK
  <2>3. Pending'
    BY <1>1, <1>4 DEF PublishRejected, Publication
  <2>4. TypeOK'
    BY <1>1, <1>4, <2>2, <2>3 DEF PublishRejected, history, TypeOK, HubTypeOK
  <2> QED
    BY <1>4, <2>4, SubscriptionsUntouched DEF PublishRejected, history
<1>5. CASE DeliverLocally(p)
  <2>1. PICK i \in Instances, t \in Topics, e \in Events :
          i = pending[p].hub /\ t = pending[p].topic /\ e = pending[p].event
    BY <1>1, <1>5 DEF DeliverLocally, PublishLocally, Publication
  <2>2. /\ subs' \in [Instances -> SUBSET Subs]
        /\ closes' \in [Subs -> Nat]
        /\ queue' \in [Subs -> Seq(Events)]
        /\ \A s \in Subs : Len(queue'[s]) <= Buffer
        /\ owed' \in [Subs -> Seq(Events)]
        /\ Ownership' /\ Fresh' /\ ClosedOnce' /\ NoSilentGap'
    BY <1>5, <2>1, DeliverPreserves DEF DeliverLocally, PublishLocally
  <2>3. Pending'
    BY <1>1, <1>5 DEF DeliverLocally, PublishLocally, Done
  <2>4. UNCHANGED <<closed, hubOf, topicOf, reading, relay, inbox, inhand, closer, sent, got>>
    BY <1>5 DEF DeliverLocally, PublishLocally
  <2>5. TypeOK'
    BY <1>1, <2>2, <2>3, <2>4 DEF TypeOK, HubTypeOK
  <2> QED
    BY <2>2, <2>5 DEF HubInv
<1> QED
  BY <1>2, <1>3, <1>4, <1>5

LEMMA RelayPreserves ==
  ASSUME HubInv, NEW i \in Instances,
         \/ DeliverRelayed(i)
         \/ /\ RelayReceive(i) \/ RelayExit(i) \/ RelayLoses(i) \/ CloseStep(i)
            /\ UNCHANGED history
  PROVE  HubInv'
<1>1. TypeOK
  BY DEF HubInv
<1>2. CASE RelayReceive(i) /\ UNCHANGED history
  <2>1. inbox[i] \in Seq(Message) /\ inbox[i] # <<>>
    BY <1>1, <1>2 DEF RelayReceive, TypeOK, HubTypeOK
  <2>2. Head(inbox[i]) \in Message /\ Tail(inbox[i]) \in Seq(Message)
    BY <2>1, HeadTailProperties
  <2>3. inhand' \in [Instances -> Seq(Message)] /\ inbox' \in [Instances -> Seq(Message)]
    BY <1>1, <1>2, <2>2 DEF RelayReceive, TypeOK, HubTypeOK
  <2>4. TypeOK'
    BY <1>1, <1>2, <2>3 DEF RelayReceive, history, TypeOK, HubTypeOK
  <2> QED
    BY <1>2, <2>4, SubscriptionsUntouched DEF RelayReceive, history
<1>3. CASE DeliverRelayed(i)
  <2>1. inhand[i] \in Seq(Message) /\ inhand[i] # <<>>
    BY <1>1, <1>3 DEF DeliverRelayed, RelayDeliver, TypeOK, HubTypeOK
  <2>2. Head(inhand[i]) \in Message
    BY <2>1, HeadTailProperties
  <2>3. PICK t \in Topics, e \in Events : t = Head(inhand[i])[1] /\ e = Head(inhand[i])[2]
    BY <2>2 DEF Message
  <2>4. /\ subs' \in [Instances -> SUBSET Subs]
        /\ closes' \in [Subs -> Nat]
        /\ queue' \in [Subs -> Seq(Events)]
        /\ \A s \in Subs : Len(queue'[s]) <= Buffer
        /\ owed' \in [Subs -> Seq(Events)]
        /\ Ownership' /\ Fresh' /\ ClosedOnce' /\ NoSilentGap'
    BY <1>3, <2>3, DeliverPreserves DEF DeliverRelayed, RelayDeliver
  <2>5. inhand' \in [Instances -> Seq(Message)]
    BY <1>1, <1>3 DEF DeliverRelayed, RelayDeliver, TypeOK, HubTypeOK
  <2>6. UNCHANGED <<closed, hubOf, topicOf, reading, relay, inbox, closer, pending, sent, got>>
    BY <1>3 DEF DeliverRelayed, RelayDeliver
  <2>7. TypeOK'
    BY <1>1, <2>4, <2>5, <2>6 DEF TypeOK, HubTypeOK
  <2> QED
    BY <2>4, <2>7 DEF HubInv
<1>4. CASE (RelayExit(i) \/ RelayLoses(i)) /\ UNCHANGED history
  <2>1. inbox' \in [Instances -> Seq(Message)] /\ relay' \in [Instances -> {"running", "canceled", "done"}]
    <3>1. /\ inbox \in [Instances -> Seq(Message)] /\ <<>> \in Seq(Message)
          /\ relay \in [Instances -> {"running", "canceled", "done"}]
      BY <1>1 DEF TypeOK, HubTypeOK
    <3>2. CASE RelayExit(i)
      BY <3>1, <3>2 DEF RelayExit
    <3>3. CASE RelayLoses(i)
      BY <3>1, <3>3 DEF RelayLoses
    <3> QED
      BY <1>4, <3>2, <3>3
  <2>2. UNCHANGED <<closed, subs, hubOf, topicOf, queue, closes, reading, inhand, closer, pending, sent, owed, got>>
    BY <1>4 DEF RelayExit, RelayLoses, history
  <2>3. TypeOK'
    BY <1>1, <2>1, <2>2 DEF TypeOK, HubTypeOK
  <2> QED
    BY <2>2, <2>3, SubscriptionsUntouched
<1>5. CASE CloseStep(i) /\ UNCHANGED history
  <2>1. /\ relay' \in [Instances -> {"running", "canceled", "done"}]
        /\ closer' \in [Instances -> {"open", "cancel", "wait", "returned"}]
    BY <1>1, <1>5 DEF CloseStep, CloseCancel, CloseReturn, TypeOK, HubTypeOK
  <2>2. UNCHANGED <<closed, subs, hubOf, topicOf, queue, closes, reading, inbox, inhand, pending, sent, owed, got>>
    BY <1>5 DEF CloseStep, CloseCancel, CloseReturn, history
  <2>3. TypeOK'
    BY <1>1, <2>1, <2>2 DEF TypeOK, HubTypeOK
  <2> QED
    BY <2>2, <2>3, SubscriptionsUntouched
<1> QED
  BY <1>2, <1>3, <1>4, <1>5

-----------------------------------------------------------------------------
(* The theorems.                                                           *)

\* Every reachable state of the hub satisfies the inductive invariant.
THEOREM HubInvariance == Spec => []HubInv
<1>1. Init => HubInv
  <2> SUFFICES ASSUME Init PROVE HubInv
    OBVIOUS
  <2>1. TypeOK
    BY DEF Init, HubInit, TypeOK, HubTypeOK
  <2>2. <<>> \o <<>> = <<>> /\ IsPrefix(<<>>, <<>>)
    <3>1. <<>> \in Seq(Events) /\ <<>> \o <<>> = <<>>
      OBVIOUS
    <3> QED
      BY <3>1, PrefixRefl
  <2>3. NoSilentGap
    BY <2>2 DEF Init, HubInit, NoSilentGap
  <2> QED
    BY <2>1, <2>3 DEF Init, HubInit, HubInv, Ownership, Fresh, ClosedOnce
<1>2. HubInv /\ [Next]_vars => HubInv'
  <2> SUFFICES ASSUME HubInv, [Next]_vars PROVE HubInv'
    OBVIOUS
  <2>1. CASE Bookkeeping /\ UNCHANGED history
    <3>1. CASE \E i \in Instances, s \in Subs, t \in Topics : Subscribe(i, s, t)
      BY <2>1, <3>1, SubscribePreserves
    <3>2. CASE \E s \in Subs : EndOfStream(s) \/ GiveUp(s)
      BY <2>1, <3>2, StopReadingPreserves DEF EndOfStream, GiveUp
    <3>3. CASE \E p \in Publishers : PublishToRedis(p) \/ PublishRejected(p)
      BY <2>1, <3>3, PublishersPreserve
    <3>4. CASE \E i \in Instances :
                 RelayReceive(i) \/ RelayExit(i) \/ RelayLoses(i) \/ CloseHub(i) \/ CloseStep(i)
      BY <2>1, <3>4, RelayPreserves, CloseHubPreserves
    <3> QED
      BY <2>1, <3>1, <3>2, <3>3, <3>4 DEF Bookkeeping
  <2>2. CASE \E p \in Publishers, i \in Instances, t \in Topics, e \in Events : PublishOnce(p, i, t, e)
    BY <2>2, PublishersPreserve
  <2>3. CASE \E s \in Subs : Take(s)
    BY <2>3, TakePreserves
  <2>4. CASE \E p \in Publishers : DeliverLocally(p)
    BY <2>4, PublishersPreserve
  <2>5. CASE \E i \in Instances : DeliverRelayed(i)
    BY <2>5, RelayPreserves
  <2>6. CASE UNCHANGED vars
    <3>1. TypeOK'
      BY <2>6 DEF HubInv, TypeOK, HubTypeOK, vars, hubVars, history
    <3> QED
      BY <2>6, <3>1, SubscriptionsUntouched DEF vars, hubVars, history
  <2> QED
    BY <2>1, <2>2, <2>3, <2>4, <2>5, <2>6 DEF Next
<1> QED
  BY <1>1, <1>2, PTL DEF Spec

\* The hub's variables keep their types, and no channel overflows.
THEOREM HubTypeCorrect == Spec => []TypeOK
BY HubInvariance, PTL DEF HubInv

\* deliver never leaves a subscriber registered that missed an event.
THEOREM FeedsHaveNoGap == Spec => []NoSilentGap
BY HubInvariance, PTL DEF HubInv

\* No interleaving of Close, sub.Close and deliver closes a channel twice.
THEOREM ChannelsClosedOnce == Spec => []ClosedOnce
BY HubInvariance, PTL DEF HubInv
=============================================================================
