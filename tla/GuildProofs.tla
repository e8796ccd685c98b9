---------------------------- MODULE GuildProofs -----------------------------
(***************************************************************************)
(* Theorems on guilds, channels and messages for any number of guilds,     *)
(* users, concurrent requests, channels and messages, with the hubs and    *)
(* the event streams running beside them.                                  *)
(***************************************************************************)
EXTENDS GuildInvariant, FiniteSetTheorems, TLAPS

USE GuildAssumption

-----------------------------------------------------------------------------
(* How requests move.                                                      *)

\* The step is request r's: it touches no other request.
OthersStay(r) ==
  /\ DOMAIN call' \ {r} = DOMAIN call \ {r}
  /\ \A q \in DOMAIN call \ {r} : call'[q] = call[q]
  /\ \A q \in Requests \ {r} : pc'[q] = pc[q]

\* The types of the request variables, and which requests are idle.
RequestsTypeOK ==
  /\ DOMAIN call \subseteq Requests
  /\ call \in [DOMAIN call -> Call]
  /\ pc \in [Requests -> {"idle", "member", "replyTo", "author", "write", "insert", "reread"}]
  /\ \A r \in Requests : Idle(r) <=> r \notin DOMAIN call

LEMMA Returns ==
  ASSUME RequestsTypeOK, NEW r \in Requests, Return(r)
  PROVE  OthersStay(r) /\ RequestsTypeOK' /\ r \notin DOMAIN call'
  BY DEF RequestsTypeOK, Return, Goto, Restrict, OthersStay, Idle

LEMMA Moves ==
  ASSUME RequestsTypeOK, NEW r \in DOMAIN call, UNCHANGED call,
         NEW label \in {"write", "reread"}, Goto(r, label)
  PROVE  OthersStay(r) /\ RequestsTypeOK' /\ r \in DOMAIN call' /\ pc'[r] = label
  BY DEF RequestsTypeOK, Goto, OthersStay, Idle

LEMMA Enters ==
  ASSUME RequestsTypeOK, NEW r \in Requests, NEW c \in Call,
         NEW label \in {"member", "replyTo", "author", "write"}, Enter(r, c, label)
  PROVE  OthersStay(r) /\ RequestsTypeOK' /\ r \in DOMAIN call' /\ call'[r] = c /\ pc'[r] = label
  BY DEF RequestsTypeOK, Enter, Goto, OthersStay, Idle

\* A local of r is assigned.
LEMMA Assigns ==
  ASSUME RequestsTypeOK, NEW r \in DOMAIN call, NEW c \in Call,
         call' = [call EXCEPT ![r] = c],
         NEW label \in {"write", "insert"}, Goto(r, label)
  PROVE  OthersStay(r) /\ RequestsTypeOK' /\ r \in DOMAIN call' /\ call'[r] = c /\ pc'[r] = label
  BY DEF RequestsTypeOK, Goto, OthersStay, Idle

-----------------------------------------------------------------------------
(* What the steps of r leave to the other requests.                        *)

\* Every message row was there before, of the same author and channel, or is
\* the one r was inserting.
RowsStay(r) ==
  \A m \in DOMAIN messages' :
    \/ /\ m \in DOMAIN messages
       /\ messages'[m].channel = messages[m].channel
       /\ messages'[m].author = messages[m].author
    \/ r \in DOMAIN call /\ Inserting(r) /\ m = call[r].message

\* No guild that had an id comes back, or changes hands.
GuildsStay ==
  /\ usedIds \subseteq usedIds'
  /\ \A g \in usedIds \cap DOMAIN guilds' :
       g \in DOMAIN guilds /\ guilds'[g].owner = guilds[g].owner

\* An id r starts to insert is a new one.
DrawsAnew(r) ==
  /\ lastId \in Nat /\ lastId' \in Nat /\ lastId <= lastId'
  /\ r \in DOMAIN call' /\ Inserting(r)' => call'[r].message \notin 1..lastId

\* The copies that the other requests rely on stay good.
LEMMA CallsStep ==
  ASSUME CallsOK, DOMAIN call \subseteq Requests, RequestsTypeOK', NEW r,
         OthersStay(r), RowsStay(r), GuildsStay, DrawsAnew(r),
         r \in DOMAIN call' => CallOK(r)'
  PROVE  CallsOK'
  <1>1. SUFFICES ASSUME NEW q \in DOMAIN call', q # r
                 PROVE  CallOK(q)'
    BY DEF CallsOK, RequestsTypeOK
  <1>2. /\ q \in DOMAIN call /\ q \in Requests
        /\ call'[q] = call[q] /\ pc'[q] = pc[q]
    BY <1>1 DEF OthersStay
  <1>3. CallOK(q)
    BY <1>2 DEF CallsOK
  <1>4. ASSUME NEW m, Settled(m)
        PROVE  Settled(m)'
    BY <1>4 DEF Settled, OthersStay, DrawsAnew, Inserting
  <1>5. ASSUME NEW m, Settled(m), m \in DOMAIN messages'
        PROVE  /\ m \in DOMAIN messages
               /\ messages'[m].channel = messages[m].channel
               /\ messages'[m].author = messages[m].author
    BY <1>5 DEF Settled, RowsStay
  <1>6. StepFits(q)'
    BY <1>2, <1>3 DEF CallOK, StepFits
  <1>7. DrawnOK(q)'
    BY <1>1, <1>2, <1>3 DEF CallOK, CallsOK, DrawnOK, OthersStay, RowsStay, DrawsAnew, Inserting
  <1>8. ReplyOK(q)'
    BY <1>2, <1>3, <1>4, <1>5 DEF CallOK, ReplyOK, Inserting, Writing
  <1>9. EditOK(q)'
    BY <1>2, <1>3, <1>4, <1>5 DEF CallOK, EditOK, Writing
  <1>10. LeaveOK(q)'
    BY <1>2, <1>3 DEF CallOK, LeaveOK, GuildsStay, Writing
  <1> QED BY <1>6, <1>7, <1>8, <1>9, <1>10 DEF CallOK

-----------------------------------------------------------------------------
(* Guilds and members.                                                     *)

\* The types of the tables of guilds, members and channels.
TablesTypeOK ==
  /\ DOMAIN guilds \subseteq Guild
  /\ guilds \in [DOMAIN guilds -> GuildRow]
  /\ DOMAIN members \subseteq Guild \X Users
  /\ members \in [DOMAIN members -> Role]
  /\ DOMAIN channels \subseteq Channels
  /\ channels \in [DOMAIN channels -> ChannelRow]
  /\ usedIds \subseteq Guild \cup Channels

\* What every write to them keeps.
TablesOK == TablesTypeOK /\ IdsOK /\ SeatsOK

LEMMA TablesKept ==
  ASSUME TablesOK, UNCHANGED <<guilds, members, channels, usedIds>>
  PROVE  TablesOK' /\ GuildsStay
  <1>1. \A g : MembersOf(g)' = MembersOf(g)
    BY DEF MembersOf
  <1>2. SeatsOK'
    <2>1. OwnerKeepsSeat'
      BY DEF TablesOK, SeatsOK, OwnerKeepsSeat, RoleOf
    <2> QED BY <1>1, <2>1 DEF TablesOK, SeatsOK, MemberCountExact
  <1> QED BY <1>2 DEF TablesOK, TablesTypeOK, IdsOK, GuildsStay

LEMMA AddMemberStep ==
  ASSUME TablesOK, NEW g \in Guild, NEW u \in Users, AddMember(g, u), UNCHANGED <<channels, usedIds>>
  PROVE  TablesOK' /\ GuildsStay
  <1>1. CASE UNCHANGED <<guilds, members>>
    BY <1>1, TablesKept
  <1>2. CASE /\ g \in DOMAIN guilds
             /\ <<g, u>> \notin DOMAIN members
             /\ members' = [x \in DOMAIN members \cup {<<g, u>>} |->
                              IF x = <<g, u>> THEN "member" ELSE members[x]]
             /\ CountMember(g, 1)
    <2>1. /\ DOMAIN guilds' = DOMAIN guilds
          /\ \A h \in DOMAIN guilds : h # g => guilds'[h] = guilds[h]
          /\ guilds[g] \in GuildRow
          /\ guilds'[g].owner = guilds[g].owner
          /\ guilds'[g].memberCount = guilds[g].memberCount + 1
      BY <1>2 DEF CountMember, TablesOK, TablesTypeOK, GuildRow
    <2>2. TablesTypeOK'
      <3>1. guilds' \in [DOMAIN guilds' -> GuildRow]
        BY <1>2, <2>1 DEF CountMember, TablesOK, TablesTypeOK, GuildRow
      <3> QED BY <1>2, <2>1, <3>1 DEF TablesOK, TablesTypeOK, Role
    <2>3. OwnerKeepsSeat'
      <3>1. \A h \in DOMAIN guilds : guilds'[h].owner = guilds[h].owner
        BY <2>1
      <3>2. \A m \in DOMAIN members : m # <<g, u>> /\ members'[m] = members[m]
        BY <1>2
      <3>3. \A m \in DOMAIN members' : members'[m] = "owner" => m \in DOMAIN members /\ members[m] = "owner"
        BY <1>2
      <3>4. \A h \in DOMAIN guilds : <<h, guilds[h].owner>> \in DOMAIN members
        BY DEF TablesOK, SeatsOK, OwnerKeepsSeat, RoleOf, Role
      <3>5. \A m \in DOMAIN members : m[1] \in DOMAIN guilds /\ (members[m] = "owner" => guilds[m[1]].owner = m[2])
        BY DEF TablesOK, SeatsOK, OwnerKeepsSeat, MemberCountExact
      <3>6. ASSUME NEW h \in DOMAIN guilds'
            PROVE  <<h, guilds'[h].owner>> \in DOMAIN members' /\ members'[<<h, guilds'[h].owner>>] = "owner"
        <4>1. h \in DOMAIN guilds /\ <<h, guilds[h].owner>> \in DOMAIN members
          BY <2>1, <3>4, <3>6
        <4>2. members[<<h, guilds[h].owner>>] = "owner"
          BY <4>1 DEF TablesOK, SeatsOK, OwnerKeepsSeat, RoleOf
        <4> QED BY <1>2, <3>1, <3>2, <4>1, <4>2
      <3>7. \A m \in DOMAIN members' : members'[m] = "owner" => guilds'[m[1]].owner = m[2]
        BY <3>1, <3>2, <3>3, <3>5
      <3> QED BY <3>6, <3>7 DEF OwnerKeepsSeat, RoleOf
    <2>4. /\ MembersOf(g)' = MembersOf(g) \cup {<<g, u>>}
          /\ <<g, u>> \notin MembersOf(g)
          /\ \A h \in DOMAIN guilds : h # g => MembersOf(h)' = MembersOf(h)
      BY <1>2 DEF MembersOf
    <2>5. /\ IsFiniteSet(MembersOf(g)')
          /\ Cardinality(MembersOf(g)') = Cardinality(MembersOf(g)) + 1
      <3>1. IsFiniteSet(MembersOf(g))
        BY <1>2 DEF TablesOK, SeatsOK
      <3>2. /\ IsFiniteSet(MembersOf(g) \cup {<<g, u>>})
            /\ Cardinality(MembersOf(g) \cup {<<g, u>>}) = Cardinality(MembersOf(g)) + 1
        BY <2>4, <3>1, FS_AddElement
      <3> QED BY <2>4, <3>2
    <2>6. MemberCountExact'
      <3>1. \A h \in DOMAIN guilds' : guilds'[h].memberCount = Cardinality(MembersOf(h)')
        BY <1>2, <2>1, <2>4, <2>5 DEF TablesOK, SeatsOK, MemberCountExact
      <3>2. \A m \in DOMAIN members' : m[1] \in DOMAIN guilds'
        BY <1>2, <2>1 DEF TablesOK, SeatsOK, MemberCountExact
      <3> QED BY <3>1, <3>2 DEF MemberCountExact
    <2>7. \A h \in DOMAIN guilds' : IsFiniteSet(MembersOf(h)')
      BY <2>1, <2>4, <2>5 DEF TablesOK, SeatsOK
    <2> QED BY <2>1, <2>2, <2>3, <2>6, <2>7 DEF TablesOK, IdsOK, SeatsOK, GuildsStay
  <1> QED BY <1>1, <1>2 DEF AddMember

LEMMA RemoveMemberStep ==
  ASSUME TablesOK, NEW g \in Guild, NEW u \in Users,
         RemoveMember(g, u), UNCHANGED <<channels, usedIds>>,
         g \in DOMAIN guilds => guilds[g].owner # u
  PROVE  TablesOK' /\ GuildsStay
  <1>1. CASE UNCHANGED <<guilds, members>>
    BY <1>1, TablesKept
  <1>2. CASE /\ <<g, u>> \in DOMAIN members
             /\ members' = Restrict(members, DOMAIN members \ {<<g, u>>})
             /\ CountMember(g, -1)
    <2>1. g \in DOMAIN guilds
      BY <1>2 DEF TablesOK, SeatsOK, MemberCountExact
    <2>2. /\ MembersOf(g)' = MembersOf(g) \ {<<g, u>>}
          /\ <<g, u>> \in MembersOf(g)
          /\ \A h \in DOMAIN guilds : h # g => MembersOf(h)' = MembersOf(h)
      BY <1>2 DEF MembersOf, Restrict
    <2>3. /\ IsFiniteSet(MembersOf(g)')
          /\ Cardinality(MembersOf(g)') = Cardinality(MembersOf(g)) - 1
          /\ Cardinality(MembersOf(g)') \in Nat
      BY <2>1, <2>2, FS_RemoveElement, FS_CardinalityType DEF TablesOK, SeatsOK
    <2>4. /\ DOMAIN guilds' = DOMAIN guilds
          /\ \A h \in DOMAIN guilds : h # g => guilds'[h] = guilds[h]
          /\ guilds[g] \in GuildRow
          /\ guilds'[g].owner = guilds[g].owner
          /\ guilds'[g].memberCount = guilds[g].memberCount - 1
      BY <1>2, <2>1 DEF CountMember, TablesOK, TablesTypeOK, GuildRow
    <2>5. guilds'[g] \in GuildRow
      <3>1. guilds[g].memberCount - 1 \in Nat
        BY <2>1, <2>2, <2>3 DEF TablesOK, SeatsOK, MemberCountExact
      <3> QED BY <1>2, <2>1, <2>4, <3>1 DEF CountMember, GuildRow
    <2>6. TablesTypeOK'
      <3>1. guilds' \in [DOMAIN guilds' -> GuildRow]
        BY <1>2, <2>4, <2>5 DEF CountMember, TablesOK, TablesTypeOK
      <3> QED BY <1>2, <2>4, <3>1 DEF TablesOK, TablesTypeOK, Restrict
    <2>7. OwnerKeepsSeat'
      <3>1. \A h \in DOMAIN guilds : guilds'[h].owner = guilds[h].owner /\ <<h, guilds[h].owner>> # <<g, u>>
        BY <2>1, <2>4
      <3>2. \A m \in DOMAIN members' : m \in DOMAIN members /\ members'[m] = members[m]
        BY <1>2 DEF Restrict
      <3>3. \A m \in DOMAIN members : m # <<g, u>> => m \in DOMAIN members'
        BY <1>2 DEF Restrict
      <3> QED BY <2>4, <3>1, <3>2, <3>3 DEF TablesOK, SeatsOK, OwnerKeepsSeat, MemberCountExact, RoleOf
    <2>8. MemberCountExact'
      BY <1>2, <2>2, <2>3, <2>4 DEF TablesOK, SeatsOK, MemberCountExact, Restrict
    <2>9. \A h \in DOMAIN guilds' : IsFiniteSet(MembersOf(h)')
      BY <2>2, <2>3, <2>4 DEF TablesOK, SeatsOK
    <2> QED BY <2>4, <2>6, <2>7, <2>8, <2>9 DEF TablesOK, IdsOK, SeatsOK, GuildsStay
  <1> QED BY <1>1, <1>2 DEF RemoveMember

\* A new guild is written whole, with its owner's row.
LEMMA CreateGuildStep ==
  ASSUME TablesOK, NEW u \in Users, NEW g \in Guild, NEW public \in BOOLEAN, NEW c \in Channels,
         CreateGuild(u, g, public, c)
  PROVE  /\ TablesOK' /\ GuildsStay
         /\ DOMAIN channels' = DOMAIN channels \cup {c}
         /\ \A d \in DOMAIN channels : channels'[d] = channels[d]
  <1> DEFINE row == [owner |-> u, isPublic |-> public, memberCount |-> 1]
             room == [guild |-> g, name |-> General]
  <1>1. /\ g \notin usedIds /\ c \notin usedIds
        /\ usedIds' = usedIds \cup {g, c}
        /\ guilds' = [x \in DOMAIN guilds \cup {g} |-> IF x = g THEN row ELSE guilds[x]]
        /\ members' = [x \in DOMAIN members \cup {<<g, u>>} |->
                         IF x = <<g, u>> THEN "owner" ELSE members[x]]
        /\ channels' = [x \in DOMAIN channels \cup {c} |-> IF x = c THEN room ELSE channels[x]]
    BY DEF CreateGuild, InsertGuild
  <1>2. /\ g \notin DOMAIN guilds /\ c \notin DOMAIN channels
        /\ \A m \in DOMAIN members : m[1] # g
    BY <1>1 DEF TablesOK, IdsOK, SeatsOK, MemberCountExact
  <1>3. row \in GuildRow /\ room \in ChannelRow
    BY DEF GuildRow, ChannelRow
  <1>4. TablesTypeOK'
    BY <1>1, <1>3 DEF TablesOK, TablesTypeOK, Role
  <1>5. /\ row.owner = u /\ row.memberCount = 1 /\ room.guild = g
        /\ DOMAIN guilds' = DOMAIN guilds \cup {g} /\ guilds'[g] = row
        /\ \A h \in DOMAIN guilds : h # g /\ guilds'[h] = guilds[h]
        /\ DOMAIN channels' = DOMAIN channels \cup {c} /\ channels'[c] = room
        /\ \A d \in DOMAIN channels : channels'[d] = channels[d]
        /\ DOMAIN members' = DOMAIN members \cup {<<g, u>>} /\ members'[<<g, u>>] = "owner"
        /\ \A m \in DOMAIN members : m # <<g, u>> /\ members'[m] = members[m]
    BY <1>1, <1>2
  <1> HIDE DEF row, room
  <1>6. IdsOK' /\ GuildsStay
    BY <1>1, <1>2, <1>5 DEF TablesOK, IdsOK, GuildsStay
  <1>7. OwnerKeepsSeat'
    <2>1. \A h \in DOMAIN guilds : <<h, guilds[h].owner>> \in DOMAIN members
      BY DEF TablesOK, SeatsOK, OwnerKeepsSeat, RoleOf, Role
    <2>2. \A h \in DOMAIN guilds : RoleOf(h, guilds[h].owner)' = "owner"
      BY <1>5, <2>1 DEF TablesOK, SeatsOK, OwnerKeepsSeat, RoleOf
    <2>3. \A m \in DOMAIN members' : members'[m] = "owner" => guilds'[m[1]].owner = m[2]
      BY <1>5 DEF TablesOK, SeatsOK, OwnerKeepsSeat, MemberCountExact
    <2> QED BY <1>5, <2>1, <2>2, <2>3 DEF OwnerKeepsSeat, RoleOf
  <1>8. /\ MembersOf(g)' = {<<g, u>>}
        /\ \A h \in DOMAIN guilds : MembersOf(h)' = MembersOf(h)
    BY <1>2, <1>5 DEF MembersOf
  <1>9. IsFiniteSet(MembersOf(g)') /\ Cardinality(MembersOf(g)') = 1
    <2>1. IsFiniteSet({<<g, u>>}) /\ Cardinality({<<g, u>>}) = 1
      BY FS_Singleton
    <2> QED BY <1>8, <2>1
  <1>10. MemberCountExact'
    <2>1. \A h \in DOMAIN guilds' : guilds'[h].memberCount = Cardinality(MembersOf(h)')
      <3>1. guilds'[g].memberCount = Cardinality(MembersOf(g)')
        BY <1>5, <1>9
      <3>2. \A h \in DOMAIN guilds : guilds'[h].memberCount = Cardinality(MembersOf(h)')
        BY <1>5, <1>8 DEF TablesOK, SeatsOK, MemberCountExact
      <3> QED BY <1>5, <3>1, <3>2
    <2>2. \A m \in DOMAIN members' : m[1] \in DOMAIN guilds'
      BY <1>5 DEF TablesOK, SeatsOK, MemberCountExact
    <2> QED BY <2>1, <2>2 DEF MemberCountExact
  <1>11. \A h \in DOMAIN guilds' : IsFiniteSet(MembersOf(h)')
    BY <1>5, <1>8, <1>9 DEF TablesOK, SeatsOK
  <1> QED BY <1>4, <1>5, <1>6, <1>7, <1>10, <1>11 DEF TablesOK, SeatsOK

\* An update changes nothing that the members depend on.
LEMMA UpdateGuildStep ==
  ASSUME TablesOK, NEW g \in Guild, NEW public \in BOOLEAN, UpdateGuildRow(g, public),
         UNCHANGED <<members, channels, usedIds>>
  PROVE  TablesOK' /\ GuildsStay
  <1>1. /\ DOMAIN guilds' = DOMAIN guilds
        /\ \A h \in DOMAIN guilds : /\ guilds[h] \in GuildRow
                                    /\ guilds'[h] \in GuildRow
                                    /\ guilds'[h].owner = guilds[h].owner
                                    /\ guilds'[h].memberCount = guilds[h].memberCount
    BY DEF UpdateGuildRow, TablesOK, TablesTypeOK, GuildRow
  <1>2. TablesTypeOK'
    BY <1>1 DEF UpdateGuildRow, TablesOK, TablesTypeOK
  <1>3. \A h : MembersOf(h)' = MembersOf(h)
    BY DEF MembersOf
  <1>4. OwnerKeepsSeat'
    BY <1>1 DEF TablesOK, SeatsOK, OwnerKeepsSeat, MemberCountExact, RoleOf
  <1>5. MemberCountExact'
    BY <1>1, <1>3 DEF TablesOK, SeatsOK, MemberCountExact
  <1> QED BY <1>1, <1>2, <1>3, <1>4, <1>5 DEF TablesOK, SeatsOK, IdsOK, GuildsStay

\* The members and the channels go with their guild.
LEMMA DeleteGuildStep ==
  ASSUME TablesOK, NEW g \in Guild, DeleteGuildRow(g), UNCHANGED usedIds
  PROVE  /\ TablesOK' /\ GuildsStay
         /\ DOMAIN channels' \subseteq DOMAIN channels
         /\ \A c \in DOMAIN channels' : channels'[c] = channels[c]
  <1>1. /\ DOMAIN guilds' = DOMAIN guilds \ {g}
        /\ \A h \in DOMAIN guilds' : guilds'[h] = guilds[h]
        /\ DOMAIN members' = {m \in DOMAIN members : m[1] # g}
        /\ \A m \in DOMAIN members' : members'[m] = members[m]
        /\ DOMAIN channels' = {c \in DOMAIN channels : channels[c].guild # g}
        /\ \A c \in DOMAIN channels' : channels'[c] = channels[c]
    BY DEF DeleteGuildRow, Restrict, MembersOf, ChannelsOf
  <1>2. TablesTypeOK'
    BY <1>1 DEF DeleteGuildRow, Restrict, TablesOK, TablesTypeOK
  <1>3. \A h \in DOMAIN guilds' : MembersOf(h)' = MembersOf(h)
    BY <1>1 DEF MembersOf
  <1>4. OwnerKeepsSeat'
    <2>1. \A h \in DOMAIN guilds' : <<h, guilds[h].owner>> \in DOMAIN members'
      BY <1>1 DEF TablesOK, SeatsOK, OwnerKeepsSeat, RoleOf, Role
    <2>2. \A h \in DOMAIN guilds' : RoleOf(h, guilds[h].owner)' = "owner"
      BY <1>1, <2>1 DEF TablesOK, SeatsOK, OwnerKeepsSeat, RoleOf
    <2> QED BY <1>1, <2>1, <2>2 DEF TablesOK, SeatsOK, OwnerKeepsSeat, MemberCountExact, RoleOf
  <1>5. MemberCountExact'
    BY <1>1, <1>3 DEF TablesOK, SeatsOK, MemberCountExact
  <1> QED BY <1>1, <1>2, <1>3, <1>4, <1>5 DEF TablesOK, SeatsOK, IdsOK, GuildsStay

\* A write that only adds channels of existing guilds, renames or removes them.
LEMMA ChannelsStep ==
  ASSUME TablesOK, UNCHANGED <<guilds, members>>, usedIds \subseteq usedIds',
         usedIds' \subseteq Guild \cup Channels,
         DOMAIN channels' \subseteq Channels \cap usedIds',
         channels' \in [DOMAIN channels' -> ChannelRow],
         \A c \in DOMAIN channels' : channels'[c].guild \in DOMAIN guilds
  PROVE  TablesOK' /\ GuildsStay
  <1>1. \A g : MembersOf(g)' = MembersOf(g)
    BY DEF MembersOf
  <1>2. OwnerKeepsSeat'
    BY DEF TablesOK, SeatsOK, OwnerKeepsSeat, RoleOf
  <1>3. SeatsOK'
    BY <1>1, <1>2 DEF TablesOK, SeatsOK, MemberCountExact
  <1> QED BY <1>3 DEF TablesOK, TablesTypeOK, IdsOK, GuildsStay

-----------------------------------------------------------------------------
(* Messages.                                                               *)

\* The types of the messages table, and what its rows owe the other tables.
RowsOK ==
  /\ lastId \in 0..MaxId
  /\ DOMAIN messages \subseteq 1..lastId
  /\ messages \in [DOMAIN messages -> MessageRow]
  /\ unannounced \subseteq 1..lastId
  /\ OwnWords
  /\ QuotesStayInChannel

LEMMA Parts ==
  /\ IInv <=> RequestsTypeOK /\ TablesOK /\ RowsOK /\ CallsOK
  /\ IInv' <=> RequestsTypeOK' /\ TablesOK' /\ RowsOK' /\ CallsOK'
  BY DEF IInv, ChannelsTypeOK, GuildTypeOK, RequestsTypeOK, TablesOK, TablesTypeOK, RowsOK, CallsOK

LEMMA RowsKept ==
  ASSUME RowsOK, TablesOK', UNCHANGED messages, NEW r,
         lastId' \in lastId..MaxId, unannounced' \subseteq 1..lastId',
         DOMAIN channels \subseteq DOMAIN channels'
  PROVE  RowsOK' /\ RowsStay(r)
  <1>1. \A c : MessagesOf(c)' = MessagesOf(c)
    BY DEF MessagesOf
  <1>2. QuotesStayInChannel'
    BY <1>1 DEF RowsOK, QuotesStayInChannel, TablesOK, IdsOK
  <1> QED BY <1>2 DEF RowsOK, RowsStay, OwnWords

\* Deleting messages makes the rows that quote them forget the quote.
LEMMA RowsForget ==
  ASSUME RowsOK, TablesOK', NEW gone, messages' = Forget(messages, gone), NEW r,
         UNCHANGED <<lastId, unannounced>>,
         \A m \in DOMAIN messages \ gone : messages[m].channel \in DOMAIN channels'
  PROVE  RowsOK' /\ RowsStay(r)
  <1>1. /\ DOMAIN messages' = DOMAIN messages \ gone
        /\ \A m \in DOMAIN messages' :
             /\ messages[m] \in MessageRow
             /\ messages'[m] \in MessageRow
             /\ messages'[m].channel = messages[m].channel
             /\ messages'[m].author = messages[m].author
             /\ messages'[m].text = messages[m].text
             /\ messages'[m].replyTo # None =>
                  messages'[m].replyTo = messages[m].replyTo /\ messages[m].replyTo \notin gone
    BY DEF Forget, RowsOK, MessageRow
  <1>2. messages' \in [DOMAIN messages' -> MessageRow]
    BY <1>1 DEF Forget
  <1>3. QuotesStayInChannel'
    <2>1. \A m \in DOMAIN messages' : /\ messages'[m].channel \in DOMAIN channels'
                                      /\ channels'[messages'[m].channel].guild \in DOMAIN guilds'
      BY <1>1 DEF TablesOK, IdsOK
    <2>2. \A m \in DOMAIN messages' : messages'[m].replyTo # None =>
             /\ messages'[m].replyTo \in DOMAIN messages'
             /\ messages'[messages'[m].replyTo].channel = messages'[m].channel
      BY <1>1 DEF RowsOK, QuotesStayInChannel, MessagesOf
    <2> QED BY <2>1, <2>2 DEF QuotesStayInChannel, MessagesOf
  <1> QED BY <1>1, <1>2, <1>3 DEF RowsOK, RowsStay, OwnWords

\* A message goes with its channel, and so does what it quotes.
LEMMA RowsCascade ==
  ASSUME RowsOK, TablesOK', UNCHANGED <<lastId, unannounced>>, NEW r,
         messages' = Restrict(messages, {m \in DOMAIN messages :
                                           messages[m].channel \in DOMAIN channels'})
  PROVE  RowsOK' /\ RowsStay(r)
  <1>1. /\ DOMAIN messages' = {m \in DOMAIN messages : messages[m].channel \in DOMAIN channels'}
        /\ \A m \in DOMAIN messages' : messages'[m] = messages[m]
    BY DEF Restrict
  <1>2. messages' \in [DOMAIN messages' -> MessageRow]
    BY <1>1 DEF Restrict, RowsOK
  <1>3. QuotesStayInChannel'
    <2>1. \A m \in DOMAIN messages' : /\ messages'[m].channel \in DOMAIN channels'
                                      /\ channels'[messages'[m].channel].guild \in DOMAIN guilds'
      BY <1>1 DEF TablesOK, IdsOK
    <2>2. \A m \in DOMAIN messages' : messages'[m].replyTo # None =>
             /\ messages'[m].replyTo \in DOMAIN messages'
             /\ messages'[messages'[m].replyTo].channel = messages'[m].channel
      BY <1>1 DEF RowsOK, QuotesStayInChannel, MessagesOf
    <2> QED BY <2>1, <2>2 DEF QuotesStayInChannel, MessagesOf
  <1> QED BY <1>1, <1>2, <1>3 DEF RowsOK, RowsStay, OwnWords

\* What is inserted quotes a message that is in its channel, if it is still
\* there.
LEMMA RowsInsert ==
  ASSUME RowsOK, TablesOK, CallsOK, RequestsTypeOK, NEW r \in DOMAIN call, Inserting(r),
         call[r].channel \in DOMAIN channels, call[r].replyTo \in DOMAIN messages \cup {None},
         messages' = [m \in DOMAIN messages \cup {call[r].message} |->
                        IF m = call[r].message
                        THEN [channel |-> call[r].channel, author |-> call[r].user,
                              text |-> call[r].user, replyTo |-> call[r].replyTo]
                        ELSE messages[m]],
         UNCHANGED <<guilds, channels, lastId, unannounced>>
  PROVE  RowsOK' /\ RowsStay(r)
  <1> DEFINE c == call[r]
             row == [channel |-> c.channel, author |-> c.user, text |-> c.user,
                     replyTo |-> c.replyTo]
  <1>1. /\ c.message \in (1..lastId) \ DOMAIN messages
        /\ c.replyTo # None => /\ c.replyTo \in DOMAIN messages
                               /\ messages[c.replyTo].channel = c.channel
    BY DEF CallsOK, CallOK, DrawnOK, ReplyOK
  <1>2. row \in MessageRow
    BY DEF RequestsTypeOK, Call, MessageRow, TablesOK, TablesTypeOK
  <1>3. /\ row.channel = c.channel /\ row.author = c.user /\ row.text = c.user
        /\ row.replyTo = c.replyTo
        /\ DOMAIN messages' = DOMAIN messages \cup {c.message}
        /\ messages'[c.message] = row
        /\ \A m \in DOMAIN messages : m # c.message /\ messages'[m] = messages[m]
    BY <1>1
  <1>4. messages' \in [DOMAIN messages' -> MessageRow]
    BY <1>2 DEF RowsOK
  <1> HIDE DEF row, c
  <1>5. QuotesStayInChannel'
    <2>1. \A m \in DOMAIN messages :
            /\ messages'[m].channel \in DOMAIN channels'
            /\ channels'[messages'[m].channel].guild \in DOMAIN guilds'
            /\ messages'[m].replyTo # None =>
                 /\ messages'[m].replyTo \in DOMAIN messages'
                 /\ messages'[messages'[m].replyTo].channel = messages'[m].channel
      BY <1>3 DEF RowsOK, QuotesStayInChannel, MessagesOf
    <2>2. row.replyTo # None => /\ row.replyTo \in DOMAIN messages'
                                /\ messages'[row.replyTo].channel = row.channel
      BY <1>1, <1>3
    <2>3. row.channel \in DOMAIN channels' /\ channels'[row.channel].guild \in DOMAIN guilds'
      BY <1>3 DEF TablesOK, IdsOK, c
    <2>4. ASSUME NEW m \in DOMAIN messages'
          PROVE  /\ messages'[m].channel \in DOMAIN channels'
                 /\ channels'[messages'[m].channel].guild \in DOMAIN guilds'
                 /\ messages'[m].replyTo # None =>
                      /\ messages'[m].replyTo \in DOMAIN messages'
                      /\ messages'[messages'[m].replyTo].channel = messages'[m].channel
      <3>1. CASE m = c.message
        BY <1>3, <2>2, <2>3, <3>1
      <3>2. CASE m # c.message
        BY <1>3, <2>1, <2>4, <3>2
      <3> QED BY <3>1, <3>2
    <2> QED BY <2>4 DEF QuotesStayInChannel, MessagesOf
  <1>6. OwnWords'
    BY <1>3 DEF RowsOK, OwnWords
  <1>7. RowsStay(r)
    BY <1>3 DEF RowsStay, c
  <1> QED BY <1>1, <1>3, <1>4, <1>5, <1>6, <1>7 DEF RowsOK

\* Only an author's own words are written over.
LEMMA RowsEdit ==
  ASSUME RowsOK, CallsOK, RequestsTypeOK, NEW r \in DOMAIN call, Writing(r, "edit"),
         call[r].message \in DOMAIN messages,
         messages' = [messages EXCEPT ![call[r].message].text = call[r].user],
         UNCHANGED <<guilds, channels, lastId, unannounced>>
  PROVE  RowsOK' /\ RowsStay(r)
  <1> DEFINE c == call[r]
  <1>1. c.user \in Users /\ messages[c.message].author = c.user
    BY DEF RequestsTypeOK, Call, CallsOK, CallOK, EditOK
  <1>2. /\ DOMAIN messages' = DOMAIN messages
        /\ \A m \in DOMAIN messages :
             /\ messages[m] \in MessageRow
             /\ messages'[m] \in MessageRow
             /\ messages'[m].channel = messages[m].channel
             /\ messages'[m].author = messages[m].author
             /\ messages'[m].replyTo = messages[m].replyTo
             /\ m # c.message => messages'[m].text = messages[m].text
        /\ messages'[c.message].text = c.user
    BY <1>1 DEF RowsOK, MessageRow
  <1>3. messages' \in [DOMAIN messages' -> MessageRow]
    BY <1>2
  <1>4. \A d : MessagesOf(d)' = MessagesOf(d)
    BY <1>2 DEF MessagesOf
  <1>5. QuotesStayInChannel'
    BY <1>2, <1>4 DEF RowsOK, QuotesStayInChannel
  <1>6. OwnWords'
    BY <1>1, <1>2 DEF RowsOK, OwnWords
  <1> QED BY <1>2, <1>3, <1>5, <1>6 DEF RowsOK, RowsStay

-----------------------------------------------------------------------------
(* Steps of the guild service.                                             *)

LEMMA Active ==
  ASSUME RequestsTypeOK, NEW r \in Requests, pc[r] # "idle"
  PROVE  r \in DOMAIN call /\ call[r] \in Call
  BY DEF RequestsTypeOK, Idle

\* A request that returns leaves nothing to show of itself.
LEMMA ReturnStep ==
  ASSUME IInv, NEW r \in Requests, Return(r), TablesOK', GuildsStay, RowsOK', RowsStay(r),
         UNCHANGED lastId
  PROVE  IInv'
  <1>1. RequestsTypeOK /\ RowsOK /\ CallsOK
    BY Parts
  <1>2. OthersStay(r) /\ RequestsTypeOK' /\ r \notin DOMAIN call'
    BY <1>1, Returns
  <1>3. DrawsAnew(r)
    BY <1>1, <1>2 DEF DrawsAnew, RowsOK
  <1>4. CallsOK'
    BY <1>1, <1>2, <1>3, CallsStep DEF RequestsTypeOK
  <1> QED BY <1>2, <1>4, Parts

\* A request that reads, or has written, goes on to its next statement.
LEMMA GoOnStep ==
  ASSUME IInv, NEW r \in Requests, OthersStay(r), RequestsTypeOK', TablesOK', GuildsStay,
         RowsOK', RowsStay(r), UNCHANGED lastId, ~Inserting(r)', CallOK(r)'
  PROVE  IInv'
  <1>1. RequestsTypeOK /\ RowsOK /\ CallsOK
    BY Parts
  <1>2. DrawsAnew(r)
    BY <1>1 DEF DrawsAnew, RowsOK
  <1>3. CallsOK'
    BY <1>1, <1>2, CallsStep DEF RequestsTypeOK
  <1> QED BY <1>3, Parts

\* A read writes nothing.
LEMMA Reads ==
  ASSUME IInv, UNCHANGED <<guilds, members, channels, usedIds, messageVars>>, NEW r
  PROVE  TablesOK' /\ GuildsStay /\ RowsOK' /\ RowsStay(r) /\ UNCHANGED lastId
  <1>1. TablesOK /\ RowsOK
    BY Parts
  <1>2. TablesOK' /\ GuildsStay
    BY <1>1, TablesKept
  <1> QED BY <1>1, <1>2, RowsKept DEF messageVars, RowsOK

\* A write of the guild service takes the messages of the channels it removes.
LEMMA Cascades ==
  ASSUME IInv, TablesOK', UNCHANGED <<lastId, unannounced>>, NEW r,
         messages' = Restrict(messages, {m \in DOMAIN messages :
                                           messages[m].channel \in DOMAIN channels'})
  PROVE  RowsOK' /\ RowsStay(r)
  BY RowsCascade, Parts

LEMMA FindGuildStep ==
  ASSUME IInv, NEW r \in Requests, NEW u \in Users, NEW op \in GuildOps, NEW g \in Guild,
         FindGuild(r, u, op, g), TablesOK', GuildsStay, RowsOK', RowsStay(r), UNCHANGED lastId
  PROVE  IInv'
  <1> DEFINE c == [op |-> op, user |-> u, guild |-> g, role |-> None, channel |-> None,
                   message |-> None, replyTo |-> None]
             label == IF op = "deleteGuild" THEN "write" ELSE "member"
  <1>1. c \in Call
    BY DEF Call
  <1>2. OthersStay(r) /\ RequestsTypeOK' /\ r \in DOMAIN call' /\ call'[r] = c /\ pc'[r] = label
    BY <1>1, Parts, Enters DEF FindGuild
  <1>3. CallOK(r)' /\ ~Inserting(r)'
    BY <1>2 DEF CallOK, StepFits, DrawnOK, ReplyOK, EditOK, LeaveOK, Inserting, Writing, GuildOps
  <1> QED BY <1>2, <1>3, GoOnStep

\* Who is found to be an ordinary member does not own the guild.
LEMMA FindMemberStep ==
  ASSUME IInv, NEW r \in Requests, FindMember(r),
         TablesOK', GuildsStay, RowsOK', RowsStay(r), UNCHANGED lastId
  PROVE  IInv'
  <1> DEFINE role == RoleOf(call[r].guild, call[r].user)
             c == [call[r] EXCEPT !.role = role]
  <1>1. /\ pc[r] = "member"
        /\ UNCHANGED <<guilds, members, channels, usedIds>>
    BY DEF FindMember
  <1>2. RequestsTypeOK /\ TablesOK /\ CallsOK
    BY Parts
  <1>3. r \in DOMAIN call /\ call[r] \in Call /\ CallOK(r)
    BY <1>1, <1>2, Active DEF CallsOK
  <1>4. CASE Return(r)
    BY <1>4, ReturnStep
  <1>5. CASE /\ MayProceed(call[r].op, role)
             /\ call' = [call EXCEPT ![r].role = role]
             /\ Goto(r, "write")
    <2>1. role \in Role \cup {None}
      BY <1>2, <1>3 DEF RoleOf, TablesOK, TablesTypeOK
    <2>2. /\ c \in Call
          /\ c.op = call[r].op /\ c.user = call[r].user /\ c.guild = call[r].guild
          /\ c.op \in {"join", "leave", "updateGuild"}
      BY <1>1, <1>3, <2>1 DEF Call, CallOK, StepFits
    <2>3. OthersStay(r) /\ RequestsTypeOK' /\ r \in DOMAIN call' /\ call'[r] = c /\ pc'[r] = "write"
      BY <1>2, <1>3, <1>5, <2>2, Assigns
    <2>4. LeaveOK(r)'
      <3>1. SUFFICES ASSUME c.op = "leave"
                     PROVE  c.guild \in usedIds /\ guilds[c.guild].owner # c.user
        BY <1>1, <2>3 DEF LeaveOK, Writing
      <3>2. role \in {"admin", "member"}
        BY <1>5, <2>2, <3>1 DEF MayProceed
      <3>3. <<c.guild, c.user>> \in DOMAIN members /\ role # "owner"
        BY <2>2, <3>2 DEF RoleOf, Role
      <3>4. c.guild \in DOMAIN guilds
        BY <1>2, <3>3 DEF TablesOK, SeatsOK, MemberCountExact
      <3> QED BY <1>2, <2>2, <3>3, <3>4 DEF TablesOK, SeatsOK, OwnerKeepsSeat, IdsOK
    <2>5. CallOK(r)' /\ ~Inserting(r)'
      BY <2>2, <2>3, <2>4 DEF CallOK, StepFits, DrawnOK, ReplyOK, EditOK, Inserting, Writing
    <2> QED BY <2>3, <2>5, GoOnStep
  <1> QED BY <1>4, <1>5 DEF FindMember

LEMMA GuildRequestStep ==
  ASSUME IInv, GuildRequest
  PROVE  IInv'
  <1>1. RequestsTypeOK /\ TablesOK /\ RowsOK /\ CallsOK
    BY Parts
  <1>2. ASSUME TablesOK', NEW r
        PROVE  RowsOK' /\ RowsStay(r) /\ UNCHANGED lastId
    BY <1>2, Cascades DEF GuildRequest
  <1>3. ASSUME NEW u \in Users, NEW g \in Guild, NEW public \in BOOLEAN, NEW c \in Channels,
               CreateGuild(u, g, public, c)
        PROVE  IInv'
    <2>1. TablesOK' /\ GuildsStay /\ UNCHANGED <<pc, call>>
      BY <1>1, <1>3, CreateGuildStep DEF CreateGuild
    <2>2. PICK r : r \notin Requests
      BY NoSetContainsEverything
    <2>3. RequestsTypeOK' /\ OthersStay(r) /\ r \notin DOMAIN call'
      BY <1>1, <2>1, <2>2 DEF RequestsTypeOK, OthersStay, Idle
    <2>4. RowsOK' /\ RowsStay(r) /\ DrawsAnew(r)
      BY <1>1, <1>2, <2>1, <2>3 DEF DrawsAnew, RowsOK
    <2>5. CallsOK'
      BY <1>1, <2>1, <2>3, <2>4, CallsStep DEF RequestsTypeOK
    <2> QED BY <2>1, <2>3, <2>4, <2>5, Parts
  <1>4. ASSUME NEW r \in Requests, NEW u \in Users, NEW op \in GuildOps, NEW g \in Guild,
               FindGuild(r, u, op, g)
        PROVE  IInv'
    <2>1. TablesOK' /\ GuildsStay
      BY <1>1, <1>4, TablesKept DEF FindGuild
    <2> QED BY <1>2, <1>4, <2>1, FindGuildStep
  <1>5. ASSUME NEW r \in Requests, FindMember(r)
        PROVE  IInv'
    <2>1. TablesOK' /\ GuildsStay
      BY <1>1, <1>5, TablesKept DEF FindMember
    <2> QED BY <1>2, <1>5, <2>1, FindMemberStep
  <1>6. ASSUME NEW r \in Requests, TablesOK', GuildsStay, Return(r)
        PROVE  IInv'
    BY <1>2, <1>6, ReturnStep
  <1>7. ASSUME NEW r \in Requests, pc[r] = "write"
        PROVE  r \in DOMAIN call /\ call[r].guild \in Guild /\ call[r].user \in Users /\ CallOK(r)
    BY <1>1, <1>7, Active DEF Call, CallsOK
  <1>8. ASSUME NEW r \in Requests, JoinGuild(r)
        PROVE  IInv'
    <2>1. TablesOK' /\ GuildsStay
      BY <1>1, <1>7, <1>8, AddMemberStep DEF JoinGuild, Writing
    <2> QED BY <1>6, <1>8, <2>1 DEF JoinGuild
  <1>9. ASSUME NEW r \in Requests, LeaveGuild(r)
        PROVE  IInv'
    <2>1. call[r].guild \in DOMAIN guilds => guilds[call[r].guild].owner # call[r].user
      BY <1>7, <1>9 DEF LeaveGuild, Writing, CallOK, LeaveOK
    <2>2. TablesOK' /\ GuildsStay
      BY <1>1, <1>7, <1>9, <2>1, RemoveMemberStep DEF LeaveGuild, Writing
    <2> QED BY <1>6, <1>9, <2>2 DEF LeaveGuild
  <1>10. ASSUME NEW r \in Requests, NEW public \in BOOLEAN, UpdateGuild(r, public)
         PROVE  IInv'
    <2>1. TablesOK' /\ GuildsStay
      BY <1>1, <1>7, <1>10, UpdateGuildStep DEF UpdateGuild, Writing
    <2> QED BY <1>6, <1>10, <2>1 DEF UpdateGuild
  <1>11. ASSUME NEW r \in Requests, DeleteGuild(r)
         PROVE  IInv'
    <2>1. TablesOK' /\ GuildsStay
      BY <1>1, <1>7, <1>11, DeleteGuildStep DEF DeleteGuild, Writing
    <2> QED BY <1>6, <1>11, <2>1 DEF DeleteGuild
  <1>12. GuildNext
    BY DEF GuildRequest
  <1> QED BY <1>3, <1>4, <1>5, <1>8, <1>9, <1>10, <1>11, <1>12 DEF GuildNext, GuildStep

-----------------------------------------------------------------------------
(* Steps of the channel service.                                           *)

LEMMA ResolveAccessStep ==
  ASSUME IInv, NEW r \in Requests, NEW u \in Users, NEW g \in Guild,
         NEW op \in ChannelOps \cup MessageOps, NEW c \in Channels \cup {None},
         NEW m \in Ids \cup {None}, NEW re \in Ids \cup {None}, ResolveAccess(r, u, op, g, c, m, re)
  PROVE  IInv'
  <1> DEFINE new == [op |-> op, user |-> u, guild |-> g, role |-> RoleOf(g, u),
                     channel |-> c, message |-> m, replyTo |-> re]
             label == AfterAccess(op, re)
  <1>1. RequestsTypeOK /\ TablesOK
    BY Parts
  <1>2. RoleOf(g, u) \in Role \cup {None}
    BY <1>1 DEF RoleOf, TablesOK, TablesTypeOK
  <1>3. new \in Call
    BY <1>2 DEF Call
  <1>4. /\ label \in {"write", "replyTo", "author"}
        /\ label = "replyTo" => op = "send"
        /\ label = "author" => op \in {"edit", "remove"}
        /\ label = "write" => op \in ChannelOps \/ (op = "send" /\ re = None)
    BY DEF AfterAccess, ChannelOps, MessageOps
  <1>5. Enter(r, new, label)
    BY DEF ResolveAccess
  <1>6. OthersStay(r) /\ RequestsTypeOK' /\ r \in DOMAIN call' /\ call'[r] = new /\ pc'[r] = label
    BY <1>1, <1>3, <1>4, <1>5, Enters
  <1>7. new.op = op /\ new.replyTo = re
    OBVIOUS
  <1> HIDE DEF new, label
  <1>8. CallOK(r)' /\ ~Inserting(r)'
    BY <1>4, <1>6, <1>7
    DEF CallOK, StepFits, DrawnOK, ReplyOK, EditOK, LeaveOK, Inserting, Writing, ChannelOps
  <1> QED BY <1>6, <1>8, Reads, GoOnStep DEF ResolveAccess

\* A message that exists is not being inserted.
LEMMA StoredIsSettled ==
  ASSUME RowsOK, CallsOK, NEW m \in DOMAIN messages
  PROVE  Settled(m)
  BY DEF RowsOK, CallsOK, CallOK, DrawnOK, Settled

LEMMA MessageExistsStep ==
  ASSUME IInv, NEW r \in Requests, MessageExists(r)
  PROVE  IInv'
  <1>1. RequestsTypeOK /\ RowsOK /\ CallsOK
    BY Parts
  <1>2. r \in DOMAIN call /\ call[r].op = "send"
    BY <1>1, Active DEF MessageExists, CallsOK, CallOK, StepFits
  <1>3. CASE Return(r)
    BY <1>3, Reads, ReturnStep DEF MessageExists
  <1>4. CASE call[r].replyTo \in MessagesOf(call[r].channel) /\ Goto(r, "write") /\ UNCHANGED call
    <2>1. OthersStay(r) /\ RequestsTypeOK' /\ pc'[r] = "write"
      BY <1>1, <1>2, <1>4, Moves
    <2>2. call[r].replyTo \in DOMAIN messages /\ messages[call[r].replyTo].channel = call[r].channel
      BY <1>4 DEF MessagesOf
    <2>3. Settled(call[r].replyTo) /\ UNCHANGED <<messages, lastId>>
      BY <1>1, <2>2, StoredIsSettled DEF MessageExists, messageVars
    <2>4. Settled(call[r].replyTo)'
      BY <1>1, <1>4, <2>1, <2>3 DEF Settled, Inserting, OthersStay, RequestsTypeOK
    <2>5. CallOK(r)' /\ ~Inserting(r)'
      BY <1>2, <1>4, <2>1, <2>2, <2>3, <2>4
      DEF CallOK, StepFits, DrawnOK, ReplyOK, EditOK, LeaveOK, Inserting, Writing
    <2> QED BY <2>1, <2>5, Reads, GoOnStep DEF MessageExists
  <1> QED BY <1>3, <1>4 DEF MessageExists

LEMMA FindMessageAuthorStep ==
  ASSUME IInv, NEW r \in Requests, FindMessageAuthor(r)
  PROVE  IInv'
  <1>1. RequestsTypeOK /\ RowsOK /\ CallsOK
    BY Parts
  <1>2. r \in DOMAIN call /\ call[r].op \in {"edit", "remove"}
    BY <1>1, Active DEF FindMessageAuthor, CallsOK, CallOK, StepFits
  <1>3. CASE Return(r)
    BY <1>3, Reads, ReturnStep DEF FindMessageAuthor
  <1>4. CASE MayTouch(call[r]) /\ Goto(r, "write") /\ UNCHANGED call
    <2>1. OthersStay(r) /\ RequestsTypeOK' /\ pc'[r] = "write"
      BY <1>1, <1>2, <1>4, Moves
    <2>2. /\ call[r].message \in DOMAIN messages
          /\ call[r].op = "edit" => messages[call[r].message].author = call[r].user
      BY <1>4 DEF MayTouch, MessagesOf
    <2>3. Settled(call[r].message) /\ UNCHANGED <<messages, lastId>>
      BY <1>1, <2>2, StoredIsSettled DEF FindMessageAuthor, messageVars
    <2>4. Settled(call[r].message)'
      BY <1>1, <1>4, <2>1, <2>3 DEF Settled, Inserting, OthersStay, RequestsTypeOK
    <2>5. CallOK(r)' /\ ~Inserting(r)'
      BY <1>2, <1>4, <2>1, <2>2, <2>3, <2>4
      DEF CallOK, StepFits, DrawnOK, ReplyOK, EditOK, LeaveOK, Inserting, Writing
    <2> QED BY <2>1, <2>5, Reads, GoOnStep DEF FindMessageAuthor
  <1> QED BY <1>3, <1>4 DEF FindMessageAuthor

LEMMA CreateChannelStep ==
  ASSUME IInv, NEW r \in Requests, NEW i \in Instances, NEW c \in Channels, NEW n \in Names,
         CreateChannel(r, i, c, n)
  PROVE  IInv'
  <1> DEFINE g == call[r].guild
             room == [guild |-> g, name |-> n]
  <1>1. RequestsTypeOK /\ TablesOK /\ RowsOK
    BY Parts
  <1>2. CASE Return(r) /\ UNCHANGED <<channels, usedIds>>
    BY <1>2, Reads, ReturnStep DEF CreateChannel
  <1>3. CASE /\ g \in DOMAIN guilds /\ c \notin usedIds
             /\ usedIds' = usedIds \cup {c}
             /\ channels' = [x \in DOMAIN channels \cup {c} |-> IF x = c THEN room ELSE channels[x]]
             /\ Return(r)
    <2>1. room \in ChannelRow /\ room.guild = g
      BY <1>1, <1>3 DEF ChannelRow, TablesOK, TablesTypeOK
    <2>2. UNCHANGED <<guilds, members, messages, lastId, unannounced>>
      BY DEF CreateChannel, messageVars
    <2>3. /\ usedIds' \subseteq Guild \cup Channels
          /\ DOMAIN channels' \subseteq Channels \cap usedIds'
          /\ channels' \in [DOMAIN channels' -> ChannelRow]
          /\ \A d \in DOMAIN channels' : channels'[d].guild \in DOMAIN guilds
      BY <1>1, <1>3, <2>1 DEF TablesOK, TablesTypeOK, IdsOK
    <2>4. TablesOK' /\ GuildsStay
      BY <1>1, <1>3, <2>2, <2>3, ChannelsStep
    <2>5. RowsOK' /\ RowsStay(r)
      BY <1>1, <1>3, <2>2, <2>4, RowsKept DEF RowsOK
    <2> QED BY <1>3, <2>2, <2>4, <2>5, ReturnStep
  <1> QED BY <1>2, <1>3 DEF CreateChannel, Publish

LEMMA UpdateChannelStep ==
  ASSUME IInv, NEW r \in Requests, NEW n \in Names, UpdateChannel(r, n)
  PROVE  IInv'
  <1> DEFINE c == call[r].channel
  <1>1. RequestsTypeOK /\ TablesOK /\ RowsOK /\ CallsOK
    BY Parts
  <1>2. r \in DOMAIN call /\ call[r].op = "updateChannel" /\ CallOK(r)
    BY <1>1, Active DEF UpdateChannel, Writing, CallsOK
  <1>3. UNCHANGED <<guilds, members, usedIds, messages, lastId, unannounced>>
    BY DEF UpdateChannel, messageVars
  <1>4. CASE Return(r) /\ UNCHANGED channels
    BY <1>4, Reads, ReturnStep DEF UpdateChannel
  <1>5. CASE /\ c \in DOMAIN channels
             /\ channels' = [channels EXCEPT ![c].name = n]
             /\ Goto(r, "reread") /\ UNCHANGED call
    <2>1. OthersStay(r) /\ RequestsTypeOK' /\ pc'[r] = "reread"
      BY <1>1, <1>2, <1>5, Moves
    <2>2. /\ DOMAIN channels' = DOMAIN channels
          /\ \A d \in DOMAIN channels : /\ channels[d] \in ChannelRow
                                        /\ channels'[d] \in ChannelRow
                                        /\ channels'[d].guild = channels[d].guild
      BY <1>1, <1>5 DEF TablesOK, TablesTypeOK, ChannelRow
    <2>3. channels' \in [DOMAIN channels' -> ChannelRow]
      BY <1>5, <2>2
    <2>4. TablesOK' /\ GuildsStay
      BY <1>1, <1>3, <2>2, <2>3, ChannelsStep DEF TablesOK, TablesTypeOK, IdsOK
    <2>5. RowsOK' /\ RowsStay(r)
      BY <1>1, <1>3, <2>2, <2>4, RowsKept DEF RowsOK
    <2>6. CallOK(r)' /\ ~Inserting(r)'
      BY <1>2, <1>5, <2>1
      DEF CallOK, StepFits, DrawnOK, ReplyOK, EditOK, LeaveOK, Inserting, Writing
    <2> QED BY <1>3, <2>1, <2>4, <2>5, <2>6, GoOnStep
  <1> QED BY <1>4, <1>5 DEF UpdateChannel

\* What re-reads a row and publishes it changes no table.
LEMMA RereadStep ==
  ASSUME IInv, NEW r \in Requests, NEW i \in Instances, RereadChannel(r, i) \/ RereadMessage(r, i)
  PROVE  IInv'
  <1>1. RequestsTypeOK /\ TablesOK /\ RowsOK /\ CallsOK
    BY Parts
  <1>2. /\ Return(r)
        /\ UNCHANGED <<guilds, members, channels, usedIds, messages, lastId>>
    BY DEF RereadChannel, RereadMessage, Publish, messageVars
  <1>3. TablesOK' /\ GuildsStay
    BY <1>1, <1>2, TablesKept
  <1>4. unannounced' \subseteq 1..lastId'
    <2>1. CASE RereadChannel(r, i)
      BY <1>1, <2>1 DEF RereadChannel, messageVars, RowsOK
    <2>2. CASE RereadMessage(r, i)
      <3>1. r \in DOMAIN call /\ CallOK(r) /\ pc[r] = "reread"
        BY <1>1, <2>2, Active DEF RereadMessage, CallsOK
      <3> QED BY <1>1, <1>2, <2>2, <3>1 DEF RereadMessage, CallOK, DrawnOK, RowsOK
    <2> QED BY <2>1, <2>2
  <1>5. RowsOK' /\ RowsStay(r)
    BY <1>1, <1>2, <1>3, <1>4, RowsKept DEF RowsOK
  <1> QED BY <1>2, <1>3, <1>5, ReturnStep

LEMMA DeleteChannelStep ==
  ASSUME IInv, NEW r \in Requests, NEW i \in Instances, DeleteChannel(r, i)
  PROVE  IInv'
  <1> DEFINE c == call[r].channel
  <1>1. TablesOK /\ RowsOK
    BY Parts
  <1>2. Return(r) /\ UNCHANGED <<guilds, members, usedIds, lastId, unannounced>>
    BY DEF DeleteChannel, Publish
  <1>3. CASE UNCHANGED <<channels, messages>>
    BY <1>2, <1>3, Reads, ReturnStep DEF messageVars
  <1>4. CASE /\ channels' = Restrict(channels, DOMAIN channels \ {c})
             /\ messages' = Forget(messages, MessagesOf(c))
    <2>1. /\ DOMAIN channels' = DOMAIN channels \ {c}
          /\ \A d \in DOMAIN channels' : channels'[d] = channels[d]
      BY <1>4 DEF Restrict
    <2>2. channels' \in [DOMAIN channels' -> ChannelRow]
      BY <1>1, <1>4, <2>1 DEF Restrict, TablesOK, TablesTypeOK
    <2>3. TablesOK' /\ GuildsStay
      BY <1>1, <1>2, <2>1, <2>2, ChannelsStep DEF TablesOK, TablesTypeOK, IdsOK
    <2>4. \A m \in DOMAIN messages \ MessagesOf(c) : messages[m].channel \in DOMAIN channels'
      BY <1>1, <2>1 DEF MessagesOf, RowsOK, QuotesStayInChannel
    <2>5. RowsOK' /\ RowsStay(r)
      BY <1>1, <1>2, <1>4, <2>3, <2>4, RowsForget
    <2> QED BY <1>2, <2>3, <2>5, ReturnStep
  <1> QED BY <1>3, <1>4 DEF DeleteChannel

\* The id drawn is greater than any that a request or a row holds.
LEMMA DrawIdStep ==
  ASSUME IInv, NEW r \in Requests, DrawId(r)
  PROVE  IInv'
  <1> DEFINE c == [call[r] EXCEPT !.message = lastId + 1]
  <1>1. RequestsTypeOK /\ TablesOK /\ RowsOK /\ CallsOK
    BY Parts
  <1>2. r \in DOMAIN call /\ call[r] \in Call /\ CallOK(r) /\ pc[r] = "write" /\ call[r].op = "send"
    BY <1>1, Active DEF DrawId, Writing, CallsOK
  <1>3. /\ lastId \in 0..MaxId /\ lastId' = lastId + 1 /\ lastId' \in lastId..MaxId
        /\ lastId + 1 \in Ids /\ lastId + 1 \notin 1..lastId /\ 1..lastId \subseteq 1..lastId'
    BY <1>1 DEF DrawId, RowsOK, Ids
  <1>4. /\ c \in Call /\ c.message = lastId + 1
        /\ c.op = call[r].op /\ c.channel = call[r].channel /\ c.replyTo = call[r].replyTo
    BY <1>2, <1>3 DEF Call
  <1>5. call' = [call EXCEPT ![r] = c] /\ Goto(r, "insert")
    BY DEF DrawId
  <1>6. OthersStay(r) /\ RequestsTypeOK' /\ r \in DOMAIN call' /\ call'[r] = c /\ pc'[r] = "insert"
    BY <1>1, <1>2, <1>4, <1>5, Assigns
  <1> HIDE DEF c
  <1>7. TablesOK' /\ GuildsStay
    BY <1>1, TablesKept DEF DrawId
  <1>8. RowsOK' /\ RowsStay(r)
    BY <1>1, <1>3, <1>7, RowsKept DEF DrawId, RowsOK
  <1>9. DrawsAnew(r)
    BY <1>3, <1>4, <1>6 DEF DrawsAnew
  <1>10. DrawnOK(r)'
    <2>1. c.message \notin DOMAIN messages
      BY <1>1, <1>3, <1>4 DEF RowsOK
    <2>2. \A q \in DOMAIN call \ {r} : Inserting(q) => call[q].message \in 1..lastId
      BY <1>1 DEF CallsOK, CallOK, DrawnOK
    <2>3. \A q \in DOMAIN call' \ {r} : Inserting(q)' => call'[q].message # c.message
      BY <1>1, <1>3, <1>4, <1>6, <2>2 DEF OthersStay, RequestsTypeOK, Inserting
    <2> QED BY <1>3, <1>4, <1>6, <2>1, <2>3 DEF DrawId, DrawnOK, Inserting
  <1>11. ReplyOK(r)'
    <2>1. c.replyTo # None => /\ Settled(c.replyTo)
                              /\ c.replyTo \in DOMAIN messages =>
                                   messages[c.replyTo].channel = c.channel
      BY <1>2, <1>4 DEF CallOK, ReplyOK, Writing
    <2>2. c.replyTo # None => c.replyTo \in 1..lastId' /\ c.replyTo # c.message
      BY <1>3, <1>4, <2>1 DEF Settled
    <2>3. ASSUME c.replyTo # None, NEW q \in DOMAIN call', Inserting(q)'
          PROVE  call'[q].message # c.replyTo
      <3>1. CASE q = r
        BY <1>6, <2>2, <2>3, <3>1
      <3>2. CASE q # r
        BY <1>1, <1>6, <2>1, <2>3, <3>2 DEF Settled, OthersStay, RequestsTypeOK, Inserting
      <3> QED BY <3>1, <3>2
    <2> QED BY <1>4, <1>6, <2>1, <2>2, <2>3 DEF DrawId, ReplyOK, Settled
  <1>12. CallOK(r)'
    BY <1>2, <1>4, <1>6, <1>10, <1>11 DEF CallOK, StepFits, EditOK, LeaveOK, Writing
  <1>13. CallsOK'
    BY <1>1, <1>6, <1>7, <1>8, <1>9, <1>12, CallsStep DEF RequestsTypeOK
  <1> QED BY <1>6, <1>7, <1>8, <1>13, Parts

LEMMA CreateMessageStep ==
  ASSUME IInv, NEW r \in Requests, CreateMessage(r)
  PROVE  IInv'
  <1>1. RequestsTypeOK /\ TablesOK /\ RowsOK /\ CallsOK
    BY Parts
  <1>2. r \in DOMAIN call /\ CallOK(r) /\ Inserting(r)
    BY <1>1, Active DEF CreateMessage, CallsOK, Inserting
  <1>3. UNCHANGED <<guilds, members, channels, usedIds, lastId, unannounced>>
    BY DEF CreateMessage
  <1>4. CASE Return(r) /\ UNCHANGED messages
    BY <1>3, <1>4, Reads, ReturnStep DEF messageVars
  <1>5. CASE ~(Return(r) /\ UNCHANGED messages)
    <2>1. Goto(r, "reread") /\ UNCHANGED call
      BY <1>5 DEF CreateMessage
    <2>2. OthersStay(r) /\ RequestsTypeOK' /\ pc'[r] = "reread"
      BY <1>1, <1>2, <2>1, Moves
    <2>3. TablesOK' /\ GuildsStay
      BY <1>1, <1>3, TablesKept
    <2>4. RowsOK' /\ RowsStay(r)
      BY <1>1, <1>2, <1>3, <1>5, RowsInsert DEF CreateMessage
    <2>5. CallOK(r)' /\ ~Inserting(r)'
      BY <1>2, <1>3, <2>1, <2>2
      DEF CallOK, StepFits, DrawnOK, ReplyOK, EditOK, LeaveOK, Inserting, Writing
    <2> QED BY <1>3, <2>2, <2>3, <2>4, <2>5, GoOnStep
  <1> QED BY <1>4, <1>5

LEMMA EditMessageStep ==
  ASSUME IInv, NEW r \in Requests, EditMessage(r)
  PROVE  IInv'
  <1>1. RequestsTypeOK /\ TablesOK /\ RowsOK /\ CallsOK
    BY Parts
  <1>2. r \in DOMAIN call /\ CallOK(r) /\ Writing(r, "edit")
    BY <1>1, Active DEF EditMessage, CallsOK, Writing
  <1>3. UNCHANGED <<guilds, members, channels, usedIds, lastId, unannounced>>
    BY DEF EditMessage
  <1>4. CASE Return(r) /\ UNCHANGED messages
    BY <1>3, <1>4, Reads, ReturnStep DEF messageVars
  <1>5. CASE ~(Return(r) /\ UNCHANGED messages)
    <2>1. Goto(r, "reread") /\ UNCHANGED call
      BY <1>5 DEF EditMessage
    <2>2. OthersStay(r) /\ RequestsTypeOK' /\ pc'[r] = "reread"
      BY <1>1, <1>2, <2>1, Moves
    <2>3. TablesOK' /\ GuildsStay
      BY <1>1, <1>3, TablesKept
    <2>4. RowsOK' /\ RowsStay(r)
      BY <1>1, <1>2, <1>3, <1>5, RowsEdit DEF EditMessage
    <2>5. CallOK(r)' /\ ~Inserting(r)'
      BY <1>2, <2>1, <2>2
      DEF CallOK, StepFits, DrawnOK, ReplyOK, EditOK, LeaveOK, Inserting, Writing
    <2> QED BY <1>3, <2>2, <2>3, <2>4, <2>5, GoOnStep
  <1> QED BY <1>4, <1>5

LEMMA DeleteMessageStep ==
  ASSUME IInv, NEW r \in Requests, NEW i \in Instances, DeleteMessage(r, i)
  PROVE  IInv'
  <1>1. TablesOK /\ RowsOK
    BY Parts
  <1>2. Return(r) /\ UNCHANGED <<guilds, members, channels, usedIds, lastId, unannounced>>
    BY DEF DeleteMessage, Publish
  <1>3. TablesOK' /\ GuildsStay
    BY <1>1, <1>2, TablesKept
  <1>4. CASE UNCHANGED messages
    BY <1>2, <1>4, Reads, ReturnStep DEF messageVars
  <1>5. CASE messages' = Forget(messages, {call[r].message})
    <2>1. RowsOK' /\ RowsStay(r)
      BY <1>1, <1>2, <1>3, <1>5, RowsForget DEF RowsOK, QuotesStayInChannel
    <2> QED BY <1>2, <1>3, <2>1, ReturnStep
  <1> QED BY <1>4, <1>5 DEF DeleteMessage

LEMMA ChannelRequestStep ==
  ASSUME IInv, NEW r \in Requests, ChannelRequest(r)
  PROVE  IInv'
  <1>1. /\ {"createChannel", "updateChannel", "deleteChannel"} = ChannelOps
        /\ {"send", "edit", "remove"} = MessageOps
    BY DEF ChannelOps, MessageOps
  <1>2. ASSUME NEW u \in Users, NEW g \in Guild, NEW op \in ChannelOps \cup MessageOps,
               NEW c \in Channels \cup {None}, NEW m \in Ids \cup {None}, NEW re \in Ids \cup {None},
               ResolveAccess(r, u, op, g, c, m, re)
        PROVE  IInv'
    BY <1>2, ResolveAccessStep
  <1>3. ASSUME NEW u \in Users, NEW g \in Guild,
               \/ ResolveAccess(r, u, "createChannel", g, None, None, None)
               \/ \E c \in Channels :
                    \/ \E op \in {"updateChannel", "deleteChannel"} :
                         ResolveAccess(r, u, op, g, c, None, None)
                    \/ \E re \in Ids \cup {None} : ResolveAccess(r, u, "send", g, c, None, re)
                    \/ \E op \in {"edit", "remove"}, m \in Ids :
                         ResolveAccess(r, u, op, g, c, m, None)
        PROVE  IInv'
    BY <1>1, <1>2, <1>3
  <1> QED
    BY <1>3, MessageExistsStep, FindMessageAuthorStep, UpdateChannelStep, DrawIdStep,
       CreateMessageStep, EditMessageStep, CreateChannelStep, RereadStep, DeleteChannelStep,
       DeleteMessageStep
    DEF ChannelRequest

-----------------------------------------------------------------------------
(* The whole system.                                                       *)

\* The hubs and the streams only read the tables.
LEMMA Undisturbed ==
  ASSUME IInv, UNCHANGED <<guildVars, messageVars>>
  PROVE  IInv'
  <1>1. RequestsTypeOK /\ TablesOK /\ RowsOK /\ CallsOK
    BY Parts
  <1>2. PICK r : r \notin Requests
    BY NoSetContainsEverything
  <1>3. TablesOK' /\ GuildsStay /\ RowsOK' /\ RowsStay(r) /\ UNCHANGED <<lastId, pc, call>>
    BY Reads DEF guildVars, messageVars
  <1>4. RequestsTypeOK' /\ OthersStay(r) /\ r \notin DOMAIN call' /\ DrawsAnew(r)
    BY <1>1, <1>2, <1>3 DEF RequestsTypeOK, OthersStay, DrawsAnew, RowsOK, Idle
  <1>5. CallsOK'
    BY <1>1, <1>3, <1>4, CallsStep DEF RequestsTypeOK
  <1> QED BY <1>3, <1>4, <1>5, Parts

LEMMA InvariantInit == Init => IInv
  BY DEF Init, ChannelsInit, GuildInit, IInv, ChannelsTypeOK, GuildTypeOK, CallsOK, IdsOK, SeatsOK,
         OwnerKeepsSeat, MemberCountExact, OwnWords, QuotesStayInChannel, Idle

LEMMA InvariantStep == IInv /\ [Next]_vars => IInv'
  <1> SUFFICES ASSUME IInv, [Next]_vars
               PROVE  IInv'
    OBVIOUS
  <1>1. CASE UNCHANGED vars
    BY <1>1, Undisturbed DEF vars
  <1>2. CASE GuildRequest
    BY <1>2, GuildRequestStep
  <1>3. ASSUME NEW r \in Requests, ChannelRequest(r)
        PROVE  IInv'
    BY <1>3, ChannelRequestStep
  <1>4. CASE HubStep
    BY <1>4, Undisturbed DEF HubStep
  <1>5. ASSUME NEW s \in Streams, StreamStep(s)
        PROVE  IInv'
    BY <1>5, Undisturbed
    DEF StreamStep, Admit, Connect, Forward, Disconnect, Heartbeat, AskPage, FetchPage
  <1> QED BY <1>1, <1>2, <1>3, <1>4, <1>5 DEF Next

\* What requests rely on while others interfere, and what the tables owe one
\* another, holds in every reachable state.
THEOREM GuildInvariance == Spec => []IInv
  <1>1. Init => IInv
    BY InvariantInit
  <1>2. IInv /\ [Next]_vars => IInv'
    BY InvariantStep
  <1> QED BY <1>1, <1>2, PTL DEF Spec

\* However creations, joins, leaves and deletions interleave,
\* the owner of every guild keeps the one "owner" row.
THEOREM OwnersStaySeated == Spec => []OwnerKeepsSeat
  <1>1. IInv => OwnerKeepsSeat
    BY DEF IInv, SeatsOK
  <1> QED BY <1>1, GuildInvariance, PTL

\* member_count never drifts from the membership rows.
THEOREM CountsNeverDrift == Spec => []MemberCountExact
  <1>1. IInv => MemberCountExact
    BY DEF IInv, SeatsOK
  <1> QED BY <1>1, GuildInvariance, PTL

\* An edit checked against the author two statements earlier still replaces
\* nobody else's words.
THEOREM NobodySpeaksForOthers == Spec => []OwnWords
  <1>1. IInv => OwnWords
    BY DEF IInv
  <1> QED BY <1>1, GuildInvariance, PTL

\* A reply checked before its INSERT still quotes a message of its channel.
THEOREM QuotesNeverDangle == Spec => []QuotesStayInChannel
  <1>1. IInv => QuotesStayInChannel
    BY DEF IInv
  <1> QED BY <1>1, GuildInvariance, PTL
=============================================================================
