------------------------------- MODULE Guilds -------------------------------
(***************************************************************************)
(* Guilds and their members: internal/service/guild_service.go over        *)
(* internal/repository/guild_repository.go.                                *)
(*                                                                         *)
(* A request is a goroutine that issues its SQL statements one at a time;  *)
(* what it read may be stale when it writes.  A guild is addressed by its  *)
(* slug only in the first statement and by its id afterwards.  The slug    *)
(* never changes and is unique, so the id stands for both.                 *)
(***************************************************************************)
EXTENDS Integers, FiniteSets, Functions

CONSTANTS
  Guild,       \* guild ids; each is given out once
  Users,
  Requests,    \* concurrent HTTP requests
  Channels,    \* channel ids; each is given out once
  Names,       \* channel names, already slugs
  General,     \* GuildDefaultChannelName
  MaxId,       \* bound on the message ids given out
  Operations,  \* the operations clients ask for: all, or a bound on an instance
  None         \* SQL NULL, and an unset local

Role == {"owner", "admin", "member"}

ASSUME GuildAssumption ==
  /\ MaxId \in Nat
  /\ General \in Names
  /\ None \notin Guild \cup Users \cup Channels \cup Names \cup Role \cup Nat

VARIABLES
  guilds,    \* the guilds table, from the ids it holds
  members,   \* the guild_members table, from <<guild, user>> to the role
  channels,  \* the guild_channels table
  usedIds,   \* guild and channel ids given out so far
  pc,        \* the next statement of each request
  call       \* its parameters, and what it has read

guildVars == <<guilds, members, channels, usedIds, pc, call>>

-----------------------------------------------------------------------------

Ids == 1..MaxId

GuildOps   == {"join", "leave", "updateGuild", "deleteGuild"}
ChannelOps == {"createChannel", "updateChannel", "deleteChannel"}
MessageOps == {"send", "edit", "remove"}

Call == [ op      : GuildOps \cup ChannelOps \cup MessageOps,
          user    : Users,
          guild   : Guild,
          role    : Role \cup {None},
          channel : Channels \cup {None},
          message : Ids \cup {None},
          replyTo : Ids \cup {None} ]

GuildRow   == [owner : Users, isPublic : BOOLEAN, memberCount : Nat]
ChannelRow == [guild : Guild, name : Names]

GuildTypeOK ==
  /\ DOMAIN guilds \subseteq Guild
  /\ guilds \in [DOMAIN guilds -> GuildRow]
  /\ DOMAIN members \subseteq Guild \X Users
  /\ members \in [DOMAIN members -> Role]
  /\ DOMAIN channels \subseteq Channels
  /\ channels \in [DOMAIN channels -> ChannelRow]
  /\ usedIds \subseteq Guild \cup Channels
  /\ DOMAIN call \subseteq Requests
  /\ call \in [DOMAIN call -> Call]
  /\ pc \in [Requests -> {"idle", "member", "replyTo", "author", "write",
                          "insert", "reread"}]

GuildInit ==
  /\ guilds   = [g \in {} |-> None]
  /\ members  = [m \in {} |-> None]
  /\ channels = [c \in {} |-> None]
  /\ usedIds  = {}
  /\ pc       = [r \in Requests |-> "idle"]
  /\ call     = [r \in {} |-> None]

-----------------------------------------------------------------------------
(* Requests.                                                               *)

Idle(r) == pc[r] = "idle"

Goto(r, label) == pc' = [pc EXCEPT ![r] = label]

\* The request starts with what the caller sent, then goes on at label.
Enter(r, c, label) ==
  /\ call' = [q \in DOMAIN call \cup {r} |-> IF q = r THEN c ELSE call[q]]
  /\ Goto(r, label)

Return(r) ==
  /\ call' = Restrict(call, DOMAIN call \ {r})
  /\ Goto(r, "idle")

RoleOf(g, u) == IF <<g, u>> \in DOMAIN members THEN members[<<g, u>>] ELSE None

IsGuildManager(role) == role \in {"owner", "admin"}

-----------------------------------------------------------------------------
(* The tables.  A statement that meets no row, or a constraint, changes    *)
(* nothing: the request reports an error.                                  *)

MembersOf(g)  == {m \in DOMAIN members : m[1] = g}
ChannelsOf(g) == {c \in DOMAIN channels : channels[c].guild = g}

\* Mistake: the owner's row is left to a request of its own.
InsertGuildAlone(g, u, public, c) ==
  /\ guilds' = [x \in DOMAIN guilds \cup {g} |->
                  IF x = g THEN [owner |-> u, isPublic |-> public, memberCount |-> 0]
                  ELSE guilds[x]]
  /\ UNCHANGED <<members, channels>>

\* CreateGuild's transaction: the guild, its owner's row, its first channel.
InsertGuild(g, u, public, c) ==
  /\ guilds' = [x \in DOMAIN guilds \cup {g} |->
                  IF x = g THEN [owner |-> u, isPublic |-> public, memberCount |-> 1]
                  ELSE guilds[x]]
  /\ members' = [x \in DOMAIN members \cup {<<g, u>>} |->
                   IF x = <<g, u>> THEN "owner" ELSE members[x]]
  /\ channels' = [x \in DOMAIN channels \cup {c} |->
                    IF x = c THEN [guild |-> g, name |-> General] ELSE channels[x]]

\* The trigger on guild_members keeps guilds.member_count.
CountMember(g, by) == guilds' = [guilds EXCEPT ![g].memberCount = @ + by]

\* Mistake: a row that is there already is written over.
UpsertMember(g, u) ==
  \/ /\ g \in DOMAIN guilds
     /\ members' = [x \in DOMAIN members \cup {<<g, u>>} |->
                      IF x = <<g, u>> THEN "member" ELSE members[x]]
     /\ CountMember(g, 1)
  \/ g \notin DOMAIN guilds /\ UNCHANGED <<guilds, members>>

\* AddMember: the guild must still exist, and the pair be new.
AddMember(g, u) ==
  LET fits == g \in DOMAIN guilds /\ <<g, u>> \notin DOMAIN members IN
  \/ /\ fits
     /\ members' = [x \in DOMAIN members \cup {<<g, u>>} |->
                      IF x = <<g, u>> THEN "member" ELSE members[x]]
     /\ CountMember(g, 1)
  \/ ~fits /\ UNCHANGED <<guilds, members>>

\* Mistake: the count goes down whether or not a row was deleted.
RemoveMemberCounted(g, u) ==
  \/ /\ g \in DOMAIN guilds
     /\ members' = Restrict(members, DOMAIN members \ {<<g, u>>})
     /\ CountMember(g, -1)
  \/ g \notin DOMAIN guilds /\ UNCHANGED <<guilds, members>>

RemoveMember(g, u) ==
  \/ /\ <<g, u>> \in DOMAIN members
     /\ members' = Restrict(members, DOMAIN members \ {<<g, u>>})
     /\ CountMember(g, -1)
  \/ <<g, u>> \notin DOMAIN members /\ UNCHANGED <<guilds, members>>

UpdateGuildRow(g, public) ==
  guilds' = [x \in DOMAIN guilds |->
               IF x = g THEN [guilds[x] EXCEPT !.isPublic = public] ELSE guilds[x]]

\* The foreign keys cascade to the members and the channels.
DeleteGuildRow(g) ==
  /\ guilds'   = Restrict(guilds, DOMAIN guilds \ {g})
  /\ members'  = Restrict(members, DOMAIN members \ MembersOf(g))
  /\ channels' = Restrict(channels, DOMAIN channels \ ChannelsOf(g))

-----------------------------------------------------------------------------
(* The operations.                                                         *)

\* CreateGuild: everything it writes is one transaction.
CreateGuild(u, g, public, c) ==
  /\ {g, c} \cap usedIds = {}
  /\ usedIds' = usedIds \cup {g, c}
  /\ InsertGuild(g, u, public, c)
  /\ UNCHANGED <<pc, call>>

\* FindGuildBySlug, the first statement of the other operations.
FindGuild(r, u, op, g) ==
  /\ Idle(r)
  /\ g \in DOMAIN guilds
  /\ op = "join" => guilds[g].isPublic
  /\ op = "deleteGuild" => guilds[g].owner = u
  /\ Enter(r, [op |-> op, user |-> u, guild |-> g, role |-> None, channel |-> None,
               message |-> None, replyTo |-> None],
           IF op = "deleteGuild" THEN "write" ELSE "member")
  /\ UNCHANGED <<guilds, members, channels, usedIds>>

\* Mistake: any member may leave.
MayProceedOwnerToo(op, role) ==
  CASE op = "join"        -> role = None
    [] op = "leave"       -> role # None
    [] op = "updateGuild" -> IsGuildManager(role)

\* What the caller's membership allows.
MayProceed(op, role) ==
  CASE op = "join"        -> role = None
    [] op = "leave"       -> role \in {"admin", "member"}
    [] op = "updateGuild" -> IsGuildManager(role)

\* FindMember, their second statement.
FindMember(r) ==
  /\ pc[r] = "member"
  /\ LET role == RoleOf(call[r].guild, call[r].user) IN
     \/ /\ MayProceed(call[r].op, role)
        /\ call' = [call EXCEPT ![r].role = role]
        /\ Goto(r, "write")
     \/ /\ ~MayProceed(call[r].op, role)
        /\ Return(r)
  /\ UNCHANGED <<guilds, members, channels, usedIds>>

Writing(r, op) == pc[r] = "write" /\ call[r].op = op

JoinGuild(r) ==
  /\ Writing(r, "join")
  /\ AddMember(call[r].guild, call[r].user)
  /\ Return(r)
  /\ UNCHANGED <<channels, usedIds>>

LeaveGuild(r) ==
  /\ Writing(r, "leave")
  /\ RemoveMember(call[r].guild, call[r].user)
  /\ Return(r)
  /\ UNCHANGED <<channels, usedIds>>

\* Only is_public matters here; an update of anything else leaves it alone.
UpdateGuild(r, public) ==
  /\ Writing(r, "updateGuild")
  /\ UpdateGuildRow(call[r].guild, public)
  /\ Return(r)
  /\ UNCHANGED <<members, channels, usedIds>>

DeleteGuild(r) ==
  /\ Writing(r, "deleteGuild")
  /\ DeleteGuildRow(call[r].guild)
  /\ Return(r)
  /\ UNCHANGED usedIds

GuildStep(r) ==
  \/ \E u \in Users, op \in GuildOps \cap Operations, g \in Guild : FindGuild(r, u, op, g)
  \/ FindMember(r)
  \/ JoinGuild(r)
  \/ LeaveGuild(r)
  \/ \E public \in BOOLEAN : UpdateGuild(r, public)

GuildNext ==
  \/ \E u \in Users, g \in Guild, public \in BOOLEAN, c \in Channels : CreateGuild(u, g, public, c)
  \/ \E r \in Requests : GuildStep(r) \/ DeleteGuild(r)

-----------------------------------------------------------------------------
(* Properties.                                                             *)

\* A guild is never left with nobody able to administer it: its owner holds
\* the one "owner" row as long as the guild exists.
OwnerKeepsSeat ==
  /\ \A g \in DOMAIN guilds : RoleOf(g, guilds[g].owner) = "owner"
  /\ \A m \in DOMAIN members : members[m] = "owner" => guilds[m[1]].owner = m[2]

\* member_count is the number of membership rows, whatever joins and leaves
\* raced, and no membership outlives its guild.
MemberCountExact ==
  /\ \A g \in DOMAIN guilds : guilds[g].memberCount = Cardinality(MembersOf(g))
  /\ \A m \in DOMAIN members : m[1] \in DOMAIN guilds
=============================================================================
