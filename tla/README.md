# A verification project for the echobackend server

TLA+ models of the parts of this Go server where requests, goroutines and SQL
statements meet, TLC configurations that check them on small instances, and
TLAPS proofs of what matters most for every instance.

Contents: [the system](#1-the-system) · [the models](#2-the-models) ·
[the runs](#3-the-runs) · [fairness](#4-fairness) · [the proofs](#5-the-proofs) ·
[what the models disagree with](#6-where-code-and-comments-disagree) ·
[the plan](#7-the-plan) · [what is left out](#8-what-is-not-modelled-and-why)

## 1. The system

A stateless HTTP server (Echo) over PostgreSQL (GORM), optionally Redis. Every
request runs in a goroutine of its own, `handler -> service -> repository`, and
several server instances may share the database. Almost no service method opens
a transaction, so the unit of atomicity is **one SQL statement** (under READ
COMMITTED), or one of the few `Transaction` blocks. What a request read may be
stale when it writes.

| component | state | operations | talks to |
|---|---|---|---|
| **Sessions** (`auth_service.go`, `session_repository.go`) | `sessions` rows: family, two deadlines, `rotated_at` | login, refresh (rotate / grace sibling / replay), logout, revoke family / user / all, prune | `users` (soft delete) |
| **Accounts and credentials** (`auth_service.go`, `user_service.go`, their repositories) | `users`, `password_reset_tokens`; OAuth exchange codes (Redis or memory) | register, login, forgot/reset/change password, profile, GitHub sign-in; create, update, delete, restore by an administrator | sessions, e-mail queue |
| **E-mail queue** (`platform/email`) | channel of 128 mails, 2 workers | enqueue, send, close | SMTP |
| **Realtime hub** (`platform/realtime/hub.go`) | per instance: subscriptions with 64-event channels, `closed`, a relay goroutine | subscribe, publish, deliver, drop, close | Redis pub/sub, event streams |
| **Guilds** (`guild_service.go`, `guild_repository.go`) | `guilds` (owner, visibility, `member_count`), `guild_members` | create, update, delete, join, leave | channels (foreign keys) |
| **Guild channels** (`guild_channel_*.go`) | `guild_channels`, `guild_channel_messages` | channel and message CRUD, paging, event stream | guilds, hub |
| **AI chat** (`chat_conversation_*.go`, `platform/openrouter`) | conversations, messages; three goroutines per streamed reply | CRUD, streamed and plain replies, titles | OpenRouter |
| **Posts and tags** (`post_service.go`, `tag_service.go`) | `posts`, `tags`, `posts_to_tags`; lists kept in Redis | write, update, delete, find or create tags, random and trending lists | everything below |
| **Moderation** (`post_report_*.go`) | `post_reports`, `post_moderation_actions`, `hidden_at` of a post | report, hide, unhide, dismiss | posts |
| **Likes, views, comments, follows, notifications** | rows with unique indexes; counters in `posts` and `users` kept by triggers | toggles, edits, marks | posts, Redis markers |
| **Bookmarks** (`bookmark_*.go`) | `post_bookmarks`, `bookmark_folders` | toggle, update, move, folders | posts |
| **Portfolio** (`holding_*.go`) | `holdings`, one row per asset and month | CRUD, sync prices, duplicate a month, reports | quotes |
| **Quotes, rates, calendar** (`platform/market`, `exchange_rate_service.go`, `corporate_action_*.go`) | cached quotes and rates, `corporate_actions` | read-through, inverse rates, fetch a month once | RapidAPI, Redis |
| Rate limiter, auth middleware, wiring, DTOs, text helpers | a counter per client; otherwise stateless | | Redis |

`PROJECT.json` lists every component with its sources and status, and 40 places
that are hard to test with the properties that watch them.

**What is hard here, and what correct means.**

* *Sessions.* Two browser tabs refresh with the same token at once; a logout
  lands between a refresh's read and its write; a client retries a refresh whose
  answer it lost; a token is replayed; a request dies between statements.
  Correct: a family keeps its owner and its deadline, a token is rotated at most
  once, nothing is accepted past the deadline, a replay kills its family and no
  other, a revoked family stays dead, live rows are kept so that replays stay
  recognisable.
* *Hub.* Close, a reader's own close and the dropping of a slow reader race for
  the same channel; Redis rejects or loses messages; shutdown must not hang.
  Correct: a reader never has a silent gap, no channel is closed twice or sent
  to after closing, streams end and `Close` returns.
* *Guilds and channels.* Everything a request checked may be gone when it
  writes, including the whole guild. Correct: each guild has its owner's row,
  `member_count` is exact, replies quote messages of their own channel, a
  message holds only its author's words, a client that connects and then pages
  misses nothing, and whoever leaves is cut off.
* *Accounts and credentials.* Every request that touches an account reads its
  row and writes all columns of its copy back; names are looked up before they
  are taken; a login, a reset and a deletion overlap a change of password.
  Correct: nobody shares an e-mail address, a username or a GitHub account with
  another account in use, a deleted account stays as it was, a change of
  password that met nobody holds, an accepted mail is tried once or is still in
  the queue of a closed service.
* *AI chat.* A reply passes through three goroutines joined by unbuffered
  channels; the provider breaks off, the client leaves, the conversation is
  deleted, each at any moment. Correct: a client that stays gets exactly one
  verdict, a reply it is told is stored is stored as it was shown, no part of a
  reply is stored as if it were the whole, and no goroutine is left behind.
* *Content.* Two moderators decide about one post; a reader likes a post while
  it is hidden or deleted; two authors bring in the same tag; an UPDATE through
  GORM's `Save` brings back rows others have deleted. Correct: the moderation log
  accounts for every post and report, posts have the tags their author asked
  for, counters count rows, whatever begins after a post was hidden leaves it
  alone, and no row refers to one that is gone.
* *Portfolio.* A sync writes values computed from rows read before a slow call; a
  month is copied row by row outside a transaction; reports are put together
  from several queries; caches and the calendar serve what was fetched before.
  Correct: what succeeds undisturbed is whole, a sync never takes back what the
  owner changed, and what nobody disturbed adds up.

## 2. The models

Common conventions. A request is an element of `Requests`; `pc[r]` names the
statement it executes next; its locals (`user`, `cur`, `next`, `call`) are
copies that go stale. One SQL statement, one critical section under a mutex or
one channel operation is one action. A handler's returns and errors are steps
back to `"idle"`. Variables marked *history* are written by the model and read
only by properties. An operator whose comment begins with **Mistake:** is not
used by any action: it is the form a plausible bug would give the operator that
follows it, and every checked property is known to fail when one of them is put
in place of the original (`mutants` in `PROJECT.json`).

### AuthSessions (sessions)

| TLA+ | code |
|---|---|
| `sessions` | the table: a function from the tokens present to rows (`model.Session`); the token's hash and the row's id are both fresh at birth, so one name stands for both |
| `now` | `time.Now()`, capped by `MaxTime` |
| `deleted` | soft-deleted users |
| `cur[r]`, `next[r]` | the row `RefreshToken` read, the row `buildSession` built |
| `doomed[r]` | the snapshot of a running DELETE: READ COMMITTED does not see rows inserted after it began |
| `Login`, `Mint`, `CreateSession`, `Prune` | `Login`, `createTokenAndSession`, `buildSession`, `DeleteExpired` |
| `RefreshLookup`, `RefreshClassify`, `LoadUser`, `Mint`, `Rotate` / `RotateLost`, `CreateSession`, `Prune` | `RefreshToken`, `issueRotatedToken`, `RotateSession` statement by statement; `RotateSession` itself is one transaction |
| `DropSession`, `Logout`, `RevokeUserSessions`, `RevokeAllSessions`, `DeleteAccount`, then `DeleteStart` / `DeleteFinish` | the deletes of `session_repository.go` and who asks for them |
| `DeleteUser`, `RestoreUser` | `user_repository.go`: soft delete without revocation, restore |
| `Abort(r)` | a statement fails, the client leaves, the process dies: what was committed stays |

`TokenFamilies` is the abstract specification: tokens form families; redeeming
one adds one; a revoked family is never extended; with `SingleUse` a token is
redeemed once. The end of `AuthSessions` maps the ledger of inserted
rows (`issued`) onto it. `dead` maps to `revoked`: the families whose revocation met
no refresh in flight. (For the other families the promise is false, see
section 6.)

### RealtimeHub, RealtimeHubFeeds (hub)

`RealtimeHub` holds the state and actions of any number of hubs
(`Instances`), one action per critical section under `h.mu`: `Subscribe`,
`Deliver` (used by `RelayDeliver` and `PublishLocally`), `RemoveLocked`,
`CloseHub`. The steps between them are those of the goroutines: the relay
(`RelayReceive`, `RelayDeliver`, `RelayExit`), `Close` (`CloseHub`,
`CloseCancel`, `CloseReturn`), the reader (`Receive`, `EndOfStream`, `GiveUp`)
and the publisher (`PublishToRedis`, `PublishRejected`, `PublishLocally`). Redis
is external: it gives every running relay the message, may report an error after
having done so, and loses what is under way when a connection breaks
(`RelayLoses`). `closes[s]` counts closings of a channel, because the second one
is a panic. `RealtimeHubFeeds` composes the actions into a system and remembers
what each subscription was owed and what its reader got.

### Guilds, GuildChannels, GuildStreams (guilds)

`Guilds` has the two tables, the cascade of the foreign keys and the trigger
that keeps `member_count`. Creation is one transaction; the other operations are
`FindGuild`, `FindMember` and a write. `GuildChannels` extends it with channels
and messages: `ResolveAccess`, the checks, the write, the re-read, and
`Publish`, which hands the event to the hub through
`Hub == INSTANCE RealtimeHub` (topics are guilds, publishers are requests).
`DrawId` and `CreateMessage` are two actions since an INSERT draws its uuidv7
before its row becomes visible. The messages of a dropped channel or guild go
with it. `GuildStreams` adds the SSE handler (`Admit`, `Connect`, `Forward`,
`Heartbeat`, `Disconnect`) and its client, which pages backwards
(`AskPage`, `FetchPage`). Names, texts and avatars are abstracted: a message's
text is "who typed it last", a channel's name matters only for its uniqueness.

### ChatConversations, ChatStreams (AI chat)

`ChatConversations` has the two tables and the requests up to the point where a
reply is generated, one SQL statement per action. An UPDATE of a conversation is
a check, the UPDATE and a re-read in the code; only the UPDATE is an action,
since the other two can only make the request fail, which `Fail` allows at every
statement. Titles are reduced to where they come from (`Default`, set by the
user, made from the first message); pins, times and token counts are left out.

`ChatStreams` adds the streamed reply. `provider[r]`, `relay[r]` and `handler[r]`
say where the goroutines of a request are: `GenerateStream`, the goroutine of
`createStreamingMessageInternal`, and `streamChatEvents`. The two chunk channels
have no buffer, so a send and its receive are one action (`ReceiveChunk`,
`ForwardChunk`). The channels for the outcome have room for one value and are
closed before the chunk channel: they are the variables `broken`, `failure` and
`complete`, read once the sender is `"done"`. `canceled[r]` is the context the
three share. `Over` takes away a request whose goroutines have all returned.

### Accounts, MailQueue, Credentials (accounts, passwords, reset mails)

`Accounts` has the `users` table with its unique indexes and every operation of
`user_repository.go` and `auth_repository.go` that writes it. Here `todo[r]` is
the sequence of statements a request still has to execute, fixed when it enters
(a rename looks the username up only if it changes, say), and `call[r]` is the
account and the row it is going to write. `Enter` is the read the request begins
with; a statement that refuses the request ends it (`Quit`), as does a failure
anywhere (`Fail`). An e-mail address is a pair of the address and whether it is
spelled with capitals: lookups ignore the spelling, the unique index does not,
`NormalizeEmail` removes it. Names, images, times and the admin flag travel in
the same copies and are left out; so are the hashes, and with them the upgrade
of an old hash at login, which stores the same password again.

`MailQueue` is the bounded channel, the workers' `select` (`Take`, `Stop`), the
SMTP dialogue as one step that may fail (`Done`), and `Close`. A mail is named by
the token in its link. `Credentials` extends `Accounts` and instantiates the
queue: `Login`, `SignInWithGithub`, `ForgotPassword`, `ResetPassword`,
`ChangePassword`, `DeleteAccount` and their statements. A session is reduced to its account
and the password it was opened with; how it is refreshed is `AuthSessions`.
A reset link is usable once its mail has been tried. The mail service is the
configured one: without SMTP settings no mail is queued at all.

A request may ask for the operations of `asks[r]`. `asks` is chosen from
`Workloads` in the initial state and never changes, so one run explores the sum
of several small instances and not their product.

### HttpRequests, Posts, Moderation, PostTags, Reactions, Bookmarks, Notifications, Follows, Content

`HttpRequests` is the frame of these modules and of `Portfolio`: `todo[r]` are
the statements request `r` has yet to execute, `call[r]` its locals; `Enter`,
`At`, `Advance`, `Check`, `Quit` and `Fail` are the control flow of a handler,
`AtOnce` a handler of one statement. `Put` writes entries into a map, replacing
those under the same keys.

| TLA+ | code |
|---|---|
| `posts`, `decisions` (`Posts`) | `posts` (author, hidden, three counters), `post_moderation_actions` in the order of the commits |
| `Locked(p)` | the `FOR UPDATE` of `Moderate`: between `LockPost` and `Decide` whatever writes the row, or inserts a row that refers to it, waits |
| `FindPost`, `FindOpenPost` | `GetPostByID`, with `ensurePostInteractable` |
| `FindReported`, `InsertReport`, `LockPost`, `Decide` (`Moderation`) | `ReportPost`, `Create` with its partial unique index, `Moderate` with `closePending` |
| `FindTag`, `InsertTag`, `FindTagAgain` (`PostTags`) | the three statements of `FindOrCreateByName` |
| `InsertTaggedPost`, `FindOwn`, `Attach`, `Detach` | `CreatePostWithTags`; `UpdatePostWithTags(ByOwner)`, whose `Replace` inserts and then deletes join rows; `TagsSaved` is the upsert GORM makes of the tags themselves |
| `LookUp`, `Query`, `Store`, `ExpireList` | `GetPostsRandom`, `GetPostsTrending` and their copies in Redis |
| `CheckLike`, `InsertLike`, `DeleteLike`, `FindView`, `InsertView`, `MarkViewed`, `FindComment`, `SaveComment`, `DeleteComment` (`Reactions`) | the two or three statements of each operation; the triggers that count are part of the statement that fires them |
| `LoadMark`, `MoveMark`, `SaveMark`, `PutMark`, `LoadFolder`, `SaveFolder` (`Bookmarks`) | `FindBookmarkByID`, `FindFolderByID` with what they preload, and `Save`: first the preloaded records that are gone are inserted again, then the row is updated, and if there is none inserted |
| `InsertFollow`, `DeleteFollow` (`Follows`), `Notify`, `MarkAsRead`, `MarkAllAsRead` (`Notifications`) | the follow with its trigger, and best-effort notifications |
| `RemovePost` (`Content`) | `DeletePost`, `DeleteMyPost` with everything the foreign keys delete or set to NULL |

Titles, texts, slugs and the published flag guard nothing modelled here and are
left out. `gone` (history) are ids of deleted rows: sequences and uuidv7 never
give one out twice, so an id of `gone` that is back was brought back by a `Save`.
`asked[p]` (history) is what the last undisturbed request wanted p's tags to be.

### Quotes, Holdings, HoldingReports, CorporateActions, Portfolio

`Quotes` has the market (external), the Redis copies of quotes and rates and the
two statements of `GetQuotes` (`CachedQuotes`, `FetchQuotes`), which a sync and an
exchange rate share. `Holdings` has the table and the operations that write it:
`UpdateHolding` (`FindHoldingType`, `WriteHolding`), `SyncPrices`
(`FindForSync`, quotes, `SelectQuoted`, one `UpdatePrice` per row),
`DuplicateHoldings` (`FindForDuplicate`, `ClearMonth`, one `CopyHolding` per
row). `HoldingReports` are the summary (three queries), the comparison of two
months (ten) and the monthly series with the defaults and limits of its range.
`CorporateActions` is the calendar of a month: `GetCalendar` asks the exchange
unless a row of the month is stored, `FetchActions` may miss either kind,
`StoreActions` upserts what came, deduplicated. Amounts are integers in
hundredths, so the roundings of values to two decimals are exact; percentages
are left out. `disturbed` (history) are the requests during which another one
wrote.

## 3. The runs

| run | instance | shows |
|---|---|---|
| `AuthSessionsStrict` | 2 users with a login each, 3 tokens, 2 requests, grace 0 | `RevocationScoped`, `StrictSingleUse`; `RefinesTokenFamilies` |
| `AuthSessionsGrace` | 1 user with two logins, 3 tokens, 2 requests, grace 1, deadline 2, clock to 3 | types; `FamilyDeadline`, `SingleSuccessor`, `RevocationIsFinal`, `GraceAnchored`, `OnlyRevocationRemovesLiveRows`, `NoRedemptionPastDeadline` |
| `AuthSessionsLogoutEndsChain` | as Grace, deadline 3 | a violation: section 6 |
| `RealtimeHubFeeds` | 1 instance with Redis, 2 subscriptions, 2 publishers, 2 events, buffer 1 | types; `NoSilentGap`, `ClosedOnce`, `CloseReturns`, `ShutdownEndsStreams` |
| `GuildRequests` | 1 guild, 2 users, 2 channels and names, 2 messages, 2 requests, no streams | types; `OwnerKeepsSeat`, `MemberCountExact`, `OwnWords`, `QuotesStayInChannel` |
| `GuildHistory` | 1 user, 2 requests, 2 messages, 1 stream, page size 1, no Redis | `NothingMissed`, `PagesDisjoint` |
| `GuildCutOff` | 2 users, 2 requests, 1 stream, no messages | `LeaversCutOff` |
| `ChatStreams` | 1 user, 1 conversation, 2 messages, 2 chunks; one request streams, one writes and deletes | types; `OneVerdict`, `ShownIsStored`, `WholeReplies`, `StreamsEnd` |
| `Credentials` | 2 users, 2 addresses, usernames, passwords and tokens, 1 GitHub account, 1 worker, a queue of one, 2 requests in 8 workloads | types; `UniqueIdentities`, `DeletedUntouched`, `ChangedForGood`, `MailsAccountedFor` |
| `CredentialsOldSessionsEnd` | the same | a violation: section 6 |
| `Content` | 2 users, tags, tag names, bookmarks and folders, 1 comment, 2 notifications, 1 or 2 posts, 2 decisions, 2 requests in 15 workloads | types and references; `LogAccounts`, `TagsAsAsked`, `CountsMatchRows`, `HiddenLeftAlone` |
| `Portfolio` | 2 requests in 11 workloads over December 2023 and January 2024, 1 to 4 holdings, prices 0 and 3 | `WritesWhole`, `ReportsAddUp` |

Bounds and why they suffice to reach the cases of interest:

* *Requests.* Every hazard listed for these parts is a race of two requests (one
  between its read and its write, the other anywhere). Each request may start
  again without limit.
* *Tokens.* Three tokens are a login, its successor and a grace sibling, or a
  chain of two rotations: each shape of a family the code distinguishes. The
  theorems of section 5 lift the bound.
* *Time.* The clock runs to `MaxTime`. Deadlines of one and two ticks let every
  comparison come out both ways, and equal; in Grace the clock runs past the
  absolute deadline while the window of a late rotation is still open.
* *Logins.* `MaxLogins` bounds the families of one account: one where two
  accounts meet, two where one account has them. A state beyond is not explored
  further.
* *Hub.* A buffer of one fills with one event, a second one overflows it. Two
  publishers and two subscriptions give Redis and the local fallback different
  orders. The proofs hold for any number of all of them, several hubs included.
* *Guilds.* Ids are never reused, so one guild can be deleted under a request
  but not replaced. Two channels are needed for a reply to reach outside its
  own. `Operations` is the set of operations clients ask for: an instance that
  is about message races need not also rename channels. Together the runs take
  every action (`updateGuild` and `updateChannel` are in `GuildCutOff`).
* *GuildHistory* has no Redis: when Redis drops its connection events are lost
  and no client is told, so the property does not hold and is not claimed. A
  message whose request failed between its INSERT and its event is excepted
  (`unannounced`): no stream hears of it.

* *Chat.* One streaming request is enough for the three goroutines; the other
  one (`MCOperations`) is there to delete and rename under it. Two messages are a
  question and its reply. Two chunks let one be shown while the next is on its
  way, which is where every goroutine can be stuck on another.

* *Credentials.* Each workload of `MCCredentials` sets two requests against each
  other: sign-ins and profile writes against a change of password, deletions and restorations
  against both, reset links against each other and against a change, mails
  against the shutdown, and administrators against owners over the same two
  names. Two users are what a clash of names needs, two tokens fill a queue of
  one and one worker.

* *Content.* Every workload of `MCContent` sets two requests against each other.
  One post is enough for races about a post; `PostsWork` has two, for reports of
  several posts, lists, a shared tag and a bookmark whose post another replaces.
  Two decisions are a hide and what follows it; two tags, names, bookmarks and
  folders are what a wrong one can be taken for. One comment and two
  notifications cover what is said of them.

* *Portfolio.* Two months around a turn of the year are where month arithmetic
  can go wrong. `minHoldingYear` is 2023 for 1990 and `maxMonthlyRangeMonths` is
  14 for 240, so a range can be refused by either, and the rates are multiples
  of 1/4 for 1/10^8. The number of holdings ever inserted depends on the
  workload (`MCMaxHoldings`): one where a row is edited under a sync, two where a
  loop can stop half way, up to four where a month is copied over another. One
  of the prices is 0, which stands for a quote without a price. Three
  announcements give two rows of one key and one of another kind.

`CHECK_DEADLOCK FALSE` is given where the system may really stop: a hub that is
closed with everyone gone, guild ids and message ids used up, a conversation deleted. AuthSessions has
no such state, since an account can always be deleted and restored, and neither
has Credentials, where somebody may always try to register.

## 4. Fairness

Only the liveness properties use it.

* `HubFairness`: a goroutine that can run runs. Weak fairness for a stream
  handler's loop (receive, or return when the channel is closed), for the relay
  and for `Close`. Publishers, clients that leave and Redis owe nothing. While
  messages keep coming the relay's `select` may pick them before `ctx.Done()`;
  `RealtimeHubFeeds` has finitely many events, so that cannot go on for ever
  there.
* `GuildStreams!Fairness`: a stream's ticker fires again and again and one of
  the membership reads succeeds eventually. The code keeps the stream when the
  read fails, so without the second assumption `LeaversCutOff` is false; this
  is listed as a hazard.
* `ChatStreams!Fairness`: each goroutine of a streamed reply that can take a step
  takes one. The provider's reads end at the latest with the timeout of its HTTP
  client, every write of the handler has a deadline of ten seconds, a SQL
  statement ends. The client owes nothing.

AuthSessions, Credentials, Content and Portfolio have safety properties only: a
request that fails half way leaves work undone by design (`Abort`, `Fail`), mails
still queued when the service closes are lost by design, and no statement of
these components waits for another request but at a row lock, which ends with
its transaction.

## 5. The proofs

`tlapm` checks every obligation; nothing is assumed but the named constant
assumptions (`ConfigAssumption`, `NoneAssumption`: lifetimes are naturals, the
absolute one at least the sliding one as `config` enforces, `None` is no value
of the types; `HubAssumption`, `HubsAssumption`: the buffer is a natural number,
`None` is no instance or topic;
`GuildAssumption` and `PageAssumption`: ids are naturals, `None` is no value of
the types, a page has at least one row; `ChatAssumption`: the bounds on ids and
chunks are naturals, `None` is not one; `AccountsAssumption`,
`CredentialsAssumption`: `None`, `"idle"` and `"gone"` are no accounts or tokens,
a workload is a set of operations for each request, the room in the queue is a
natural; `PostsAssumption`, `PostTagsAssumption`, `BookmarksAssumption`: the
bounds are naturals, `None` is no user, row, tag or request, and a set of tag
names is not a request, so that what `asked` holds can be told apart;
`QuotesAssumption`: prices are naturals, 0 among them, the scale of rates is
positive, a pair of currencies and its inverse have tickers, and what the market
lists has one;
`HoldingsAssumption`, `ReportsAssumption`: months are 1 to 12, the rows users may
enter have the types of the columns, the bounds are naturals).

**AuthSessionsProofs** proves `Spec => []IInv` (`Invariance`) for
`AuthSessionsInvariant!IInv` and from it all safety and action properties of the
two passing configurations: `TypeCorrect`, `DeadlineFixedAtLogin`,
`RotatedOnce`, `UsedOnce`, `RevokedForGood`, `RevokesOwnRows`,
`DeadlineEnforced`, `GraceBounded`, `LiveRowsKept`. None of the properties is
inductive alone, because each speaks of a table while the next write comes from
a stale local copy. `IInv` says what those copies may be:

* `LocalsOK`: which locals are set at which statement;
* `LedgerOK`: every row, in the table or in a request's hands, is the row that
  was issued, up to its `rotated_at`, and a rotated row has an heir built at the
  very moment it is stamped with (this is why the grace window cannot move);
* `PendingOK`: a row about to be inserted is new, and carries family, owner and
  deadline of the row its request read;
* `ParentsOK`: how parents, families and paths (`login`, `rotate`, `sibling`)
  fit; a parent that was rotated can not be rotated again, from which
  `SingleSuccessor` follows;
* `RevocationOK`: a family in `revoked` is *sealed*: it has no row and no
  request holds a copy from which it could be revived; a running DELETE keeps
  its quiet families sealed up to the rows it is about to remove.

Each action has one step and under it one per conjunct it can disturb.

The last part of the module proves `Refinement`: `Spec` implies
`TokenFamilies!Spec` under the mapping. Inserts map to `Open` or `Redeem`, the
end of a DELETE to `Revoke`, all else to a stutter. `IInv` supplies what is
needed: the family of the parent is not dead since the request holds it.

**RealtimeHubFeedsProofs** proves `HubInvariance` and from it `HubTypeCorrect`
(a channel never exceeds its buffer), `ChannelsClosedOnce` and
`FeedsHaveNoGap`, for any number of instances, topics, subscriptions, publishers
and events. The invariant adds to the properties that a subscription is
registered at the hub that made it and nowhere else, and that one not yet made
has empty queues. Redis needs no assumption at all: whatever it duplicates or
loses, `Deliver` treats channel and debt alike.

**GuildProofs** proves `GuildInvariance`, `Spec => []IInv` for
`GuildInvariant!IInv`, and from it `OwnersStaySeated`, `CountsNeverDrift`,
`NobodySpeaksForOthers` and `QuotesNeverDangle`. What a request has checked may be
undone before it writes, so the invariant says what survives of each check:

* `LeaveOK`: the guild somebody is about to leave is owned by another, or gone
  and never to return, since its id is used;
* `EditOK`, `ReplyOK`: the message about to be edited is the caller's, the one
  replied to is in the channel, or it is gone; and it is `Settled`, that is, no
  INSERT under way can bring its id back;
* `DrawnOK`: the id drawn for an INSERT is in no row and in no other request;
* `SeatsOK`: besides the two properties, that the members of a guild are
  finitely many, which the count needs at every step.

`CallsStep` proves once what any step of one request leaves to the others: rows
disappear but never change channel or author, guilds never change hands. Each
action then has a lemma about the tables it writes and one about its request.
The hub takes part only through `Undisturbed`: it changes none of the tables.

**GuildPagesProofs** adds `PagesNeverOverlap`: until a client has the last page,
all it has is at or above its cursor and all it will fetch is below (`PagesOK`).
The least and the greatest of a set of ids come from the well-foundedness of
the naturals, the counts from `FiniteSetTheorems`.

It also proves `StreamsTypeCorrect` and, for one instance without Redis,
`NothingIsMissed`: `Spec => []NothingMissed`. The two hypotheses are the deployment
that promises it: with a relay, a message on its way through Redis is neither
pending nor in a channel, and a lost connection loses it; without one, other
instances are never told. `NothingMissed` follows a message from the INSERT
to the client, so the strengthening, `FeedInv`, says who answers for it when:

* `AnnounceOK`: a request that sends has no message before it draws its id, and
  afterwards its message is `Settled` and in its channel, if it is still there; its
  channel is the guild's it will tell, or gone (`Belongs`);
* `EventOK`: a creation being published is told to the guild of the message;
* `StreamOK`: a stream is subscribed to the guild that admitted it, whose
  channels its client reads, and one that has asked for no page has no cursor;
* `HubsOK`: a channel is open exactly while registered at the hub that made it, so
  that a delivery either reaches it or closes it, and a closed stream is not
  owed anything.

`Told` says once what a request leaves to the streams: every row of the table was
there before and told before, or is announced, or its request will still
announce it. `FeedKept` says what a step of a stream keeps. The step that
matters is `FetchPage`: what is older than the cursor is on the page or older
than the next cursor, because a message that is not among the newest n has at
least n above it (`NewestOf`, `PageTakes`).

**ChatStreamsProofs** proves `ChatInvariance`, `Spec => []IInv` for
`ChatStreamsInvariant!IInv`, and from it `ChatTypeCorrect`, `OneVerdictEach`,
`ShownAsStored` and `NeverCutShort`. The properties speak of the two ends of a
stream, so the invariant follows the chunks through it, request by request:

* `ProviderOK`: the relay has all the provider read, but for the one chunk that
  is on its way or was lost to an error;
* `RelayOK`: a reply is stored only after an end without an error, and a relay
  that is done has left an error or the id of the reply, which is why the
  handler never finds nothing to say;
* `ReplyOK`: the stored reply, if nobody deleted it, is what the relay has;
* `HandlerOK`: the client has all that was passed on, but for the chunk in hand,
  until the relay gives up; then no `ai_complete` follows.

`AtRest` says that nothing of an earlier stream is left behind. `StreamStays`
proves once that the steps of other requests leave a stream alone: they never
write over a stored message and never reuse an id (`RowsStay`).

**CredentialsProofs** proves `CredentialsInvariance`, `Spec => []IInv` for
`CredentialsInvariant!IInv`, and from it `CredentialsTypeCorrect`,
`IdentitiesStayUnique`, `ChangesHold`, `NoMailIsLost` and the action property
`DeletedStaysUntouched`, for any number of racing requests. A request is a
list of statements and a copy of a row, so the invariant says what order the
statements come in and what the copies may be:

* `RequestOK`, `Ordered`: a row is written only by a request that has loaded it,
  no e-mail in a copy has capitals, an INSERT has only checks before it;
* `UsersOK`: the unique indexes. They compare spellings; that addresses are
  unique in any spelling needs the normalized copies, whoever made them;
* `PasswordsOK`: as long as a change of password holds, every copy of that
  account has the new password in it, so no stale write-back can undo it. It
  is inductive since `Settle` counts a change only when nobody else has a copy;
* `TokensOK`: a token that has been issued and not yet mailed belongs to one
  request, from which it follows that no mail is enqueued twice;
* `QueueOK`: `MailsAccountedFor`, no duplicate in the channel, and no worker left
  when `Close` has returned.

`Moved` and `MovedStep` say once what a request that touches only its own locals
and the table leaves to the others; the lemmas above them show what each kind
of statement (enter, advance, quit, insert, write, undelete) does to the table.

**ContentProofs** proves `ContentInvariance`, `Spec => []IInv` for
`ContentInvariant!IInv`, and from it `ContentTypeCorrect`, `LogAlwaysAccounts`,
`CountersStayExact`, `TagsStayAsAsked` and the action property
`HiddenStaysAlone`, for any number of requests, users, posts, tags, comments,
bookmarks and folders. No two tables can be proved correct apart, since a deletion
cascades through all of them and a `Save` brings rows back. The parts:

* `RequestsOK`: the 60 or so places a handler may be at, each with what its
  locals are there. Most lemmas begin with "a request at this statement has ...";
* `RowsOK`, `FollowsCounted`: types, references, and that what is counted is finite;
* `LocksHold`, `LogBehind`: who is between `LockPost` and `Decide` is alone with
  the post, and what it checked still holds. From it `LogAccounts`: hides and
  unhides alternate because the lock keeps the check true up to the write. An
  entry's post is a post that is there, or NULL;
* `MarksAgree`, `FoldersAgree`: an id means one row. The copies requests hold are
  in the relation as well as the table, so a `Save` that inserts a copy again
  cannot give a post a second bookmark of one user, nor a folder another owner.
  `CopiesAgree` says that of the bookmarks preloaded with a folder;
* `CountsMatchRows` is inductive with these: a post that comes back is in `gone`,
  and the rows of any other post change one at a time with its counter;
* `TagsOK`: `FoundOK`, the names found and those still to look up are the names
  asked for; and a request that is still the last to have attached has all its
  tags on the post, so that `Detach` leaves exactly these;
* `SeenOpen`: a request past the check of its post, or with a list to store,
  began before a moment at which each post concerned was open, unless the post is
  gone. `HiddenLeftAlone` follows, since only such requests add rows for a post.

Each part has one lemma for a step (`RequestsStep`, `RowsStep`, `LogStep`,
`BooksStep`, `CountsStep`, `TagsStep`, `SeenStep`), which splits by kind of step
(`StepCases`) and cites a lemma per statement that matters. `Moved` and `Alone`
say once that a step moves one request, `Steady` that a statement adds no
post but those that come back and neither hides nor opens one.

**PortfolioProofs** proves `PortfolioInvariance`, `Spec => []IInv` for
`PortfolioInvariant!IInv`, and from it `PortfolioTypeCorrect`, `WritesAreWhole`
(`WritesWhole`) and `ReportsAlwaysAddUp` (`ReportsAddUp`), for any number of
users, holdings, months, requests and for all amounts. The two properties speak
of the moment of an answer only, so the invariant says what the statements
before it leave behind:

* `RequestsTyped`: where a request may be (`Updating`, `Syncing`, `Duplicating`,
  `Asking`, `Listing`, `Rating`, `Watching`) and what its locals are there. It
  mentions the tables only in what never shrinks (the ids given out, the
  announced actions), so no other request can break it;
* `RequestsIntact`, for the requests that are not in `disturbed`: the rows
  already synced are as the sync computed them, the rest as it read them
  (`SyncIntact`); the rows already copied are, one to one, in the month they go
  to (`DuplicateIntact`: the injection `copy`, extended by each INSERT); the
  answers of the queries are still what the table would answer; a calendar is
  stored whole (`CalendarWhole`). A request that changes holdings or the calendar
  puts all others in `disturbed`, so these parts too have only the request's own
  steps to survive.

Two things in this proof are about operators. A report adds up because its
parts are disjoint and a sum over a union is the sum of the sums. `SumFunction`
is a fold that picks its elements with CHOOSE, about which nothing is known but
that it picks; that the order does not matter is `FoldsAgree`, by
`SetInduction`: of the finite sets for which a statement fails one is minimal
in the strict subset order, which is well founded. From it come `TotalUnion`,
`TotalDifference` and `TotalByPart`, which the reports cite
(`BreakdownAddsUp`, `ComparedAddsUp`, `SeriesAddsUp`). And the months of a
series are numbered: `WalkIs` says which month `Walk` has in each place, from
which it follows that no month is asked for twice, also over a turn of the year.

`CopiesCounted` compares the number of copies with the number of rows through
the injection. Each statement has one lemma; `Carries` combines them in
`RequestStep`, and `WorldStep` has the market and the expiry of the caches.

Only model-checked: liveness (`CloseReturns`, `ShutdownEndsStreams`,
`LeaversCutOff`, `StreamsEnd`), which the prover does not reach. Every other
property of a passing run is a theorem.

## 6. Where code and comments disagree

* **A logout does not always end the chain** (`auth_service.go:403`). A refresh
  reads its row; the user logs out and the family's rows go; the refresh's
  UPDATE matches no row. `RotateSession` reports this as "already rotated",
  which with a grace window means "insert a sibling": the family has a live
  session after `Logout` returned. Also without a grace window, a rotation that
  commits while the DELETE runs leaves its successor outside the DELETE's
  snapshot. The comment on `Logout` says it "ends the whole rotation chain".
  `AuthSessionsLogoutEndsChain` shows it; `RevocationIsFinal` is what does hold.
* **A session opened with the old password outlives a change of password**
  (`auth_service.go:455`). A login compares the old password; the change updates
  the row and deletes the sessions; the login inserts its session, and then its
  write of `last_logged_at`, which writes the whole row, puts the old hash back:
  the change is undone as well. The comment on the revocation says "Revoke every
  refresh token so sessions opened with the old password (possibly by someone
  else) cannot be extended." `CredentialsOldSessionsEnd` shows it;
  `ChangedForGood` is what holds: a change that overlapped no other request of
  the account is not undone by anything later.

Other disagreements are in the models without a run of their own:

* A rotated token can be redeemed past its `expires_at`
  (`auth_service.go:334`): for a rotated row the grace window is tested instead of
  it. The comment on `DeleteExpired` (`session_repository.go:100`) says an expired
  rotated token "could no longer have been redeemed". `NoRedemptionPastDeadline`
  and `GraceAnchored` bound what is possible.
* A reset token presented twice at once sets two passwords, since `MarkUsed` is
  unconditional, and of any two writes of one account that overlap the first is
  lost.
* A hidden post is still shown by the cached random and trending lists until they
  expire, although `src/migrations/20260930100000_add_post_reports.sql` (lines
  3 to 6) says hidden posts are excluded from the listings. `HiddenLeftAlone` has
  what holds: no list fetched after the hide shows it.
* A deleted post comes back, without its likes and views but with its counts, when
  a bookmark of it is changed meanwhile: `Save` inserts the preloaded post again
  (`bookmark_repository.go:95`). `docs/api/paths/post.yaml:291` calls the deletion a
  hard one. Folders and bookmarks come back the same way, and a bookmark moved
  from one folder to another stays where it was, since `Save` takes the folder's
  id from the preloaded folder. `CountsMatchRows` excepts posts brought back.
* A deleted comment comes back when an edit that read it before saves it
  afterwards (`comment_repository.go:82`).
* A duplication that fails half way has deleted the month it overwrites
  (`holding_service.go:516`), and two at once leave every holding twice.

## 7. The plan

Order: the most concurrent and most consequential parts first.

1. Sessions, with abstract specification, refinement and proofs. *Done.*
2. Hub, with proofs. *Done.*
3. Guilds, channels, streams over the hub. *Done, with proofs.*
4. AI chat. *Done, with proofs.*
5. Accounts, credentials, mail queue. *Done, with proofs.*
6. Content. *Done, with proofs.*
7. Portfolio. *Done, with proofs.*

## 8. What is not modelled, and why

* OAuth exchange codes: one map or one Redis key per code, taken once under a
  mutex or by GETDEL.
* Token strings, hashes, JWTs, cookies, JSON, validation messages, SMTP and
  HTTP dialogues: no property is about their form.
* Read-only listings: one query each, no state changes. Paging through messages
  is modelled since its cursor is state a client carries.
* Per-request access tokens: stateless, checked by signature and time alone.
  Revocation does not reach them by design.
* Statistics and activity log: aggregate queries and best-effort appends that
  nothing else reads.
* The rate limiter: a request is counted by one Lua script in Redis or in one
  critical section of an instance's map. Nothing comes between, and what it
  promises is a matter of one counter and a clock.
* Public listings, feeds and search of posts: single queries. The route of
  `RecordView` asks for a session, so there are no views without a user.
* Uploads to the object store: an image is stored before anything refers to it.
* Float arithmetic: rates and values are integers here, percentages are left out.
