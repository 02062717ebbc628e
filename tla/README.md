# Verification of blog-api

TLA+ models of the blog API (`src/`, Go), the TLC runs that check them on small
instances and the TLAPS proofs of their main properties for every instance.
`PROJECT.json` maps every modelled definition to the source lines it stands for.

## 1. The system

blog-api is a hexagonal Go service over PostgreSQL and Redis. `cmd/serve.go` runs the
HTTP API, `cmd/worker.go` the outbox relay and the message consumers, `cmd/scheduler.go`
the periodic jobs. Several processes of each kind share the database, so what must be
right is mostly how their transactions, messages and caches interleave.

| Component | State it keeps | Operations | Talks to |
|---|---|---|---|
| Outbox and relay (`persistence/outbox_repository.go`, `outbound/outbox/relay.go`, `core/event`) | `outbox_events`: due, waiting, published, parked rows and their attempts | record in the transaction of a change, claim a batch with SKIP LOCKED, publish, store outcomes, prune, operator retry | every service that records events; the broker |
| Consumer (`platform/messaging`, `processed_message_repository.go`) | `processed_messages`, a circuit breaker per consumer, the dead-letter topic | receive, ask the breaker, claim the message and run the handler in one transaction, retry, dead-letter, ack | broker; newsletter dispatch and sync, notifications, mail |
| Command queues (`notificationqueue`, `mailqueue`, `auditqueue`) | none beyond the outbox row | enqueue after the commit, deliver inline if that fails | outbox |
| Newsletter issues (`core/newsletter/service/{admin,dispatch}.go`, `newsletter_issue_repository.go`) | the issue, its status and send time; `newsletter_deliveries` | create, edit, schedule, queue, cancel; release of due issues; dispatch | scheduler, consumer, provider |
| Newsletter subscribers (`core/newsletter/service/{service,account,admin,dispatch}.go`, `newsletter_repository.go`) | one row per address with memberships; confirmation tokens; consent history | subscribe, resend, confirm, preferences, unsubscribe, account join and leave, provider feedback, erase | provider, outbox, account deletion |
| Read cache (`core/readcache`, `outbound/cache/redis.go`) | a generation per family and the entries under it | read through, fill, invalidate | every public read, every content write |
| Posts (`core/post`, four repositories) | post rows with a version, revisions, SEO rows, media links | create, update, publish, archive, trash, restore, restore a revision, SEO patch, media replacement, prune | outbox, read cache, media |
| Comments (`core/comment`, `comment_repository.go`, `comment_moderation_repository.go`) | comment rows with flag and upvote counters, flags, votes, the moderation log | post, reply, edit, delete, flag, upvote, moderate one or many, hard-delete or scrub | posts (policy), outbox, notifications |
| Sign-in and sessions (`core/auth/service/{service,admin}.go`) | password, refresh sessions by family, reset tokens, lockout counters in Redis | login, refresh, logout, forgot, reset, change, prune | mail queue, audit |
| Two-factor sign-in (`core/auth/service/twofactor.go`) | enrollment, backup codes, challenges in Redis | set up, confirm, disable, renew codes, answer a challenge | sign-in |
| Registration, addresses, OAuth (`core/auth/service/{register,email_change,oauth}.go`) | accounts with their address, sign-up and change tokens, OAuth states and identities | sign up, verify, create, change address, sign in or link through a provider | mail queue, privacy |
| Impersonation (`core/impersonation`) | impersonation sessions | start, stop, verify on every request, expire | sessions, rbac, outbox |
| Categories, tags (`core/category`, `core/tag`) | nested-set tree; tags and their links to posts | create, rename, move, merge, delete, rebuild | read cache, posts |
| Media and avatars (`core/media`, `core/user/service/profile.go`) | asset rows; objects in the bucket | presign, complete, tag, trash, avatar change, orphan cleanup | object store |
| Settings (`core/settings`) | versioned rows and their history | update several keys, seed | read cache |
| Profiles (`core/user/service/profile.go`) | profile and privacy settings of an account | update, hide, serve in public | read cache |
| Notifications (`core/notification`, hub and bus) | inbox rows, connected streams | deliver, announce, stream | consumer, Redis bus, impersonation |
| Analytics (`core/analytics`) | event queue, raw events, roll-ups, salts, exports, the live board | ingest, flush, aggregate, backfill, retain, export, broadcast | scheduler, consent |
| Consent, privacy requests (`core/consent`, `core/privacy`) | consent rows; requests and archives | store, withdraw, request, process, expire | users, analytics, object store |
| Scheduler (`inbound/scheduler`, `job_run_repository.go`) | `scheduled_job_runs` and an advisory lock per job | tick, run, force | every job |
| Roles (`core/rbac`, `outbound/rbac`) | roles, grants, Casbin rules, the policy in each process | create, edit, delete, grant, revoke, reload, announce | Redis bus |
| Audit log and middleware chain (`inbound/http/middleware`, `outbound/audit*`) | the recorder's queue, the log | admit, authenticate, guard, handle, record, drain | broker, database |
| HTTP adapters, platform, bootstrap | none of their own | decoding, validation, wiring | all |

The hard behaviours are these. Several relays and several handler copies compete for
the same rows. A crash falls between an external effect (a publish, a mail) and the
commit that remembers it. Every message may be delivered again. Requests read a row
without a lock and write all of it back later. A cache fill overlaps an invalidation.
An object in the bucket and its row share no transaction. A lease is lost while its
holder still works. The list "hazards" of `PROJECT.json` names each at its line, with the
property that would catch it.

## 2. Modules

| Module | Models | State | Actions |
|---|---|---|---|
| `Broker` | the message broker, external, at least once | `queue[e]`: copies of a message | `Enqueued`, `Dequeued` |
| `Outbox` | outbox table, producers and relays | `row`, `attempts`: the columns; `relay[r]`: the open `RelayBatch` transaction with the outcomes it has stored and not committed; `change`: committed business changes | `InTx` (change and event together), `CommitChange` then `EnqueueCommand` / `DeliverInline` / `CrashBeforeEnqueue` (notificationqueue), `ClaimBatch`, `PublishOk`, `PublishError`, `CommitBatch`, `AbortBatch`, `BackoffElapses`, `PruneBefore`, `Retry` |
| `Consumer` | one consumer with its copies | `copy[c]`: the delivery a copy holds, with the transaction left in the message context; `breaker`; `processed` | `Receive`, `Admit`, `Refuse`, `OnceRuns`, `OnceSkips`, `HandlerCommits`, `HandlerFails`, `HandlerRejects`, `ClaimFails`, `OnceOnFinishedTx`, `DeadLetterOk`, `DeadLetterFails`, `Ack`, `BreakerTimeout`, `WorkerCrash`, `PruneClaim` |
| `Pipeline` | Outbox, Broker and Consumer composed | all of it | all of it |
| `NewsletterIssue` | one issue from draft to sent | committed issue and `deliv`; `run[w]`: the open dispatch transaction, whose writes nobody sees before it commits; `mails`: what the provider took, which no rollback undoes | editor requests as read then save, `DueIssues` then `ReleaseDue`, and the dispatch steps `Begin`, `ClaimRecipients`, `Deliver`, `FinishIssue`, `Rollback`, `AbortRun` |
| `NewsletterSubscriber` | one address | committed row, tokens, consent events; `tx[t]`: the request with the row it read and the row it will write; `rowLock` | `Begin`, `LookupToken`, `UseToken`, `ReadForConfirm`, `Proceeds`, `RevokeTokens`, `Save`, `Commit`, `Abort`, and `TokenExpires`, `PruneTokens`, `WindowPasses` |
| `FreshReads` | what a reader of cached content is promised | the version a read returns and the newest invalidated write before it began | begin, answer, write |
| `ReadCache` | read-through over Redis | generation key, entries per generation, readers and writers under way | `Through` to `Return` one Redis command at a time, `Commit`, `Invalidate`, `InvalidateFails`, `Expire`, `LoseGeneration` |
| `Posts` | posts, history, SEO and covers | committed tables; `tx[t]`: the request with the post it read outside its transaction; `rowLock` | one `Begin` per operation, then `PickSlug`, `RetrySlug`, `WritePost`, `SetCoverImage`, `DeleteMedia`, `AttachMedia`, `SaveSEO`, `TakeSnapshot`, `AppendRevision`, `Commit`, `Abort`; and `Prune` |
| `PostReferences` | what one post points at, its SEO and the restore of a revision | `page`, `history`: the committed post and its revisions; `asset`, `present`: rows of media, categories and tags; `unused`: deletions that have counted no post; `edit[e]`: a request with what it read | `EditLinks`, `EditMedia`, `EditSEO`, `RestoreFrom` (reads and checks), `CommitEdit`, `EditFails`, `CountPosts` then `DeleteRow`, `TrashAsset`, `PurgeAsset` |
| `Comments` | comments of one post | committed rows, flags, votes and log; `tx[t]`: the request with the rows it read, wrote, references or locked | one beginning per operation (`Create`, `Update`, `Delete`, `Flag`, `ToggleUpvote`, `Moderate`, `HardDelete`), then its statements: `UpdateRow`, `InsertComment`, `Store`, `InsertFlag`, `CountFlag`, `DeleteVote`, `InsertVote`, `CountVote`, `ApplyModeration`, `CommitModeration`, `LockForDelete`, `CheckReplies`, `RemoveRow`, `ScrubRow`, `Abort`; and `ChangePolicy` |
| `Sessions` | one account's password, sessions and reset tokens | `session`, `reset`, `password`, `active`, the lockout keys, `authReq[r]`: a request with what it has read | one per statement, from `CheckLocked`, `Authenticate`, `LockAccount`, `IssuePair` over `FindToken`, `CreateSuccessor`, `ReplaceSession`, `RevokeFamily` to `UpdatePassword`, `SpendPending`, `RevokeAllForUser`; expiry, pruning, erasure, Redis going down |
| `TwoFactor` | second factor of one account | `enrollment`, `codes`, `challenge`, `step`, `mfaReq` | `SavePending`, `Confirm`, `UseStep`, `UseBackupCode`, `ReplaceBackupCodes`, `DeleteEnrollment`, `GetChallenge`, `CountAttempt`, `KillChallenge`, `ConsumeChallenge` |
| `Identity` | who holds an address | `account`, `reg`, `change`, `oauthState`, `linked`, `idReq` | sign-up (`RegisterFind`, `StartRegistration`, `VerifyFind`, `CreateRegisteredUser`), administration, change of address, OAuth, `EraseIdentity` |
| `Impersonation` | one staff member acting as one user | `imp`, `signedIn`, `accounts`, `grant`, `impReq`, `sweep` | start, `VerifyGet`/`VerifyEnforce`, stop, `ListExpired`/`EndExpired`, sign-out, closed account, changed roles |
| `Notifications` | inbox and its live push | `inbox`: rows, those of open transactions included; `claims`, `sent`; `deliverer[w]`: the delivery a worker runs in the transaction of its claim; `bus`, `stream`, `hubClosed` | `NotifyChange`, `Redeliver`, `ClaimCommand`, `InsertNotice`, `RecipientFails`, `PublishNotice` (before the commit), `CommitDelivery` (rows and claim together), `FailDelivery` and `WorkerDies` (both roll back), `AckDelivery`; `HubDeliver`, `Register`, `TakeEvent`, `CheckSession`, `WriteFrame`, `CloseStream`, `ShutdownHub` |
| `AuditTrail` | the middleware chain and the audit log | `http[q]`, `slots`, `auditQueue`, `auditBatch`, `auditPc`, `topic`, the log | one per middleware, then `RecordEntry`, `SendEntry`, the recorder's loop, sink with fallback, `StoreBatch`, shutdown and drain |
| `Media` | library, bucket and one avatar | `media`, `object`, `avatar`, `mcall`, `sweep` | presign, `PutPresigned`, complete, tags, delete, avatar change, `ListOrphans`, `PurgeObject`, `PurgeRow` |
| `Categories` | the category tree | `cat`, `filed`, `ccall` with the list it read | create, move, delete, `RebuildAll`, `CommitTree`, `ReadForUpdate`/`UpdateCategory` |
| `Tags` | tags and links | `tag`, `links`, `tcall` | `ResolveOrCreate`, `ReplacePostTags`, `StoreTag`, `CopyLinks`, `CommitMerge`, `RemoveTag` |
| `Settings` | versioned settings | `settingRow`, `settingHistory`, `update[q]` | `LockSettings`, `SaveSetting`, `VersionConflict`, `DeadlockAborts`, `CommitUpdate`, `SeedDefault` |
| `Profiles` | one profile behind the read cache | `views`, `cacheFloor`, `profileCall`, `visit` | update and privacy as read then save, erasure, invalidation, public read |
| `Rollups` | raw events, roll-ups, retention | `raw`, `rollup`, `cohort`, `firstSeen`, `visitor`, `zone`, the aggregator and the retention run | ingest, flush, `TakeBack` (the deletion of a subject's events by withdrawal or erasure), run, rebuild, backfill, per-period recomputation, `PruneRaw`, `ChangeZone` |
| `AnalyticsExports` | the export queue | `export`, `archives`, `builder` | request, claim with stale takeover, build, put, complete, fail, purge |
| `Consent` | consent in front of the event writer | `row`, `token`, `call`, `event`, `writer` | store, withdraw, erase, ingest, take, flush, close, drain |
| `LiveAnalytics` | live board; daily salts | `minutes`, `sessions`, `liveQueue`; salts stored and cached per replica | publish, flush, receive, snapshot; ask, insert, select, fall back, restart |
| `PrivacyRequests` | export and erasure requests | `request`, `store`, `account`, `processor` | ask, claim with stale takeover, each step of export, erasure and purge, death of a processor |
| `Scheduler` | recurring jobs of several replicas | `jobLock`, `jobRow`, `replica`, `clock` | `Tick`, `TryLock`, `CheckDue`, `StartRun`, `RunPart`, `FinishRun`, `RunNow`, crash, dropped connection |
| `Roles` | roles and the enforced policy | `roles`, `grants`, `rules`, `policy`, `announced`, `rcall`; `loading`: the reloads of the subscriber and of the timer of each instance, which may overlap | the writes by statement, `CommitWrite`, `LoadPolicy`/`ApplyPolicy`, `Notify`, `OnAnnouncement`, `OnTick`, `ReloadPolicy` |

The theorems are in `PipelineProofs` (Outbox, Broker and Consumer, alone and composed),
`DeliveryProofs` (NewsletterIssue, Notifications, AuditTrail), `ContentProofs` (Posts,
Comments), `RecordsProofs` (NewsletterSubscriber, Media, Settings, Profiles, Tags,
PostReferences), `AccountsProofs` (Sessions, TwoFactor, Identity, Roles), `OperationsProofs`
(Impersonation, Scheduler, AnalyticsExports, Consent, LiveAnalytics, PrivacyRequests) and
`DerivedDataProofs` (ReadCache, Rollups, Categories). `SequenceFolds` proves the rule that the proofs
about folds over sequences use.

`MCDelivery`, `MCContent`, `MCRecords`, `MCAccounts`, `MCAnalytics`,
`MCOperations` and `MCReplicas` each put several components in one model. The components
of one of them share no variables, and what one relies on of another is stated in it
(`Profiles` uses the promise of `FreshReads`, `Notifications` the end of an impersonation
session), so nothing is gained by interleaving them: `focus` picks the component that
moves, the others rest in one fixed initial state (`AtRest`), and the reachable states
are the sum of the components' and not the product. A property of a component holds in
the whole run exactly when it holds of the component alone. Components that do interact
step by step are composed in `Pipeline`, where they share variables.

Common conventions:

* A step is one SQL statement, one Redis command or one call of an external service,
  whenever two processes can tell the difference. Statements of a READ COMMITTED
  transaction see what is committed when they start; a statement that writes a row holds
  its lock until the transaction ends.
* The rows a transaction has written stay in its own record (`relay`, `run`, `tx`) until
  the commit step copies them to the table. A rollback drops the record.
* Times are abstracted: a due time is reached or not, retention and expiry happen at any
  moment they could.
* Variables marked "history" record what happened for the properties; no guard reads
  them.

Abstractions worth knowing: a message, a text, a list or an asset is a model value.
`Posts` has one slug base shared by all posts, so that they always collide, and the
suffixes are kept as the sequence the code appends. `NewsletterSubscriber` is one address
before and after erasure; a later subscription of the same address is another row.
`Comments` has no clock: an edit after its window is a request that does not begin.
The row locks of `Comments` are PostgreSQL's: an insert that references a comment shares
it with a plain update and not with FOR UPDATE or DELETE, which is what `RepliesSurvive`
rests on. An author's edit or deletion writes back the status and text it read
(`UpdateRow`), so it can undo a moderator's decision or a scrub made meanwhile; no line of
the repository promises otherwise, and what is checked is that nothing unapproved becomes
visible. `ReadCache` is one family and one key: keys of a family share its generation only.
The `version` of a cached value stands for the value.

`PostReferences` takes a transaction as one step, because its statements and locks are those
of `Posts` and a foreign key keeps the rows a transaction has resolved. One text stands
for the texts of a post, one for the six SEO texts and one URL for the two; a patch sets
one field, and texts are normal, padded, blank or refused.

`Sessions` names a password by its generation, `TwoFactor` a code by its secret and time
step or by the set of backup codes it belongs to. `Rollups` cuts time into half days, so
that two time zones disagree about midnight. `Scheduler` looks at one job at a time: jobs
share neither lock nor row. `Categories` keeps parents and bounds and leaves out names; the
recursion of `walk` is unrolled into steps that enter and leave a category.
Expiry of a token, URL, lease or retention period is an action that may happen at any
moment; where two of them are ordered by configuration (a presigned URL lapses before the
grace of the cleanup ends, retention of the trash outlasts any URL) the module says so.

## 3. Runs

Passing runs have `CHECK_DEADLOCK FALSE`: the bounds end every behaviour, and the real
system also rests when nothing is due.

| Run | Components and instance | Distinct states |
|---|---|---|
| `messaging` | `Pipeline`: 1 event, 1 relay, 2 handler copies, 1 retry, breaker after 2 failures, 1 fault, 1 crash. With fairness | 47,132 |
| `delivery` | `Outbox`: 1 transactional event, 1 command, 2 relays, batches of 2, 3 attempts, 2 faults. `Notifications`: 1 event told by up to 2 deliveries of 1 or 2 commands, 2 users, 2 workers, 1 stream with a buffer of 1, 1 fault. `AuditTrail`: 2 requests, 1 or 2 slots, a queue of 1, 2 faults. `NewsletterIssue`: 2 subscribers, batches of 1, 2 attempts, 2 contents, clock up to 2 | 1,617,555 |
| `content` | `ReadCache`: 2 readers, 2 writers, 3 versions, 2 generations. `Posts`: 2 posts, 2 overlapping requests out of 4, prune to 1. `Comments`: a comment and a reply, 2 overlapping requests out of 5, escalation at the first flag | 538,522 |
| `records` | `NewsletterSubscriber`: 2 lists, 2 overlapping requests out of 3, 2 tokens, 2 windows. `Media`: 2 assets, 4 requests. `Categories`: 3 categories, 2 requests. `Tags`: 3 ids, 2 slugs, 2 posts, 4 requests. `Settings`: 2 keys, 1 server key, 2 updates. `Profiles`: 3 views, 2 writers, 1 visitor. `PostReferences`: 1 category, 1 tag, 2 images, 2 overlapping requests, lists of 2 attachments | 811,117 |
| `accounts` | `Sessions`: 3 sessions, 1 reset token, 2 overlapping requests out of 3, lock at the first failure. `TwoFactor`: 2 challenges, 2 secrets, 2 steps, 4 requests. `Identity`: 2 accounts, 2 addresses, 2 OAuth states, 3 requests, a provider linked from the start or not | 1,177,455 |
| `analytics` | `Rollups`: 8 half days, 3 views, months of 2 days, returns after 1 day, raw events kept for 1 day but for 2 by the floor, 1 change of zone, a withdrawal or erasure in the fifth half day, between views. `AnalyticsExports`: 2 exports, 2 builders, 2 tries, 2 builders lost. `Consent`: 2 calls, 2 events, a queue of 1. `LiveAnalytics`: a ring of 2 minutes over 3, 3 replicas, 3 days | 3,109,161 |
| `operations` | `Impersonation`: 2 sessions, 2 overlapping requests, 2 sign-ins. `PrivacyRequests`: 2 requests, 2 processors, 2 tries, 1 processor lost. With fairness | 345,178 |
| `replicas` | `Scheduler`: 2 replicas, a job of every minute and one of every hour, 1 forced run, 1 fault. `Roles`: 2 members, 1 custom role, 2 instances with 2 reloaders each, 2 overlapping requests. With fairness | 926,292 |

The bounds are the smallest in which the interesting cases happen: two relays and a batch
of two so that batches could overlap; three attempts so that a row waits, waits again and
parks; two copies so that one message can be in hand twice; a breaker threshold above one
so that failures accumulate; batches of one so that a dispatch claims twice and can fail
between; two overlapping requests because every race in these services is between a
pair, and a few more requests in all so that a third can begin when one of them has
ended; three versions so that a fill can be two writes late; queues and buffers of one
place so that they fill; two deliveries so that one can roll back after it announced and the
other announce again (with one stream the limit of streams per user is not met, and no
property is about it); a ring shorter than the clock so that a bucket is reused; a clock long enough, and a
cutoff early enough, that retention prunes while a run counts; two
tries so that a request fails for good; an attempt limit of one for challenges and lockout
so that the limit is met by overlapping requests. Every action of every passing run fires.

Symmetry is used only in runs without liveness. The interchangeable sets (requests,
relays, posts, lists, events) draw on shared model values (`p1`, `p2`, `x1`, `x2`, `y1`, `y2`),
which keeps the symmetry group small; nothing in a module names one of them.

A run checks a component through one named invariant or property, the conjunction of its
parts and of its types:

| Property | Parts, and what they say |
|---|---|
| `OutboxCorrect` | `OutboxSafe` (types; `ClaimsDisjoint`, `PublishedWasAccepted`, `AttemptsBounded`, `RecordedWithChange`) always, and `NoRepublish` of every step |
| `PipelineSound` | types; `OnlyCommittedChanges`: consumers act on committed changes only |
| `AppliedAtMostOnce`, `NothingLost`, `TrialIsAlone`, `EventuallySettled` | the effect of an event happens once, the event is always somewhere, the half-open breaker has one trial, everything settles |
| `IssueInvariant` | `SentCountsAddUp`, `RequestedOnce`, `OneContentMailed` |
| `IssueSteps` | `MailsOnlyActive`, `CancelStopsMail`, `LifecycleRespected` |
| `NotificationsInvariant` | `PushedOnce`: the inbox has one row of a notice, a stream is offered a row once and the same notice again only if the transaction that announced it rolled back; `HandledIsStored`: a handled command has committed rows of all it was to tell; `EndedSeesNothing`: a stream of an ended impersonation shows nothing stored later; `StreamAccounts`: what a full buffer drops is reported |
| `AuditInvariant` | `AuditAccounted`: an owed entry is on its way, stored, dead-lettered or counted as dropped; `EntryStoredOnce` |
| `ImplementsFreshReads` | the cache implements `FreshReads`: no answer is older than the newest write invalidated before the read began |
| `NoLostUpdate` | a save replaces the version it read |
| `PostsInvariant`, `PostSteps` | `HistoryDescribesPost`, `SlugsUnique`; `HistoryGrowsByOne`, `TrashedIsFrozen` |
| `CommentsInvariant`, `ModerationIsSafe` | `UpvotesCounted`, `VisibleWasApproved`; `RepliesSurvive`, `LogIsTrue` |
| `SubscriberInvariant` | `ErasedLeavesNothing`, `OneConfirmLink`, `ConfirmOwnsToken`, `OptInIsAudited` |
| `SubscriberSteps` | `ErasedIsFinal`, `UnsubscribeRevokes`: an erased address stays erased, whatever was under way; leaving every list revokes the open links |
| `ReferencesInvariant` | `RestoreAccounts`: a restore brings back or reports every reference of its source; `DiffIsExact`; `NothingDangles`: no reference to a deleted row; `StoredSEOIsValid`, although a restore saves it unchecked; `CardsAreServable` |
| `MediaInvariant` | `ReadyIsStored`: a ready asset has its object; `PurgedLeavesNothing`: a row goes after its object |
| `CategoriesCorrect` | `RebuildHeals`: a tree change whose list was current leaves a nested set |
| `TagsCorrect` | `SaveIsWhole`: a save stores all tags it resolved, or none |
| `SettingsInvariant` | `HistoryIsChain`: one history row per version, each from what the one before left |
| `ProfilesInvariant` | `HiddenStaysHidden`: a profile that was hidden is not served from the cache |
| `ResetEndsSessions` | after a reset a live session comes from a request that was under way |
| `SessionsInvariant` | `OneTokenPerSignIn`: one usable token per family unless a rotation failed or overlapped; `GuessesBounded`: the lockout bounds the tries |
| `TwoFactorInvariant` | `CodeAcceptedOnce`: no enrollment accepts two codes of one step, and none a code checked against a later secret; no backup code is accepted twice; `ChallengeSpentOnce` |
| `IdentityInvariant` | `AddressHeldOnce`, `ProofSpentOnce` |
| `ExportsInvariant` | `DownloadsExist`: a downloadable row has its archive |
| `ConsentInvariant` | `WithdrawalForgets`, `DrainIsComplete` |
| `LiveInvariant` | `SeriesIsExact`, `SaltsAgree` |
| `RollupsCorrect` | with the zone unchanged: `ScheduledRunIsWhole`: what a scheduled run writes counts every view stored and not taken back, those retention deleted included; `ScheduledRunKeepsTotals`: until the visitor withdraws or is erased no scheduled run lowers a total, nor the returns of a cohort unless an earlier day of its visitor came to light |
| `ImpersonationInvariant`, `LapsedIsClosed` | `EndRecordedOnce`: one active session, one start and one end event each; a lapsed session is closed |
| `PrivacyInvariant`, `RequestsSettle` | `ErasureIsComplete`; every request is settled |
| `SchedulerInvariant`, `ScheduledJobStarts` | `RunsOncePerInterval`; a due job is started |
| `RolesCorrect` | `RolesInvariant`: types and `WildcardIsProtected`: tables, rules and every instance's policy give the wildcard permission to the protected role and no other; `PolicyConverges`: when the writes stop, every instance enforces the stored rules |

Some of these state an exception, because the code has it: two refreshes that overlap
leave two live tokens; a session that a request creates while a reset revokes survives it,
and a reset that fails after it stored the password has revoked nothing; an event in the
writer's queue is stored after consent was withdrawn, and so is one flushed between the
DELETE and the COMMIT of the withdrawal (one step in `Consent`); an export worked on during an
erasure may leave its archive until it expires; bounds that a tree change wrote from a stale
list are wrong until a change made from a current one. The exception is part of the
property, as narrow as TLC allows.

Three exceptions contradict a sentence of the repository, and the properties say what is
true instead:

* `twofactor.go:330`: "so a code cannot be replayed". `UseStep` does not compare the secret
  (`two_factor_repository.go:137-145`). Two requests to disable present the same code; the
  first marks its step and deletes the enrollment; a new set-up stores a row with last
  used step 0; the second request, which checked the code against the old secret, marks
  the step there and is accepted. `CodeAcceptedOnce` therefore speaks of one enrollment.
* `notificationbus/bus.go:76-77`: "The notification is already stored". The worker runs the
  handler inside the transaction of the claim (`worker.go:206-207`,
  `processed_message_repository.go:27-43`) and `deliver` announces within it
  (`inbox.go:273-275`). When another recipient fails, the commit fails or the worker dies, a
  notice has been pushed whose row never existed, and the redelivery pushes it again under
  another id. `PushedOnce` excepts the rows that were rolled back (`undone`) and no others.
* `docs/backend/analytics.md:317`: "Rollups keep their counts". A withdrawal or an erasure
  deletes the subject's raw events (`consent_repository.go:148-160`), and the next scheduled
  run counts the open day, week and month again from what is left
  (`analytics_rollup_repository.go:93-120`), so their totals fall; periods that no run computes again keep theirs.
  `ScheduledRunIsWhole` compares with what is stored and not taken back.

Runs that TLC must refute, each a disagreement between a statement of the repository and
its code (the list "findings" quotes the lines):

| Run | Property | What TLC shows |
|---|---|---|
| `retry_without_run` | `DeadLetteredAfterRetries` | The deduper leaves its transaction in the message context. The handler fails once, the next attempt fails on the finished transaction before it can claim, and the message is on its way to the dead-letter topic although only one attempt ever asked the database for a transaction. An attempt whose own claim fails counts, so a database that is down does not violate the property. |
| `dispatch_repeats` | `SentAreSkipped` | A whole dispatch is one transaction: its rollback forgets recipients that were mailed, and the redelivery mails them again. |
| `leaving_opts_in` | `LeavingNeverOptsIn` | A subscriber joins lists, a bounce suppresses the address, and a request that reads the suppressed row and leaves one list writes it active. The property compares with the row the request read, so a write over a change made meanwhile is not a violation. |
| `last_admin` | `AdminRemains` | Two administrators revoke each other at the same time; only a revocation of the own role is refused. |

Other weak spots that the modules contain as behaviours, and that no line of the
repository promises away: a process that dies between the commit of a comment and the
enqueue of its notice loses the notice (`CrashBeforeEnqueue`); an operator who retries a
parked row after its claim was pruned repeats the effect (excluded by `RedeliveryOver`);
overlapping subscribes read the same counter and send one confirmation too many; two SEO
patches of a post, or a post update and a media replacement, overwrite each other's
fields; a process that dies between a commit and the invalidation leaves the old value
cached until it expires; a public subscribe that read the row before a bounce was stored
saves over the suppression; an image that is moved to the trash between the check of a
restore, a media replacement or an SEO patch and its commit stays referenced until it is
purged, and rendering skips it.

Fairness. `Pipeline`: the relay loop polls for ever and its statements end
(`relay.go` Run), backoff and breaker timeouts elapse, the router keeps calling its
handlers. Strong fairness is assumed of four steps that a failure can disable again and
again: claiming a batch, obtaining the claim, a handler that is repeated without end
committing at some point, and the dead-letter publish succeeding at some point; without
the last two no at-least-once system settles. `MCOperations`: the scheduled jobs run again and again and their
statements end, and the stale limit of a claimed request elapses. `MCReplicas`: every
scheduler replica keeps ticking and its statements return, without any claim as to which
of them gets the lock; the policy timer runs in every instance, which needs
`RBAC_POLICY_RELOAD_INTERVAL` above 0 (`sync.go:31` turns it off otherwise, and then a lost
announcement is never made up for), and a failed reload is tried again. Nothing is assumed of producers, users, editors, aborts, announcements and crashes,
which the bounds make finite. The other specifications state safety only.

## 4. Proofs

The theorems hold for all values of the constants that the named assumptions of the
modules admit: bounds are natural numbers, limits are positive, and sets that are counted
are finite (`ImpIDs`, `SettingKeys`, `MfaReqs`, `PostIDs`, `Users`, `AuthReqs`).
Placeholders are apart from what they stand in for (`"nobody"` from the transactions,
`NoEvent` and `NoUser` from events and users, sign-up tokens from OAuth states, the empty
reference and the site's own image from categories and images), and at least one instance
serves requests. The
assumptions about configuration are two. `RedeliveryOver` in `Pipeline`: claims are pruned only
when no copy of the message can arrive any more, that is `CONSUMER_DEDUPE_RETENTION`
outlasts redelivery and operator retries. `ExportExpires` in `AnalyticsExports`: the retention
of an export (72 h by default) outlasts every builder of it, so that a builder that hangs
between its upload and `Complete` until the archive is purged is excluded, not checked.

Each safety theorem has the same form: an inductive invariant, one lemma per action (or per
group of actions with the same effect) that it is kept, and the checked property as a
consequence. What each adds to the property it proves, and why the property alone is not
inductive:

* Outbox (`OutboxInv`). A locked row is due (`LockedRowsDue`) and an outcome stored in an
  open transaction is true (`SentWasAccepted`). Without the first, a second relay could
  publish the row while the first holds it; without the second, a commit could mark a
  row published that the broker never took. `OutboxIsCorrect` joins the parts and the
  action property `NeverRepublished`.
* Pipeline (`PipelineInv`). `AppliedAtMostOnce` needs that a running handler is the only
  one for its message, that its message is neither processed nor applied and that an
  applied message keeps its claim for as long as a copy can arrive. `NothingLost` needs
  that everything the broker accepted is tracked and that only a settled message is
  acknowledged. The steps of the outbox are reduced to one lemma on what they may change
  (`OutboxStepEffect`). `TrialAlone` counts the attempts of the current generation: none
  while the breaker is open, and while it is half-open exactly the trial.
* Newsletter issue (`IssueInv`). At most one run holds the issue, which is then queued by
  the one request and has the content the run read (`RunAlone`); before it is queued nothing
  was requested or mailed (`NothingEarly`); what was mailed has the issue's content
  (`MailedContent`); a recipient a run holds is active and no subscriber transaction has its
  row (`HeldIsActive`); a delivery stored or about to be stored as sent was mailed
  (`SentWasMailed`); and the counts of a sent issue are those of its deliveries.
* Notifications (`NoteInv`). Deliveries of an event have numbers of their own, so that a row
  tells which one inserted it and no two are alike, rolled back ones included. Between its
  insert and the streams a row is in exactly one place (`FreshIsAlone`, `BusIsAlone`); who a
  delivery has told has a row that is the delivery's own or committed, since a row of another
  open transaction is waited for (`ToldHaveRows`); what a stream has written, holds and has
  queued was offered to it and the three are apart; a stream of an impersonation has
  neither written nor is about to write a notice that came after its session had ended.
* Audit trail (`AuditInv`). A request under way owes nothing yet and impersonates only on a
  matched route; the recorder's goroutine has room in its batch while it takes entries; it
  drains and ends only once the recorder is closed.
* Posts (`PostsInv`). Who has written the row holds its lock, and the row is still the one
  it read; equal versions mean equal texts; a slug written and not committed is reserved by
  the unique index; an open revision has the next number. `NothingIsOverwritten` and
  `HistoryIsAppendOnly` are action properties from the same invariant.
* Post references (`RefInv`). A restore under way already accounts for every reference of its
  source, in its post or among its skips; the cover of a media request is among its
  attachments; and the SEO of the post, of every revision and of every open request is valid
  with distinct keywords. The last is why a restore may save SEO unchecked. That normalised
  keywords are distinct and that dropping what is missing keeps the rest are facts about
  folds, by `FoldRule`.
* Comments (`CommentsInv`). No two open toggles change the same vote; a row a moderator has
  locked is as the batch saw it; what a request read as approved is vouched for; who looked
  for replies holds the row FOR UPDATE, so no new reply can reference it.
* Subscriber (`SubscriberInv`). The row lock is held only by an open transaction that has
  written, and what that writes is on the row as it read it; tokens locked by two
  transactions are apart; who has revoked before it sends holds every stored token, so none
  but the new link is left.
* Media (`MediaInv`). A row the cleanup has listed is doomed: nothing brings it back. It
  follows that the re-check of `PurgeRow` never finds a row alive. An upload's new asset is
  named by nobody else, and what a request is about to write agrees with the row's object.
* Settings (`SettingsInv`). A key an update holds is held by no other and still has the row
  the update saw; a missing row has never had a value.
* Profiles (`ProfilesInv`). What was promised to visitors is never newer than the floor of
  the cache, and that never newer than the stored profile.
* Tags (`TagInv`). Who resolves or replaces does it for a post; a merge has a tag to merge
  into.
* Sessions (`SessionsInv`). Sign-ins and rotations under way are marked when a reset
  completes; all but one live token of a family without overlap are about to be replaced;
  the guesses are bounded by who is past the lock check and who is about to set the lock,
  which needs a count of both.
* Second factor (`TwoFactorInv`). A step accepted by the enrollment in force is not after the
  row's last step, and an accepted backup code is no longer in the row (`StepsSpent`,
  `BackupsSpent`); the checks of a challenge, made and under way together, are at most the
  attempts stored and at most the limit (`CheckedByCount`, a count of who is between the
  two writes).
* Identity (`IdentityInv`). One holder per address because of the unique index; an OAuth
  state has at most one request that consumed it, and is gone for the others; a token or a
  state that was spent, was spent once and is gone (`OneConsumer`, `SpentIsGone`).
* Roles (`RolesInv`). `WildcardIsProtected` needs that a request under way is not about the
  permissions of the protected role and grants no wildcard, that the rows a statement saw are
  rows its request is about, and that rules read to be put in force later have the wildcard
  where it belongs. `PolicyConverges`, the other part of `RolesCorrect`, is liveness.
* Impersonation (`ImpersonationInv`). At most one session is active, whoever is about to
  close one, and the events recorded for a session are exactly those its state calls for.
* Exports (`ExportsInv`). A row that is expired is settled and no builder works on it; a
  builder completes only what it has put, and a cleanup deletes only what it has marked; a row
  that names an archive and is not expired has one.
* Scheduler (`SchedulerInv`). A replica between its look at the row and the start holds the
  lock, and so does one that runs the job and has not lost its connection; a start is decided
  on a row that is still due; the row has the time of the last start.
* Consent (`ConsentInv`). The property is nearly inductive: a row becomes withdrawn or erased
  only in the transaction that deletes what is stored. What is added is that a writer out of
  its loop has found stop closed.
* Live board (`BoardInv`). An event is in one place only: queued, in one batch, or counted;
  no bucket is ahead of the clock; and for each minute of the window the bucket it falls in
  holds it with exactly its views, or holds another minute while it has none. A bucket may
  be taken over because two minutes of one window never share one (`BucketsApart`, arithmetic
  of remainders for a ring of any length). A batch is a fold over its events, so that it
  keeps the invariant follows from that of one event by `FoldRule`. With the salts this is
  `LiveIsExact`.
* Salts (`SaltsInv`). Who asks, asks for today or tomorrow; a held shared salt is the stored
  one while its day is not past, and nobody stores one for that day afterwards.
* Privacy requests (`PrivacyInv`). Kind and step of a processor agree; while processors never
  overlapped at most one has a claim; an erasure past its list has every archive of the user
  that a row points at still on its list; an erased account stays clean.
* Read cache (`IInv`). Generation numbers only grow and have no entries before they begin;
  the floor of the current generation is the newest invalidated write; every entry is at
  least as new as the floor of its generation; a reader's generation began no earlier than
  its read saw. `CacheRefines` is the refinement of `FreshReads`, step by step.
* Roll-ups (`RollInv`). While the zone stays, what retention has deleted lies before
  today's cutoff and the cutoff only moves forward (`OldIsPruned`), so that a run counts all
  that was not taken back; and until something is taken back totals are never above the views
  stored for the period, and stored returns were seen and their day is over (`Counted`). `WindowIsKept` is the
  arithmetic behind it: a day before `RawRetentionCutoff` is in no day or month that has
  yesterday or today, and is no return within `cohortLookback`, for every length of a month,
  retention and floor. The proof needs `FloorDays > CohortLookback`, which the source
  states as constants. A backfill that dies after it has found an earlier first day of
  the visitor leaves cohorts that the next scheduled run empties: this is the exception in
  the property, found when TLC refuted it without.

* Category tree (`CatInv`). The rows are tidy: a parent exists, because the foreign key
  clears what points at a deleted row, and an absent row is blank. A request that creates has
  an id of its own. `CommitHeals` is about one change made from a current list. The walk of
  `rebuildBounds` keeps to intervals (`WalkInv`): a category met later lies inside each one the
  walk has not left and after each one it has left; the ones not left are the ancestors of
  where it is, with a depth for each; the counter is the number of times a category was
  entered or left, so twice as many steps as there are categories end the walk (`WalkEnds`). Without
  a cycle of parents every row is met, for among those not met one would have its parent
  outside (`RebuildNests`). A creation, a deletion, and a move not below the moved
  category close no cycle; the last follows from what `isDescendant` finds
  (`ReparentedAcyclic`). What bounds the rows had before does not matter.

What a fold over a sequence computes is proved through `SequenceFolds`. The provers cannot
apply a theorem that has an operator among its parameters, the library's induction theorems
included, but they can use a theorem of an instance: `SequenceFolds` has the operator as a
CONSTANT, shows that the recursive function under `FoldLeft` exists and follows the
elements, and concludes `FoldRule`: what holds of the start and is kept by each application
holds of the result. Modules take `INSTANCE SequenceFolds WITH op <- ...` for each fold, the walk of the category
tree included.

Only model-checked: the liveness properties (`EventuallySettled`, `LapsedIsClosed`, `RequestsSettle`, `ScheduledJobStarts`, `PolicyConverges` in
`RolesCorrect`), because fairness and ENABLED are outside the prover.

## 5. Not modelled

* Newsletter rendering and provider clients, mail transport, object storage and image
  proxy clients: input and output; the models keep whether a call succeeded and, for the
  bucket, which objects exist.
* Searches, listings, analytics reports and statistics: read-only queries.
* Decoding, validation, error mapping, routes and the generated API description: no state.
  The order of the middleware chain is in `AuditTrail`.
* Configuration, migrations, seed, metrics, logging, health checks and dependency wiring.
  The unique indexes and foreign keys of the migrations are used by the models.
* Of modelled components: the mail queue (the two steps of the notifier), the stream of
  dashboard snapshots, marking notices as read, a notice delivered inline because the queue
  could not be reached (no transaction, no redelivery), pruning of the audit log, transform URLs,
  the meta of the homepage, SEO previews and advisory warnings (read-only), and the
  counting window of the rate limiter, which is one atomic Redis script.

Third-party code is not modelled. The provider, the broker, Redis and PostgreSQL appear as
far as the code relies on them.

## 6. Plan

* Abstract specifications worth stating: a one-time token, implemented by confirmation,
  reset, change of address and registration; a lease, implemented by job runs, privacy
  requests and export claims; exactly-once settlement, implemented by `Pipeline`.
