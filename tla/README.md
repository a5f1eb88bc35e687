# HitKeep in TLA+

HitKeep is a self-hosted web-analytics server written in Go: one binary holding an HTTP server, an
embedded NSQ daemon, embedded DuckDB databases (one shared control database and one per tenant) and
a set of background workers, with an optional memberlist cluster in which one leader owns the data.
This directory models the parts of it whose correctness depends on the order in which goroutines,
messages, clocks and crashes interleave. Paths below are relative to the repository.

## Inventory

| Component | State it keeps | Operations | What is hard | Correct when |
|---|---|---|---|---|
| **Webhook delivery** `database/store_webhook_delivery.go`, `webhookdispatcher/` | `webhook_deliveries`, `webhook_delivery_attempts`, the NSQ topic, per-endpoint semaphores | emit, publish, claim, send, record, sweep, retention | duplicate messages, lost messages, stale claims, crash between request and record | claims exclusive, log exact, settled is final, every delivery settles |
| **Webhook outbox and configuration** `database/store_webhook_delivery.go`, `database/store_webhooks.go`, `database/store_site.go` | `webhooks`, `webhook_events`, `site_deletion_webhook_outbox` | enqueue with deduplication, secret rotation, staged event of a site deletion | reads outside the transaction, rotation racing an enqueue, a crash between the transactions of a deletion | one delivery per event and subscriber, rotations reach what is stored, a deletion announced after it and to all |
| **Site rename** `database/store_site.go` (`UpdateSiteDomain`) | `sites` and every table that references it, parked on a shadow row | four statements outside a transaction, with best-effort rollbacks | a crash or a failed rollback halfway | references end on the site, no shadow row stays |
| **Ingest** `ingest/`, `server/ingest` | NSQ topics hits, events, web_vitals; batch channels; analytics tables | publish, batch, persist, acknowledge, requeue | redelivery, partial batches, shutdown order | idempotent persistence, no acknowledged message lost |
| **Tenant stores** `database/tenant_store_manager.go`, `database/store_tenant.go` | site-to-team mapping and its cache, one database per team | resolve, transfer, delete, purge | multi-database steps without a transaction, ingest during a move | no row is lost by a transfer, hits follow the mapping |
| **Compaction** `database/compact.go` | database file, backup, work file | rewrite, swap, recover | a kill or a power failure between renames, a start that opens the file too early | every committed row is in the file the next start opens |
| **Default-tenant split** `database/split_default_tenant.go`, `database/migrate.go` | control file, its backup and work file, the tenant's file, markers | copy, publish, rewrite, swap, recover | the same, over two directories | never two authorities, never none |
| **Reconnecting connector** `database/reconnect.go` | inner instance, open connections, gate, dead/recovering flags | connect, observe, close, recover | recovery racing new connections | one live instance, recovery only when drained, no token lost |
| **Roll-ups** `database/store_rollup_dirty.go`, `database/store_analytics_rollup_refresh.go` | dirty-bucket marks, roll-up tables | mark, refresh, clear | a mark set during a refresh | no dirty bucket forgotten |
| **Report delivery** `database/store_report_delivery.go`, `worker/reports_scheduler.go` | report runs and deliveries | claim run, claim delivery, send, mark, finalize | crash between mail and mark, retry budget | every run finalised, at most four attempts |
| **OAuth authorization server** `oauth/`, `database/store_oauth.go` | grants, credentials, pending requests | authorise, exchange, refresh, revoke | concurrent use of one code or refresh token | a credential is consumed once, reuse revokes the family |
| **Cluster** `cluster/cluster.go`, `server/ingest/handlers.go` | peers, leader | join, leave, elect, forward an ingest request | partition, views that differ, shutdown of the leader | no request goes round in a circle, the views agree in the end |
| **Realtime broker** `realtime/broker.go`, `server/shared/realtime_stream.go` | subscriptions, history, the IDs browsers hold | subscribe, publish, close | slow subscribers, streams that end, replay from a trimmed history | a gap is always signalled |
| **Opening and migrating a database** `database/store.go`, `database/recovery.go`, `database/migration_guard.go`, `database/migrate.go` | database file, its log, the log set aside, guard, marker, bundles | connect, recover, migrate, checkpoint | a log that cannot be replayed, a kill between any two file operations | no committed write is dropped without consent and a copy |
| **Imports, takeout, retention, backup, search console, cloud billing** `worker/`, `takeout/`, `importables/` | stage files, snapshots, sync cursors | staged upload, import, trim, export | restart in the middle | resumable, no lost rows |
| **Users, teams, access, sharing, MFA, SSO, social login** `server/`, `security/`, `sso/`, `socialauth/` | control tables | CRUD | mostly single-transaction requests | - |
| **AI, opportunities, MCP server, mailer, blocking, IP metadata, charts, CLI, devtool, frontend** | - | pure computation, I/O or presentation | - | - |

How they interact: the HTTP server publishes hits to NSQ; the ingest consumer batches them into the
tenant store that `TenantStoreManager` resolves and emits goal-conversion webhook events through
`webhookdispatcher.Emitter`; the emitter persists deliveries in the control database and publishes
their ids to NSQ; the webhook worker's handlers claim, send and record them; the sweeper, a goroutine
started by the worker, repairs whatever was lost. Site deletion, retention, compaction and tenant
moves change the same rows and files from the side.

## Plan

1. **WebhookDelivery**, with the abstract **DeliveryPromise** and **WebhookDelivery_proofs** (done).
2. **WebhookOutbox** and **WebhookOutbox_proofs**: emission with deduplication, secret rotation, and the
   staged outbox of a site deletion (done).
3. **IngestPipeline** and **IngestPipeline_proofs**: topic, handlers, batcher and idempotent persistence
   across requeues, timeouts and restarts (done). One batch of it is an emitter of WebhookOutbox.
4. **SiteRename** and its proofs: the references of a renamed site on their way through the shadow row (done).
5. **DatabaseSwap**, **TenantSplit** and **DatabaseFiles_proofs**: the file operations of compaction and of the
   default-tenant split under kills and power failures (done).
6. **ReconnectingConnector** and its proofs: pool, invalidation, drain and recovery (done).
7. **SiteTransfer** and **SiteData_proofs**: copy, delete and re-mapping across databases with ingest running (done).
8. **ReportDelivery** and its proofs: run and delivery claims, retry budget, recovery (done).
9. **RollupDirty**, **OAuthGrants**, **ClusterLeader** and **ServerParts_proofs** (done).
10. **RealtimeBroker** and **WalRecovery**: the streams of dashboards; the opening of a database whose log may not
    replay, with the guard of its migrations (done).
11. **Upkeep_proofs**: that the run of all these machines is a run of each (done).
12. Left, in this order: the order of `Consumer.Stop` (channel close against a blocked send) and web vitals; staged
    imports (`database/store_imports.go`); tenant stores attached to one instance (`database/migrate_tenant.go`); an
    abstract specification of the ingest pipeline (a set of stored hits that only grows, each finished message in
    it) as its refinement.

Each comes with a small instance, a type invariant and the properties for the hazards that `PROJECT.json` lists
at its source.

## Modules

| Module | Role |
|---|---|
| `DeliveryPromise` | abstract: a persisted delivery stays owed until it is kept, broken after `MaxAttempts` recorded attempts, or forgotten with its row |
| `WebhookDelivery` | rows, topic, publishers, sweeper and handlers |
| `WebhookDelivery_proofs` | its theorems |
| `WebhookOutbox` | one site's emitters, deletions, sweeper and webhook configuration |
| `WebhookOutbox_proofs` | its theorems |
| `IngestPipeline` | messages of hits, the consumer's handlers, the batcher and the rows of the stores |
| `IngestPipeline_proofs` | its theorems |
| `SiteTransfer` | a site's analytics on their way to another team, with ingest running |
| `SiteRename` | a site's references on their way through the shadow site, with ingest running |
| `RollupDirty` | dirty marks, refreshes and backfill of one roll-up bucket |
| `SiteData_proofs` | the theorems of these three |
| `DatabaseSwap`, `TenantSplit`, `DatabaseFiles_proofs` | compaction of a database file; the split of the default tenant's file from the control file |
| `ReconnectingConnector` | connections, an invalidated database instance and its replacement |
| `ReportDelivery`, `ReportDelivery_proofs` | runs and deliveries of one scheduled report, the scanner and its users |
| `OAuthGrants`, `ClusterLeader` | the credentials of one grant; leadership and forwarding in the cluster |
| `MCWebhookDelivery`, `MCWebhookOutbox`, `MCIngestPipeline` | small instances for TLC |
| `RealtimeBroker` | the change events of one site, its streams and the browsers' last IDs |
| `ServerParts_proofs` | the theorems of `ReconnectingConnector`, `OAuthGrants`, `ClusterLeader` and `RealtimeBroker` |
| `WalRecovery` (theorems in `DatabaseFiles_proofs`) | a database's file, log, migration guard and recovery marker, from one start to the next |
| `MCUpkeep` | the eleven machines from `SiteTransfer` on, for TLC |
| `Upkeep_proofs` | that `MCUpkeep` runs each of them as it is |

The eleven machines of `MCUpkeep` share no state: they are parts of the program that do not call each other. Its
variable `machine` chooses one of them in the initial state; the others stay as they were at their start. So one
run explores each of them in full, and no product of any two. The fairness of a machine is about that machine's
own variables, and a property speaks of those of one machine only, so it is checked as if the machine were alone.

### WebhookDelivery and the code

A row of `webhook_deliveries` is `status`, `attemptCount` and the bits `due` (`next_attempt_at` has
come), `queued` (`dispatch_queued_at`: absent, within the sweeper's queue lease, or beyond it) and `stale`
(`last_attempt_at` is older than `staleAfter`). The clock comparisons of the SQL statements read these
bits, and the time actions set them. `attempts` is `webhook_delivery_attempts`; `queue` counts the
messages of the topic.

Each SQL statement, transaction, publish and HTTP exchange is one action, because other goroutines run
between any two of them:

| Action | Code |
|---|---|
| `Enqueue` | `EmitBatch` up to the commit of `EnqueueWebhookEvents` |
| `MarkQueued`, `Publish`, `PublishFails`, `ClearQueued` | `publishDelivery`, and the sweeper's loop, which repeats it |
| `RecoverStale`, `RecoverStaged`, `ListDispatchable`, `DeleteOldAttempts`, `DeleteOldDeliveries`, `SweepFails` | `Sweeper.RunOnce` |
| `Receive`, `DiscardMessage` | the look-up and `tryAcquire` in `handleMessage` |
| `Claim`, `LoadClaim` | the UPDATE and the re-read of `ClaimWebhookDelivery` |
| `Send` | destination checks and the POST |
| `LoadForRecord`, `RecordAttempt`, `RecordFindsNoRow` | the read and the transaction of `RecordWebhookDeliveryAttempt` |
| `HandlerFails` | any of these statements failing, the error returned to go-nsq |
| `DeleteSiteRows` | `deleteSiteData` |
| `MessageTimesOut`, `Crash` | NSQ's message timeout; the process restarting with an empty nsqd |

An event emitted again (the ingest message that caused it was redelivered, and carries an id) publishes
the stored deliveries again. `accepted` and `posts` are ghosts: what the receiver has answered and how many
requests it has seen.

Not in this module: the payload and its signature, the order in which a sweep lists rows, its limit of
500, the events table (no statement of the dispatcher reads it), and the listing for the API.

### WebhookOutbox and the code

`WebhookOutbox` is the other side of the same tables: how a delivery comes to be. `WebhookDelivery`
starts from a stored row and forgets its event and its secret; `WebhookOutbox` keeps those and reduces
the dispatcher to `Claim` and `RecordAttempt`.

`config` and `secret` are the rows of `webhooks` (a webhook is on, off, deleted, or not there yet),
`events`, `status` and `signed` the rows of `webhook_events` and `webhook_deliveries`. A delivery is named by
its event, its webhook and the goroutine that made its id up, since the code draws a fresh UUID on every
attempt to store it. The ids of staged deliveries are kept in the outbox, so there `by` is the deletion.
`outbox[d]` is what request d has staged in `site_deletion_webhook_outbox`; `captured[d]` what it read.

| Action | Code |
|---|---|
| `LookUp`, `ReadSubscribers`, `InsertEvents` | `EnqueueWebhookEvents`: the read of stored events, one read of the subscribers per event, the transaction |
| `InsertConflicts`, `EmissionFails` | its primary-key error and any other, with what the caller makes of it: an ingest batch is requeued, a request goes on |
| `Redeliver`, `Discard` | NSQ: a finished batch arrives again, or is given up after its attempts |
| `ReadDeletionSubscribers`, `Stage` | `TenantStoreManager.DeleteSiteWithWebhookEvent`, `stageSiteDeletionWebhookEvent` |
| `DeleteSiteData`, `DeleteSiteRow`, `DeleteSiteRowRefused` | `deleteSiteData`, `deleteSiteRow`, and its failure when a new webhook references the row |
| `DeletionFails`, `CancelStaged`, `CancelFails` | the error path of `DeleteSiteWithWebhookEvent` and the cancellation, whose error is dropped |
| `LoadStaged`, `CommitStaged`, `CommitDeferred` | `CommitStagedSiteDeletionWebhookEvent`, and its failure, which the request reports as deferred |
| `ListRecoverable`, `SweepLoad`, `SweepCommit`, `SweepFails`, `DeleteAbandoned` | `Sweeper.RunOnce`: recovery of staged deletions, then the clean-up of abandoned ones |
| `CreateWebhook`, `UpdateWebhook`, `DeleteWebhook`, `RotateSecret` | the same names in `store_webhooks.go` |
| `Claim`, `RecordAttempt` | all the dispatcher does, as far as a secret or an event can tell |
| `Crash` | the process restarts: requests and sweeps end, messages in NSQ's temporary directory are gone |

The batches of this module are of hits that carry their ids, as the tests publish them: a redelivered batch
has the events it had before. A hit without an id has new events in each attempt (see `IngestPipeline`), so
there a redelivered batch is another emitter.

A request reads the site before its subscribers (the handler, `ResolveSiteStore`) and acts on that reading: another
request may have removed the row since, so `ReadDeletionSubscribers` does not ask for it.

One assumption is built in: the rows of a request turn 24 hours old (`Age`) only after the request has
ended. No limit in the code says so, but a deletion takes seconds.

What is deliberately not claimed, because no document or comment promises it: a deletion that failed after its
data was deleted and is tried again tells only the instance's webhooks, since the site's own are gone; and
a deletion that was interrupted once its row was removed, and whose staged rows the sweeper commits, may
run beside a second request that announces the same site again under an event id of its own.

### IngestPipeline and the code

Each message of a topic (hits and events take the same path; a web vital is inserted without a test for
duplicates and emits nothing) is in the state `topic` and was handed out `tries` times. `hpc`, `message`,
`attempt` and `answer` are the locals of the 64 concurrent handlers of `processMessage`, each of which blocks
until the batcher answers. The items in the batcher's channel and in its `pending` slice are the handlers
that wait (`queued`, `pending`). A message whose body has no id is a row of its own in each attempt (`IdOf`):
the id is drawn where the row is stored, for a body unmarshalled anew.

| Action | Code |
|---|---|
| `Accept` | the HTTP handlers' synchronous publish, before they answer 202 |
| `Receive`, `GiveUp`, `MessageTimesOut`, `Settle` | nsqd and go-nsq: hand out, discard after the last attempt, time out, FIN and REQ, which have no effect on a message that is not in flight |
| `ResolveFails`, `Enqueue`, `Respond` | `processMessage` around `storeBatcher.Enqueue` |
| `Collect`, `Tick` | `storeBatcher.run`: a full batch or the ticker starts a flush |
| `FilterMissing`, `Append`, `AppendFails` | `CreateHitsBulkIdempotent`: the read of stored ids, then the appender, not in one transaction |
| `Announce` | activity summary and realtime broker, for the new rows |
| `Emit`, `EmitCollides`, `EmitFails` | the group's conversion events, stored, refused because a copy in the batch has the same event, or failing |
| `AnswerGroup` | the end of a group in `flush`: all its handlers get one answer |
| `Crash` | a restart: nsqd's directory was temporary |

Not in this module: bodies that do not parse (the server marshals them), the order of `Consumer.Stop`, the
validation of requests, and the delay of requeued messages.

### SiteTransfer, SiteRename and the code

`siteTeam` is the site's row of `site_tenants`, `siteRows` its analytics in each team's database, `teamCache` and
`teamQuery` the cache of `GetSiteTenantID` and the one query that singleflight lets through. A hit's goroutine
resolves its store (`ResolveHit`) and stores the hit there (`StoreHit`), any time later.

| Action | Code |
|---|---|
| `QueryTeam`, `CacheTeam`, `ExpireTeam` | `GetSiteTenantID`: the query, the cached answer, its 30 seconds |
| `BeginTransfer`, `TransferToSame` | `transferSite` up to the copy, under `siteQuotaMu` |
| `ClearDestination`, `SelectRows`, `InsertRow`, `CopyDone` | `copySiteAnalyticsTable`: the deletion at the destination, the SELECT, one INSERT per row, the commit |
| `DeleteAtSource`, `ChangeMapping`, `ForgetMapping` | `deleteSiteAnalyticsOnly`, `TransferSiteTeamWithAudit`, `SyncSite` and the invalidation of the cache |
| `TransferFails`, `TransferRestart` | any of these failing, `SyncSite` after the commit of the mapping included; the process restarting |

Two ghosts judge the transfers. `carried` has every row that any of them has read, and only grows. `route` is "cut" while
the last transfer to have moved the rows ended between the deletion and the mapping, and "astray" from the moment on
when another one begins that clears what may be the only copy: the retry, which starts from the team the mapping still
names, or a transfer to the team that has the rows, begun while the cache still names the earlier one.

In `SiteRename` the mapping is one of the references (`refsAt`: the site itself, or a shadow), and the answers are
the site's team or the default one. The actions are the transactions of `UpdateSiteDomain` in their order
(`BeginRename`, `InsertShadow`, `ParkReferences`, `UpdateDomain`, `DeleteShadow`), its error path (`UpdateRejected`,
`UndoMove`, `AfterFailure`, `TransactionFails`), a row that comes to refer to the site meanwhile (`AddReference`),
and a restart. The ghost `stranded` says that the references stay where they are because the rollback failed or
the process ended: no other code moves them.

Not in these modules: the mirrored sites row, goals and funnels, quotas, permissions and audit rows.

### RollupDirty and the code

One bucket. `dirtyMark` is its row of the dirty table, which carries a time; since times are only compared by
the clearing statement, a refresh keeps the set of marks that are not younger than itself. `tally` is the set of
batches the roll-up row counts.

| Action | Code |
|---|---|
| `TakeTime`, `MarkDirty`, `AppendHits`, `BatchFails` | `createHitsBulk`: the time of the mark, its upsert, the appender |
| `BeginRefresh`, `ListDirty`, `CountBucket`, `ClearMark`, `RefreshFails` | `refreshDirtyRollupsInRange`, for the worker and for readers |
| `BeginBackfill`, `BackfillBucket`, `BackfillFails` | `BackfillRollups`, daily and after a start |
| `RollupRestart` | the process restarts |

### DatabaseSwap and the code

`entry` is the directory: the file behind the path, behind `.pre-compact` and behind `.compacting`. A change of it is
visible at once and survives a power failure for certain only after the directory was synced: `survivors` is the
set of directories a power failure may leave. `rowsIn` and `acked` are what the files hold and what was committed.

| Action | Code |
|---|---|
| `StartDatabase` | a start: the control database's opens the file first, a tenant's recovers first |
| `RestoreBackup`, `SyncRestored`, `DropWork`, `RemoveBackup`, `SyncRemoved`, `NothingToRecover`, `RecoveryFails` | `recoverCompactionSwap` |
| `RemoveStaleFiles`, `NotWorthwhile`, `CreateWork`, `CopyAllRows`, `MoveAside`, `SyncAside`, `PublishWork`, `SyncPublish`, `DropBackup`, `CompactionFails`, `PublishFails` | `MaybeCompactDatabase` |
| `OpenDatabase`, `WriteRow` | the database opened, the control database after a second recovery; a commit |
| `KillProcess`, `PowerFails` | the end of the process; one of the surviving directories becomes the directory |

The variable `database` tells the two callers apart. A tenant's database (`openDefaultTenantStore`, `openTenantStore`)
is recovered, compacted and opened, whether the compaction succeeded or not. The control database (`openStore`) is opened,
closed, recovered, compacted, recovered again and opened. Every file operation may fail for either, also while the live
file is aside. The ghost `leftAside` records how the live file was ever left aside: by a failure the caller went on
from, or by the end of the process.

### TenantSplit and the code

Two directories. A control file is its rows to be moved, its two markers, and whether users, teams and sites are in
it (`home`); a tenant's file is its rows. `controlLeft` and `tenantLeft` are what a power failure may leave.

| Action | Code |
|---|---|
| `StartSplit`, `OpenFirst`, `OpenLegacy`, `OpenMigrated` | `startLeaderServices`, `OpenDefaultSplitControlStore`, `OpenMigratedStore`; the tests call the split directly |
| `CheckComplete`, `RestoreInterrupted`, `SyncInterrupted`, `NothingInterrupted`, `ReadSplitState` | the start of `runDefaultTenantSplitWithFaults` |
| `RestoreForMissingTenant`, `SyncForMissing`, `RefuseMissingTenant` | the tenant's file is missing although the control file says split |
| `SetStrayAside`, `SyncStray`, `NothingSetAside`, `CopyTenantRows`, `PublishTenant`, `SyncTenant` | `prepareDefaultTenantFile` |
| `DropStale`, `FillWork`, `MoveControlAside`, `SyncControlAside`, `PublishControl`, `SyncControl`, `DropControlBackup`, `SwapUndone`, `MarkCompacted` | `rewriteSplitControlDatabase` and the second marker |
| `ServeSplit`, `StoreRow` | `openDefaultTenantStore`; a commit in the tenant's file |
| `KillSplit`, `SplitPowerFails`, `LoseTenantDir`, `PowerTakesTenantDir` | the end of the process, a power failure, a tenant's directory that was not on persistent storage, one whose own entry was not synced in its parent when the power failed |

A failing operation ends the start like a kill, but for the two that undo a rename. After an empty control file was
created, its default tenant has a new id (`uuidv7()` in the migration), so that files of the earlier one are out of
reach (`Orphaned`).

### ReconnectingConnector and the code

Everything done under `c.mu` is one action, and what is done outside (the gate, the recovery, the watchdog's
callback waiting for the mutex) is not. Opening a connection (`OpenConn`) may fail in the factory, which leaves no
instance, or in the instance's `Connect`, which leaves the instance for the next request.

| Action | Code |
|---|---|
| `RequestConn`, `AcquireGate`, `GiveUp` | `database/sql` asks; `connectionGate.acquire` |
| `ConnectLive`, `ConnectRefused`, `BeginRecovery`, `RecoverySucceeds`, `RecoveryGivesUp` | `Connect` |
| `FatalError`, `ReturnConn` | `markDead`, `connClosed` |
| `DrainTimeout`, `RunWatchdog` | the timer fires; its callback gets the mutex |
| `CloseDatabase` | `Close` |

### ReportDelivery and the code

A row of `report_deliveries` has a status, its attempts and a timer: `next_attempt_at` while it waits, `updated_at`
plus ten minutes while it is being sent. The scanner is one goroutine; `scan` holds its step and locals. `sent` counts
the mails the server took, `unrecorded` those of them whose acceptance was not written.

| Action | Code |
|---|---|
| `ScheduleFallsDue`, `TimerElapses` | the clock |
| `BeginScan`, `ReadSchedule`, `ClaimRun`, `ListDueMail`, `EndScan`, `ScanFails` | `RunAt`: recovery of stale rows, `ClaimDueReportRuns`, the list |
| `ClaimMail`, `LoadMail`, `SendMail`, `MarkMail`, `NextMail`, `ClaimFails`, `LoadFails`, `MarkFails` | the loop of `RunAt`, `processNamedDelivery` |
| `CountMail`, `CheckRetryable`, `CheckRetryableFails`, `FinishRun` | `FinalizeReportRun`: the count, the second read `reportRunHasRetryableDelivery`, whose error counts as "not retryable", then the update |
| `Unsubscribe`, `Resubscribe`, `RemoveRecipient`, `RetryReportRun`, `DeleteReport` | the users' requests |
| `ReportRestart` | the process restarts |

### OAuthGrants and the code

Credential 0 is the code, k the refresh token of pair k. A token request is one transaction with a snapshot
(`Snapshot`); `GrantRowTaken` and `CredentialRowTaken` are DuckDB's conflicts, upon which the provider waits and starts over.

| Action | Code |
|---|---|
| `PresentCredential`, `RefuseInactive`, `ExchangeCredential`, `RevokeFamily`, `ConflictFound`, `RevocationErrorHidden`, `TryAgain`, `CommitExchange`, `CommitReuse`, `TokenFails` | `Provider.Token` with the storage calls fosite makes |
| `RevokeToken`, `RevokeGrant`, `CommitRevocation` | `Provider.Revoke` |
| `UserRevokes`, `UserCommits`, `UserFails` | `Store.RevokeOAuthGrant`, which takes no provider's mutex |

Assumed of fosite: with a refresh token it hands a conflict of the storage on to the provider. With a code that was used
before it does not: its stock handler (`oauth/provider.go:88`) keeps an error of the revocation as the debug text of
`invalid_grant`, so the provider rolls back and answers that (`RevocationErrorHidden`).

### ClusterLeader and the code

Each node has its own `peers` and `leader`. `hop` is one ingest request on its way through the nodes.

| Action | Code |
|---|---|
| `CreateList`, `FinishJoin` | `NewManager`: the creation of the list, which announces the node to itself only; the one join through `JoinAddr` |
| `NotifyJoin`, `NotifyLeave`, `FalseView` | memberlist's callbacks, in any order, and its mistakes |
| `ShutdownHTTP`, `ExitProcess` | the order of `Run`'s shutdown; the end of the process, killed or not |
| `Arrive`, `CheckLeader`, `LookupLeader`, `ReachLeader`, `ForwardFails` | `handleIngest` and `forwardToLeader`: `IsLeader` and `GetLeaderAddr` lock one after the other |

`Seed` is the node the others join through, which has no `JoinAddr` itself, as hk-1 of `compose.cluster.yaml`. Members hear
of each other through exchanges with those they know or that know them (`Heard`), and not otherwise: a seed that is restarted
after the others have withdrawn it leads a cluster of its own. Assumed of memberlist: joins and leaves of members that
hear of each other reach them sooner or later. Assumed of the handlers: what comes
before the proxy's call does not outlast the ten seconds of the HTTP server's shutdown.

### RealtimeBroker and the code

The viewers are the dashboards that show one site. `history` is the site's, `nextID` counts the events of all sites,
`channel` and `backlog` are what a stream has still to write, `lastID` is what the browser's EventSource remembers.
`owed` is a ghost: the changes a dashboard has not been told of.

| Action | Code |
|---|---|
| `Publish`, `PublishUnheard`, `PublishElsewhere` | `Broker.Publish` with `appendHistoryLocked` and `enqueue`; with nobody subscribed; for another site |
| `Subscribe`, `SubscribeRefused` | `Broker.Subscribe` with its replay or resync, and the head of `ServeRealtimeStream`; a closed broker's 503 |
| `WriteBacklog`, `WriteEvent` | `writeRealtimeEvent`, first for the replay, then for the channel |
| `EndStream`, `Sever`, `NoticeSevered` | the stream's minute, a write that fails, a viewer who leaves; a connection that is cut, which the server notices later |
| `CloseBroker`, `RestartBroker` | `Broker.Close` at a shutdown, upon which streams write what they hold; the process anew, its IDs from 1 |
| `Reopen` | `openSource` of the dashboard's service, with a new EventSource |

`NoSilentGap` starts `owed` anew with a subscription that names no ID of this process, and gives up the events up to the
last ID when a stream ends before its resync was written: there the code keeps no promise (see "Noticed").
Severed streams stand for other subscribers as well, so that one viewer shows every case.

### WalRecovery and the code

A file or a log is what the database holds once it is read: writes, the number of applied migrations, the checkpoint
token. `pristine` says whether the file's checksum is the guard's. Every operation on the disk is one action, and the
process may be killed (`Kill`) between any two. Whether a log can be replayed is a choice at each opening.

| Action | Code |
|---|---|
| `Start`, `NothingToResume`, `Opened`, `OpenedGuarded`, `ClearRecoveredGuard` | `Store.Connect`: the guard, `recoverStartup`, the opening, `checkpointMigrationGuard` |
| `RefuseChanged`, `KeepBundle`, `BeginBypass` | `recoverWALWithPolicy`: the checksum, `createBundle`, the marker |
| `LogRemovedByOperator`, `RefuseUnasked`, `AuthorizeBypass`, `MoveLogAside`, `LogMoved`, `CheckpointWithoutLog`, `MarkBypassed`, `RemoveAside`, `CompleteBypass`, `RefuseRecovery` | the phases of `applyWALRecovery` |
| `ProofWaived`, `MoveLogBack`, `RejectProof` | a migration's log whose proof fails, with `automaticWALRecovery` on; `restoreUnverifiedMigrationWAL` |
| `UpToDate`, `KeepGuard`, `GuardByChecksum`, `CommitToken`, `CheckpointToken`, `GuardByToken` | `migrate` up to the first step, `prepareGuardedMigration` |
| `ApplyStep`, `CheckpointStep`, `ReopenAfterStep`, `CheckpointMigrated`, `ClearMigrationGuard` | `runMigrationStep`, its checkpoint, the reopening of `OpenMigratedStore`, `completeGuardedMigration` |
| `CommitWrite`, `CheckpointInUse` | the database in use |
| `Upgrade`, `RemoveLog`, `TakeCopy`, `RestoreCopy` | the operator |

The point of the guard: with it, a log that fails to replay is dropped without asking anybody, because it can hold
nothing but migrations, which are done again. `WritesKept` is that claim, with the operator's own actions around it.

## Runs

| Run | Instance | Shows |
|---|---|---|
| `delivery_safety` | 1 delivery, 2 handlers, 1 emitter, sweeper, 2 attempts, 2 messages, 2 faults | type invariant, exclusive claims, exact log, settling reasons, accounted requests, finality, backoff, refinement of `DeliveryPromise` |
| `delivery_liveness` | the same with 1 fault, `FairSpec` | every delivery settles |
| `outbox_emission` | 2 ingest batches that share an event, 1 webhook of the site, 1 rotation, 1 deletion, 1 fault | type invariant, one delivery per event, finished batches stored, rotations reach every stored row |
| `outbox_deletion` | 2 requests delete one site with an instance webhook and one of its own, 1 fault, `FairSpec` | announced after the deletion, kept, and delivered in the end |
| `outbox_rotation` | 1 emitter, 1 webhook, 1 rotation | violated: a pending delivery has the secret that was rotated away |
| `ingest_retries` | 2 messages of 2 tenants, one with an id, 2 handlers, batches of 2, 3 attempts, 2 faults, `FairSpec` | type invariant, one row per id, finished messages stored, every message settles |
| `ingest_requeue` | 1 message without id, 1 handler, 1 fault | violated: a requeued hit is stored twice |
| `upkeep` | the eleven machines of `MCUpkeep`, each with faults, `UpkeepSpec` | see below |
| `transfer_loses` | 2 teams, 1 hit, 1 transfer | violated: a hit acknowledged at the source during a transfer is gone after its success |
| `rename_misroutes` | 1 hit, 1 rename | violated: a hit stored in the default team's database during a rename |
| `compaction_control` | the control database's caller, no failing operation | violated: a start opens an empty database after a kill between the renames |
| `split_restore` | the server, 1 lost directory | violated: the backup a lost tenant's directory is restored from was already removed |

What `upkeep` shows of each machine:

| Machine | Properties |
|---|---|
| `transfer` | `CarriedRowsKept`: no row that any transfer has read is lost, whichever step fails, but by the two transfers above that go astray; `RoutingSettles`: lookups agree with the mapping in the end |
| `rename` | `RenameRoutesBack`: unless the rollback fails or the process ends, hits are routed to the site's team again |
| `rollup` | `EveryHitCounted`: every stored hit is counted some day and stays so |
| `swap` | `NothingLost`: whatever is killed, undone or fails, the file that is opened next has every committed row, but after the one fault each caller does not survive (`Tolerated`) |
| `split` | `RowsSurvive`: the two directories a power failure may leave have every row between them, unless the tenant's directory itself was lost; `OneAuthority`: a server that runs has them in the tenant's file only |
| `connector` | `OneInstance`, `GateAccounted`; `DeathIsDealtWith`: a dead instance is replaced or reported |
| `report` | `MailsAccountedFor`: no second mail but after a lost record; `CompletedMeansDelivered`; `EveryReportSettles` |
| `oauth` | `OneTokenPair`: one exchangeable credential, one live access token; `RefusalIsFinal`: a refused client's grant is over, but for a code presented again |
| `cluster` | `HopsDescend`: a request is never forwarded to a greater name; `LeadersSettle`: members that know each other agree in the end |
| `realtime` | `NoSilentGap`: what a dashboard with a stream was not told of is on its way, or a resync is |
| `recovery` | `WritesKept`: a committed write is in the file, its log or the log set aside, unless the operator gave it up, and then a bundle or a copy has it; a database in use shows all |

Bounds. Rows of `WebhookDelivery` interact only through the endpoint's slots and the publishers' loops, so one delivery with
two handlers shows every conflict over a row; several deliveries, which share slots, are left to the theorems, among
them `PromiseKept` for each. Two messages
are the least with which a duplicate exists while a handler works on the first; more only repeat it.
Two attempts give one retry and one final failure. Two faults suffice for the compound cases (a failed
publish whose marker cannot be cleared, a crash after a timeout). Symmetry is used over handlers, in runs without a
liveness property only. Deadlock is not checked: a system with
nothing to deliver is at rest.

For `WebhookOutbox`: two batches that overlap in one event show every collision of inserts, since a conflict is
always over one event and with one earlier transaction; one batch has an event of its own, which a
look-up of the whole batch would lose. Two requests for one site are the least with which one deletion
finds the row gone while the other has still to commit, and with the sweeper there are three committers.
Two webhooks tell the site's own (deleted with it) from the instance's. One rotation separates the current
secret from a stale one. One fault interrupts a deletion or a sweep at any of its steps; the theorems
have no such bound.

For `IngestPipeline`: two handlers are enough for a message to be handled twice at once, with both copies in one
batch or in two; with three handlers and three
faults (3.8 million states, invariants only, not kept as a run) nothing new appears. Two
tenants make one flush of two groups, of which one can fail. Three attempts leave room for two failures
and a success, and for giving up. The theorems have none of these bounds.

For the machines of `upkeep`:

- `transfer`: two teams, two hits (one that is copied and one that comes too late), two transfers (there and back, so
  that the destination has rows of the earlier one), one fault at any step.
- `rename`: one hit, two renames (the second meets what the first left parked), two faults, as a failure
  matters most when its rollback fails as well.
- `rollup`: two batches (one marks while the other is counted), two refreshers (the worker and a reader), one fault.
- `swap`: three files (live, work, and what a power failure brings back), two writes (one before the
  compaction, one after), both callers, one failing operation; kills and power failures are not bounded.
- `split`: two rows, one undone rename, one loss of the tenant's directory of either kind, both callers; kills and power failures are
  not bounded.
- `connector`: three goroutines and a gate of two, so that one waits; two fatal errors, so that the second
  instance dies too.
- `report`: two recipients (one can fail while the other is sent), one occurrence, two attempts, two requests
  of users, one fault. Another occurrence has a run and rows of its own.
- `oauth`: two providers on one database, three pairs: two refreshes after the code.
- `cluster`: three nodes, the least with which a request could go round among followers, three starts, one false view.
- `realtime`: one viewer, a history and a channel of two events (so that both overflow), four events, two cut streams
  that are still served, one restart.
- `recovery`: one write, two releases (so that a migration is interrupted before and after its first checkpoint), one
  token, one restored copy; kills, recoveries and refused starts are not bounded. With two writes and two tokens
  (424,000 states, alone) the invariants hold as well.

Fairness (`delivery_liveness`). The publishers and the handlers are goroutines the Go scheduler runs;
the sweeper repeats on a ticker (`Sweeper.Start`), nsqd hands out the messages it holds, and the clock
advances. None of the faults, emissions, deletions and retention steps is forced. The instance of
`MaxFaults` makes faults finite: a database that always fails would settle nothing.

Fairness (`outbox_deletion`). Emitters and requests that have begun run on, and the
sweeper's ticker fires. Nobody has to delete the site, change the configuration, redeliver a batch or fail.

Fairness (`ingest_retries`). Handlers and the batcher are goroutines, its ticker fires, and nsqd hands out what is
ready. Faults are finite by `MaxFaults`, but `MessageSettles` does not rest on it: nsqd's attempts are.

Fairness (`upkeep`), machine by machine. A transfer or a rename that has begun goes on, the running query is answered,
and a cached answer expires. The daily backfill of roll-ups is run; refreshes are not forced. Requests for
connections come, a goroutine in `Connect` goes on, the drain's timer fires and its callback gets the mutex; nobody
has to return a connection. The scanner of reports goes on and wakes every minute, and timers elapse. memberlist's
notifications arrive at members that hear of each other (nothing makes others meet: no process is forced to start again,
and none joins twice), and a handler goes on. Compaction, the split, the
authorization server, the realtime broker and the opening of a database have safety properties only.

## Proofs

`WebhookDelivery_proofs` proves, for any sets of deliveries, endpoints, handlers and emitters, and any
bounds that satisfy `DeliveryAssumption`:

- `TypeCorrect`: `TypeOK` is inductive as it stands.
- `ExclusiveClaims`, from `ClaimInv`: whenever a handler is in an attempt (`Attempting`), its row is processing
  and fresh or its row was deleted, and no other handler attempts the same delivery. `ClaimExclusive`
  alone is not inductive: that a second claim is refused follows from the row's status.
- `FaithfulLog`, `SettlingReasons`, from `LogInv`: the copies a handler holds (`claimed`, `number`, `outcome`)
  agree with its row until it records, and the log is the end of the row's history.
- `OutcomesAreFinal`, `NoEarlyRequest`: the action properties, from the same two invariants.
- `RequestsAreAccounted`: inductive with `ClaimInv`, which bounds the requests that are not counted yet: at most one
  handler is at a delivery's row (`OneOrNone`), so the `Cardinality` that `Uncounted` takes is 0 or 1 (`UncountedValue`),
  and a handler's steps change it for its own delivery only (`UncountedKept`).
- `PromiseKept`: each step maps to a step of `DeliveryPromise` or to a stutter.

All of these but `TypeCorrect` assume `Timely`: an attempt ends within `staleAfter` of its claim. The code does not
enforce it (without it the sweeper may take a running handler for a stopped one), but with the default settings an HTTP
exchange ends after 10 seconds and `staleAfter` is a minute, so it is the assumption the design makes. The runs of
`WebhookDelivery` set it as well. With `Timely = FALSE`, TLC finds each property of `delivery_safety` but the type invariant
violated on the same instance: what a stale claim does to a handler that is still at work is assumed away, not shown harmless.

Model-checked only: `EveryDeliverySettles` (liveness).

`WebhookOutbox_proofs` proves, for any sets that satisfy `OutboxAssumption`, any batches, and any number of
rotations and faults:

- `TypeCorrect`: `TypeOK` is inductive, one group of variables at a time.
- `RotationsReachStored`: inductive with the types, because nothing reopens a settled delivery and a
  delivery is stored with the secret of that moment as its witness.
- `AnnouncementsFollowDeletion`, from `SeenGone`: the request past the removal, the sweeper's list and the
  deletion it is at have all seen the row gone, and it never comes back. `AnnouncedAfterDeletion` says
  nothing of the committers, so it is not inductive alone.
- `OneDelivery`, from `StoredWithEvent` (a stored delivery has its event stored) and `StagedOnce` (a stored
  deletion event has left the outbox, and its request is past staging). The first turns the primary key of
  `webhook_events` into uniqueness of deliveries, whose own ids are always fresh; the second excludes a
  delivery both staged and stored.
- `AnnouncementsAreKept`, from `KeptInv`: what a request read stays staged or stored from its staging on
  (`KeptByRequests`); a committer has read all that is still staged (`LoadedAll`), so that moving what it read
  loses nothing; aged rows belong to requests that have ended, and who removed the site is past its error
  paths (`RequestOrder`). With `SeenGone` the clean-up of abandoned rows, which asks whether the site exists,
  cannot touch an announcement that is due.
- `AcknowledgedAreStored`, from `Found`: what a look-up did not miss is stored and stays so while no
  deletion has taken the site's data.

Model-checked only: `AnnouncementDelivered` (liveness).

`IngestPipeline_proofs` proves, for any messages, handlers and stores that satisfy `IngestAssumption`:

- `TypeCorrect`: `TypeOK` is inductive.
- `RowsAreCountedOnce`, from `RowsInv`: what the read found missing is still missing when the appender acts on it
  (`MissingIsMissing`), since only the one batcher goroutine stores rows of a topic, and rows just appended
  were not announced before (`NewIsUntold`). The table has no key that would enforce it.
- `FinishedAreStored`, from `StoredInv`: each row of the group is missing or stored (`GroupIsRead`), then stored
  (`GroupIsStored`); conversions are of stored rows; a handler answered "ok" has its row among them
  (`OkIsConverted`). That a late response may finish a message for another attempt does no harm, because the
  message of the response was stored.

Model-checked only: `MessageSettles` (liveness).

`SiteData_proofs` proves of `SiteTransfer`, for any teams, hits and bounds:

- `TransferTypes`: `TransferTypeOK` is inductive.
- `CarriedRowsAreKept`, from `CarriedInv`: while a transfer is underway, what its SELECT returned is at the source until
  the deletion, and in the destination but for what is still to be inserted; between transfers every row that any of them
  has read is somewhere, and with the site unless the route is cut. `CarriedRowsKept` alone says nothing of where the rows
  are while they are in two places.

of `SiteRename`, for any hits, renames and faults:

- `RenameTypes`, from `RenameInv`: that the mapping never refers to a shadow that is gone needs that a shadow is deleted
  only when nothing refers to it, and that one is there before references are parked (`ShadowThere`).
- `ReferencesComeHome`, from `ParkedMeanwhile`: references are away only between the parking and the end of the update or
  its rollback. This is the safety part of `RenameRoutesBack`.

and of `RollupDirty`, for any batches and refreshers:

- `RollupTypes`; `CountsStand`, from `CountsStored` and from what is stored staying so: every count is of all that is
  stored, so that no two of them, however they overlap, can set a bucket back. This is the safety part of
  `EveryHitCounted`.

Model-checked only: `RoutingSettles`, `RenameRoutesBack` and `EveryHitCounted` (liveness).

`DatabaseFiles_proofs` proves of `DatabaseSwap`, for both callers, any rows and any faults:

- `SwapTypes`, and `NothingIsLost` and `NeverOpenedEmpty` from `SwapInv`: every directory that a power failure may leave
  is whole (its live file or, if there is none, its backup has every committed row), a start is at a step
  that fits the directory at hand, and a file that is about to be published has all rows, as long as the caller's own fatal fault has not happened
  (`Tolerated`, which no assumption excludes: the invariant says nothing after it). `NothingLost` is
  about the present directory only: power failures are what the rest is for.

and of `TenantSplit`, for any callers and bounds:

- `SplitTypes`, and `RowsAlwaysSurvive` and `AlwaysOneAuthority` from `SplitInv`: any two directories that may be left together
  keep every row unless the tenant's was lost (`Kept`), what a start is about to do fits the control file and the tenant's file
  (`StepsControl`, `StepsTenant`), a control file with the split marker has no rows (`Files`), and a published tenant's
  file has the rows the control file had (`Finals`).

and of `WalRecovery`, for any number of writes, releases, tokens and restored copies:

- `RecoveryTypes`, and `WritesAreKept` from `WalInv`: a log holds all that its file holds (`LogsExtend`), the guard is of a
  content that has every write, and while its checksum fits, the log behind it has no write of its own (`GuardsTell`);
  a content with the guard's token has all that was there when the token was given (`TokensTell`); what a bypass may
  drop is kept elsewhere or not needed (`BypassKeeps`). `WritesKept` alone does not say why a log may go.

`ReportDelivery_proofs` proves, for any recipients, occurrences, attempts, edits and faults:

- `ReportTypes`; `MailsAreAccountedFor`, with the scanner's copy of a row agreeing with the row, whatever users do to it
  between the claim and the mark; `CompletedIsDelivered`, from what the count has seen still being so when its result is
  written, or a user's retry having made the run unfit for it.

Model-checked only: `EveryReportSettles`.

`ServerParts_proofs` proves of `ReconnectingConnector`, for any finite set of goroutines, any gate and any number of fatal errors:

- `ConnectorTypes`; `TokensAreAccounted` from `Counts`; `OneInstanceAtATime` from `ConnectorInv`: the numbers of
  instances never exceed those opened (`Numbers`), and a goroutine in the recovery, or an instance being opened, excludes
  every connection (`Exclusive`), because `openConns` is exact.

of `OAuthGrants` and `ClusterLeader`, for any providers and pairs, and for any finite set of nodes:

- `OAuthTypes`; `OnePairInForce` from `PairInv`: besides `OneTokenPair`, no pair is later than the one in force (`NoLaterPair`),
  a transaction about to commit has still the credential it read (`PendingExchange`), and only one of them
  can be (`OneExchange`); `RefusalsAreFinal` from `RefusalInv`: a refresh token is refused only when the grant has ended, and
  a code only then or when it was used, and neither is undone.
- `ClusterTypes`; `RequestsDescend` from `OwnPeer` (a node that is up is among its own peers, so its leader is not
  greater than itself) and `HopInv` (what a follower looked up is not greater than itself).

and of `RealtimeBroker`, for any viewers, any limits of the history and the channels, and any number of events, cut
streams and restarts:

- `RealtimeTypes` and `NoGapIsSilent`, from `RealtimeInv`. `NoSilentGap` speaks of viewers with a stream only; whether a
  viewer that comes back is told of everything is decided while it is away. So the invariant says of every viewer: what
  it is owed and the history reaches back to is in the history, and if the history reaches back to its last ID, what it
  is owed came later (`OwedInv`); what is on its way is in the order of IDs, the replay first (`QueueInv`), so that an ID
  never passes over an event still to be written; and without a subscription there is no history (`HistoryInv`).
  `ReplayFacts` says what a replay returns for every history: its first event is the least one that is later, which
  exists because the natural numbers are well-founded (`LeastNatural`, from the library's `WFMin`).

Model-checked only: `DeathIsDealtWith` and `LeadersSettle` (liveness).

`Upkeep_proofs` proves of `MCUpkeep`, with no other assumption than the named ones on its constants:

- `UpkeepTypes` and `UpkeepIsSafe`: a step of the whole is a step of one machine and a stutter of every other
  (`EachRunsAlone`), so that the conjunction of their inductive invariants (`UpkeepInv`) is inductive. What the run checks
  on small instances is, but for its liveness properties, what these theorems state for every instance.

Every invariant and action property that a passing run checks is thereby the subject of a theorem. Left to TLC, because
the installed provers cannot do it, is liveness under fairness.

## Not modelled

- Parts of modelled components: web vitals and the order of `Consumer.Stop` (ingest), the listing of deliveries for
  the API, mirrored sites with their goals and funnels (transfers), the hand-run rebuild of a lost tenant's file
  (`database/rebuild_default_tenant.go`), the calendar of report schedules and the consent of external recipients,
  expiry, scopes and PKCE of OAuth, which services a node starts, the kinds of realtime events, the repair of indexes
  in `database/recovery.go` (rows and indexes inside DuckDB), and the migrations of tenant stores that are attached to
  one instance (`database/migrate_tenant.go`; their catalogs share the log handling of one file each).
- Staged imports: next in the plan.
- Retention, backup, search console, takeout, cloud billing: periodic reads and deletions in single
  statements around I/O. What they interfere with (deliveries, files) is an action of the module concerned.
- HTTP handlers, users, teams, permissions, MFA, SSO, social login: validation and single transactions.
- Analytics queries, importers, charts, mail rendering, AI, MCP server: pure computation over data, no control.
- Frontend, CLI, development tools, configuration: not part of the running server's state.

## Disagreements between documentation and code

- "Pending deliveries will use the new secret" (rotation dialog, `frontend/dashboard/public/i18n/en.json:3448`): a
  delivery whose subscribers were read before the rotation and stored after it is pending with the old
  secret for all its retries (`outbox_rotation`). What does hold is `RotationReachesStored`.
- "can safely requeue the original message batch" (`database/store_ingest_idempotent.go:14-16`): hits and events
  are published without an id, so a requeued one is not recognised and is stored again, and its conversions
  are announced again under new event ids (`ingest_requeue`). What does hold is `RowsCountedOnce`, which is
  all there is to say of messages that carry an id.
- "migrates analytics data to the destination tenant store" (`server/system/api_docs_paths_site.go:550`): hits that are stored
  at the source between the copy and the deletion are deleted with the rest, and those stored after the deletion stay
  behind (`transfer_loses`). What does hold is `CarriedRowsKept`.
- "GetSiteTenantID resolves the owning tenant for a site." (`database/store_tenant.go:104`): while a rename has parked the
  mapping it answers the default team, and keeps doing so for 30 seconds (`rename_misroutes`). What does hold is
  `RenameRoutesBack`.
- "restore the original before any caller can create a new empty database at the live path" (`database/compact.go:153-156`):
  a start opens the control database before anything looks for a backup (`compaction_control`). What does hold is
  `NothingLost`.
- "restoring it and re-running the whole split loses nothing" (`database/split_default_tenant.go:196-197`): by then the server has
  removed the backup (`split_restore`). What does hold is `RowsSurvive`.

Where the code breaks a promise, the property above that is about it makes an exception. Each was found with TLC by
leaving the exception out (these checks are not kept as runs):

- A transfer that fails, or is stopped, between the deletion at the source and the mapping leaves the site with the source
  and its rows at the destination. Tried again, it starts from the empty source, and its first statement, the DELETE at the
  destination (`database/tenant_store_manager.go:821-823`), clears the only copy. So does a transfer to the team that has
  the rows, begun while the cache names the earlier one. (`CarriedRowsKept` without `route`)
- A tenant's compaction that gives up with the live file aside, after a directory sync that fails (`database/compact.go:122`) or
  a publication whose restore fails too (lines 125-129), is logged, and an empty database is opened
  (`database/tenant_store_manager.go:597` and `:640`); the next start takes the backup for a leftover and removes it.
  (`NothingLost` without `Tolerated`; for the control database it is the run `compaction_control`)
- The directory of the default tenant is created by `MkdirAll` (`database/split_default_tenant.go:299`) and never synced in its
  parent: a power failure during or after the split may take it with the only copy of the rows. (`RowsSurvive` without `dirLosses`)
- A code presented a second time while another transaction holds the grant's row is answered `invalid_grant`, nothing is
  revoked, and if the other transaction fails, the tokens of the code's first use live on
  (`oauth/provider.go:268`, `:284`). (`RefusalIsFinal` without the exception for the code)
- A seed of the cluster that is restarted after the others withdrew it has nobody to join (`cluster/cluster.go:94`): it leads
  itself, and the lowest of the others leads the rest, for as long as memberlist does not bring them together.
  (`LeadersSettle` said of all members)

Noticed while modelling, without a run of their own:

- The "Maximum outbound webhook delivery attempts" bounds the attempts that were recorded, not the
  requests made: interrupted attempts are not counted. `RequestsAccountedFor` says by how much.
- "delivery worker stopped before recording an outcome" (`database/store_webhook_delivery.go:746`) is written for every row whose
  claim is old, even when its handler is still at work.
- "webhook emission was deferred" (`server/shared/webhooks.go:18`): the emission is given up, nothing retries it.
- In the server, the split's own restoration of an interrupted swap is never reached, because the control database
  was opened before it (`database/migrate.go:63`).
- A recipient who unsubscribes is still mailed what was queued before (`server/user/report_definitions_handlers.go:513`).
- A report run whose last attempt was interrupted stays "running" (`database/store_report_delivery.go:256`).
- A follower that is elected later has none of the leader's services (`cmd/hitkeep.go`), and `IsLeader` and
  `GetLeaderAddr` lock one after the other, so that a node may forward a request to itself once.
- `NewManager` writes `m.peers[self]` without the lock (`cluster/cluster.go:100`) while memberlist's callbacks may run.
- A stream that was sent no event in its minute has no ID to reconnect with, so changes between two such streams are
  not told (`realtime/broker.go:119`); the dashboard refreshes by itself only while no stream is open.
- A resync made by a full channel is not repeated when its stream ends before it is written: the replay after the last
  ID begins behind the event that was dropped (`realtime/broker.go:206-232`).
- After a restart the IDs begin at 1 again, and an old last ID may lie within the new history
  (`realtime/broker.go:122`): the events up to it are taken as seen.
- A closed broker answers 503, after which an EventSource does not try again; the dashboard then refreshes every 30
  seconds.
- A kill in `restoreUnverifiedMigrationWAL` between the rename and the marker (`database/recovery.go:496-505`) leaves every
  later start refused, with the option on or off: "replay-failing WAL is missing before the recovery checkpoint".
- "so the next startup can safely resolve the WAL" (`database/migrate.go:279-280`): the file's checksum is the guard's only until the
  first migration is checkpointed. If a later one's log does not replay, every start is refused
  (`database/recovery.go:326-329`), whatever `HITKEEP_DB_AUTO_RECOVER_WAL` says.
- A bypass that a checksum had proven keeps no bundle (`database/recovery.go:332`). If the proof no longer holds when it is
  resumed, the option lets it remove the log all the same; by `WritesKept` such a log holds no write.
