# Verification of TPT Online Video

TLA+ models of the parts of TPT Online Video where processes, requests and
failures interleave, the TLC runs that check them on small instances, and
TLAPS proofs of what matters most for instances of every size. Source paths
below are relative to the repository; `PROJECT.json` maps every definition to
the lines it models.

## 1. The system

| part | state | operations | who it talks to |
|---|---|---|---|
| Upload sessions (`handlers/upload.go`, `expiration.go`) | `upload_sessions` row, chunk and raw objects | CreateSession, UploadChunk, CompleteUpload, CancelUpload, expireSessions | database, object store, scanner; CompleteUpload enqueues |
| Transcode queue (`packages/media/queue.go`, `errors.go`) | Redis stream, consumer group with pending list, dead-letter stream | Enqueue, ClaimPending, Ack, NackWithAttempt, MoveToDeadLetter | called by the API (Enqueue) and the workers |
| Transcoding worker (`services/worker`) | `transcode_jobs`, `videos`, `video_renditions`, artifacts, search documents | processNext, processJob and its dozen calls | queue, database, object store, ffmpeg, search |
| Worker pool and autoscaling (`Processor.Run`, `packages/media/scaler.go`) | semaphore, desired concurrency, utilization window | Run with its drain, RecordUtilization, evaluate | queue metrics, goroutines |
| Live chat hub (`live/chat_hub.go`) | room registry, room members, Redis subscription, send buffers | AddClient, enqueue, broadcast, dropRoom, redisSubscribe, BroadcastToUser | Redis pub/sub, WebSockets |
| Live chat service (`live/chat_service.go`, `chat_repository.go`, `handlers/chat.go`) | messages, bans, timeouts, lock | SendMessage, DeleteMessage, ban, timeout, lock, Connect | database, hub |
| Live streams and DVR (`live/service.go`, `repository.go`, `dvr.go`) | `live_streams` rows, recorded segments | Create, Delete, DetectStart, DetectEnd, sweep | database, MediaMTX hooks, file system |
| Authentication (`internal/auth`, `handlers/auth.go`) | `users`, `refresh_tokens`, `password_reset_tokens` | Register, Login, RefreshTokens, Logout, RevokeSession, ResetPassword, ChangePassword | database, mail |
| Moderation and administration (`internal/moderation`, `handlers/moderation.go`, `admin.go`) | reports, actions, audit log, roles, the targets | CreateReport, AssignReport, ResolveReport, SubmitAppeal, ExecuteAction, ReverseAction, UpdateUser, ... | database |
| Videos, search, profiles (`handlers/video.go`, `profile.go`, `packages/search`) | `videos`, `search_documents`, channel images | UpdateVideo, DeleteVideo, indexVideo, Search, UpdateProfile, uploadChannelImage | database, search, object store, worker |
| Views, likes, comments (`handlers/video.go`, `comments.go`, migration 000006) | counters, `video_likes`, `comments`, `comment_likes`, dedup keys | GetVideo, LikeVideo, CreateComment, DeleteComment, LikeComment, ListComments, a moderator's hiding and restoring | database, Redis |
| HTTP middleware | rate-limit windows | per request | Redis |
| Web UI, installer, container files | none the server relies on | | |

What is hard about it:

* Few UPDATEs ask whether what the handler has read still holds (the expiration
  sweep, the reports and the reversal of an action do), and no transaction spans
  a read and the write that depends on it. Every handler that reads, decides and
  writes races every other one.
* The queue is at-most-once after a claim: a delivered message is never
  delivered again, so a crash loses work, and a retry is a new message.
* Every call to Redis, Postgres or the store can fail *after* it took effect.
* State that belongs together is written by several statements: a row and its
  search document, an action and its effect and its audit entry, a message and
  its event, a token's revocation and its successor.
* A worker's stderr readers outlive the command they report on; the goroutine
  that counts a view outlives its request.
* The chat hub has two levels of locks and takes them one after the other;
  channels are closed by whoever finds the buffer full.

What makes the parts correct: an upload becomes one video and its file stays;
a job runs in one place at a time, a bounded number of times, and ends complete
or in the dead-letter queue; what the database advertises exists; the pool
serves the queue at every size and stops idle; chat events arrive in order and
once, nothing is left behind by viewers who leave, and one slow viewer does not
hurt the others; a rule in force binds; a stolen or outdated token does not
open a session; an owner has one stream and its recording lives as long as
promised; a report is decided once and the audit log is true; the index says
what the rows say. `PROJECT.json` lists the hazards, each at its line.

Many of these do not hold without exception, because of the races above. In two
places where a doc or a comment claims more than the code does, a run shows it;
others are listed in section 3 without a run. Elsewhere the
property states the exception: a history variable (`raced`, `crowded`,
`straddled`, `reopened`, `doubt`, `crossed`, ...) records that the one race the
code leaves open did happen, and the property holds of everything else. So the
properties say exactly which race must be closed to get the plain statement.

## 2. Modules

| module | models |
|---|---|
| `TranscodeQueue` | Redis as `queue.go` uses it. Variables only; its operators are the queue's methods, with the way a call can end as a parameter |
| `TranscodeWorker` (EXTENDS `TranscodeQueue`) | worker processes, the tail of CompleteUpload that feeds them, and the database, store and search index they write |
| `JobLifecycle` | what the pipeline promises about a job; `TranscodeWorker` implements it |
| `WorkerPool` | `Processor.Run`, its semaphore and drain, and the scaling controller |
| `UploadSession` | one upload session under concurrent requests |
| `ChatHub` | the hub of one API instance for one stream |
| `ChatModeration` | messages, bans, timeouts, lock and a viewer of one stream, above the hub |
| `AuthSessions` | one account, its refresh and reset tokens |
| `LiveStream` | the streams of one owner, the MediaMTX hooks and the DVR cleaner |
| `ContentModeration` | reports, appeals, actions, their reversal, roles |
| `VideoCatalog` | one video, its search document, its owner's channel |
| `Engagement` (EXTENDS `VideoCatalog`) | views, likes and comments of that video while it changes |
| `...Proofs` (each EXTENDS its module and TLAPS) | inductive invariants, lemmas and theorems: section 4. The proofs about `WorkerPool` are in `TranscodeWorkerProofs` |
| `MC...` | values for the constants |

The modules follow one convention. A request, hook call or goroutine is a model
value with a program counter (`pc`, `sending`, `hook`, ...) that names its next
statement; each statement, Redis command or file operation is an action, since
between two of them every other request can run; an operator named after the
handler (`Refresh`, `SendMessage`, `ReverseAction`, ...) collects its steps. A
statement ends `ok`, `err` (not executed) or `lost` (executed, error returned),
as far as the constant `Faults` allows. A request that its first read refuses
changes nothing and does not appear. A row inserted by a request carries the
request's name, so that numbers of rows are bounded by numbers of requests.

**TranscodeWorker.** A call ends `ok`, `err`, `lost`, for a pipeline also
`half`, and for an XADD also `dup` (sent twice by the client library). After a
shutdown signal the context is cancelled and each call ends `err` or `lost`,
whichever the server managed. `claims[j]` is what the rows of a video advertise
(HLS renditions, poster, DASH, subtitles), `objects[j]` what the store holds.
`PosterColumn` says whether the `videos` table has the column that
`updateVideoReady` writes; no migration creates it, and the runs assume it (see
section 3). Not modelled: logging, counters, the heartbeat key, file contents;
ffmpeg is one step that succeeds or fails. A slot may stay idle for as long as it
likes, so the worker's properties hold whatever `WorkerPool` decides.

**JobLifecycle.** Five variables and no queue, message, retry or failure:
accepted jobs, who works on a job, how often it was started, whether it was
published, whether it was given up. In `TranscodeWorker`, `Lifecycle` is the
instance of it under the refinement mapping (the holders of a job are the
goroutines past `Claim`, the start is the committed UPDATE to 'running', the
publication the committed transaction of `updateVideoReady`), and
`ImplementsLifecycle` is its specification as a property.

**WorkerPool.** Goroutines and messages are counted. `Run`'s test of `len(sem)`
and its send are two steps, with the scaler and all goroutines in between; the
scaler's read of the metrics and its decision are two steps as well. Time is
counted in ticks of the scaler. The drain takes slot after slot. A message can
end acknowledged, put back as a new message, or stuck in the pending list.

**UploadSession.** Each member of `Reqs` is one HTTP request. `width`, chosen at
the start from `1 .. MaxInFlight`, is the number of requests this client keeps
open at once: 1 is a client that waits for each answer. The expiration sweep may
run at any time after the session has expired (the code has it, the server does
not start it yet). `missed` is a history variable, the bytes stored by requests
that ended without counting them. The body of a chunk is its length.

**ChatHub.** Rooms and subscriptions are named after the client whose
`AddClient` created them. `AddClient` is split at its lock operations and its
deferred function into its four steps. A broadcast is one step: it holds the
room's read lock, reaches each client through that client's own channel only,
and no property compares the order in which two clients are reached. A send on
a closed channel panics: in `redisSubscribe` this ends the process (`alive`
becomes FALSE), in a handler the Recoverer middleware catches it. `evicted` is
a history variable, the clients whose channel `enqueue` has closed.

**ChatModeration.** `SendMessage` looks up ban, timeout and lock in three
queries, inserts and publishes. The channel is a log, and the viewer follows it
from the place where it joined; that a client in its room gets the events in
order and none twice is what `ChatHub` shows. `Connect` reads the newest
`HistoryLimit` rows, deleted ones included, and joins the room in a later step;
if that read fails it joins without a history, and the browser goes on showing
what it had. `readAt` and `listed` are the lengths of the log and of the table
when the viewer last got a history, `missed` the events since then that it was
not in the room for. `binding[m]` is the set of rules in force ever since the
call for `m` began.

**AuthSessions.** `row` holds refresh tokens (`live`, `revoked`) and reset
tokens (`open`, `used`), `family` the `family_id`. A password is the number of
times it was set, `verified` the one that opened a family. An answer may be lost,
and the client then presents the old token again, which is reuse to the server.
`ChangeRead` models what ChangePassword intends: as written,
`internal/auth/service.go:349` hands a `*string` to `Compare` and compares its
Boolean result with nil, which does not type-check against
`packages/auth/auth.go:63`.

**LiveStream.** An encoder that connects or leaves makes MediaMTX call a hook;
hook calls are served concurrently and may be delayed at every statement. While
an encoder is connected MediaMTX may call the publish hook again (`HookRepeats`;
`runOnPublishRestart: yes` in `infra/docker/mediamtx/mediamtx.yml`). The
cleaner works from a list read at the start of a sweep. `Restart` ends every
open request. `due` is the set of `ended_at` values whose DVR window is over.

**ContentModeration.** The target is one of the five types, chosen at the start;
`Effect` is `applyActionToTarget`. Resolving a report with an action executes it
after the report is resolved, as in the handler.

**VideoCatalog, Engagement.** A title or a display name is a version number.
`UpdateVideo`, the worker's publication, `DeleteVideo` and the moderators'
deletion and restoration write the row; only the first three touch the document.
Searching for text 0 is searching without a text. A view is marked under
`ViewKey`, what `GetVideo` takes for the client's address: the address, if a proxy
has put it into a header, else `RemoteAddr`, which names the connection. A like
is a transaction whose trigger counts what it can see and whose commit comes
later. A comment is visible, hidden, or deleted, and moderators bring it back
from both; `createdAt` is the number of comments there were before it. `Shown` is
`ListComments`: threads by likes and age up to `TopLimit`, of each the oldest
replies up to `ReplyLimit`.

Definitions marked *Seeded bug* are variants of the definition that follows
them; no specification uses them. Each is a mistake one could make in that
code, kept to show that a property would notice it.

## 3. Runs

| run | instance | result |
|---|---|---|
| `WorkerFaults` | 1 job, 3 attempts, 2 processes, all faults but `dup` | `TypeOK`, `JobMutex`, `AttemptsBounded`, `MediaBacked`, `DeadStaysDead`, `RowsAdvance` (`ProgressMonotone`, `PublishedOnce`), `ImplementsLifecycle` hold |
| `WorkerLive` | 1 job, 3 attempts, 1 process with 2 goroutines, fair; Redis reliable, no crash | `NoJobForgotten`, `Settles` hold |
| `WorkerCrash` | a crash, fair | `PendingIsResolved` fails |
| `Pool` | 1 to 3 goroutines, 2 messages, Redis may fail, fair | `PoolInv` (`PoolTypeOK`, `SendNeverBlocks`, `DrainedMeansIdle`), `ShutdownEnds`, `QueueIsServed`, `DeepQueueScalesUp` hold |
| `UploadRaces` | 3 requests, up to 3 at once, all faults, sweep | `SessionInv` (`TypeOK`, `ReceivedIsStored`) holds; `PatientUpload` (`OneVideoIfPatient`, `VideoKeepsRaw`) and `EndedIsFinal` hold for a client that waits for each answer |
| `ChatRooms` | 2 clients of a user, buffer 1, 2 events, 1 private frame, fair | `RoomsInv` (`TypeOK`, `OneSubscription`), `InOrderAtMostOnce`, `NothingLeaks`, `PanicNeedsEviction`, `EvictedLeaves`, `Delivered` hold |
| `ChatEvict` | 1 client, 3 events | `EvictionIsLocal` fails |
| `ChatRules` | 2 messages, 2 moderators' requests, 1 viewer that connects again and again with a history of 1, database and Redis may fail | `AnnouncedInv` (`TypeOK`, `DeletedOnce`, `LockAnnounced`), `RulesBind`, `ViewerAgrees` hold |
| `AuthRaces` | 4 requests, up to 3 at once, statements fail, answers get lost | `AccountInv` (`TypeOK`, `OneRegistration`, `ResetLinkOnce`), `FamilyInv` (`OneLivePerFamily`, `BurnedStaysDead`), `OldPasswordIsOut` hold |
| `LiveHooks` | 2 streams, 3 hook calls, 1 failure or restart, fair | `StreamInv` (`TypeOK`, `OneActivePerOwner`, `KeyedIsFound`), `OffAirIsNotLive`, `EndedIsKept` (`EndedIsFinal`, `RemovedWhenOver`), `EndedIsCleaned` hold |
| `Moderation` | 3 requests, one target of each type, statements fail | `ActionInv` (`TypeOK`, `OneDecision`, `AuditIsTrue`, `RestoredOnce`, `OneRole`), `DecisionIsFinal`, `DeletionHasCause` hold |
| `Catalog` | 4 requests, 2 viewers, 2 connections from one address, one of them through a proxy, 1 expiry; database, index, store and Redis fail | `CatalogInv` (`TypeOK`, `SearchAgrees`, `FoundIsServed`, `AvatarIsStored`), `IndexAgrees` (`DocumentIsFresh`, `NoGhostDocument`), `CountsAreTrue` (`ViewsDeduplicated`, `LikeCountIsTrue`), `RepliesAreAllowed`, `ShownStays` hold; lists of 1 thread and 1 reply |

The two runs that fail each show a place where the code does not do what a
comment says; `PROJECT.json` quotes the line under `findings`.

Met while modelling, without a run of its own. The models do what the code does
in each case.

*Uploads and transcoding.*
* `updateVideoReady` writes `videos.poster_object_key` (`processor.go:468`), a
  column no migration creates (`migrations/000001_init.up.sql:94`): on the
  tables as migrated no video becomes ready. With `PosterColumn = FALSE`
  `TranscodeWorker` behaves so; the runs look at what happens once it is there.
* Two overlapping CompleteUpload requests create two videos (`upload.go:293`).
* The chunks of an upload are never assembled (`upload.go:298` against
  `docs/diagrams/vod-pipeline.md:24`).
* A job whose Enqueue failed is called retryable (`upload.go:349`); nothing
  retries it.
* Input that ffmpeg cannot decode is retried, because the error classified is
  the exit status and not ffmpeg's message (`processor.go:248`).
* A session the scanner failed can still be completed (`upload.go:293`); the
  chunks of a cancelled session stay in the store (`upload.go:403`).
* Goroutines that wait in ClaimPending count as busy (`scaler.go:97`), so an idle
  worker scales up to MaxWorkers and hardly ever down; a message stuck in the
  pending list keeps the queue depth above zero for good; with a scaler
  `WORKER_CONCURRENCY` is not the starting concurrency (`processor.go:62`).

*Chat.*
* A client can end up in a room that is not registered and has no subscription
  (`chat_hub.go:423` against `docs/live-chat.md:19`); a subscription that breaks
  is not renewed (`chat_hub.go:398`).
* A deletion whose reply was lost, or whose publication failed, is never
  announced: the second attempt finds no row.
* A failed read of the history is passed over (`handlers/chat.go:61`): the client
  joins and never learns of what it lacks. The history has 50 rows, and deleted
  messages take up places in it.
* Migrations 000001 and 000010 both create `live_chat_messages`.

*Accounts.*
* Reuse of a token revokes its family only; `docs/api.md:75` says "all sessions
  for that user". A suspended user keeps refreshing: RefreshTokens does not look
  at the status, while `docs/guides/admin.md:41` says "existing sessions are
  invalidated".

*Live streams.*
* A row whose URLs were not set locks its owner out until it is deleted; a crash
  between 'ending' and 'ended' leaves a stream 'ending' (`live/service.go:217`);
  a failed removal of segments still stamps `dvr_cleaned_at` (against
  `docs/live-dvr.md:78`); Delete leaves the segments; overlapping hook calls can
  bring an ended stream back. A repeated publish hook finds the stream live and
  changes nothing, unless it overlaps another one.

*Moderation.*
* Reversing `hide_content` does not restore the content, since the restoration
  asks for `deleted_at IS NOT NULL` (`moderation/service.go:124` against
  `docs/moderation.md:162`); granting an appeal changes nothing but the report
  (against `docs/guides/moderator.md:105`); reversing one of two deletions
  restores the target; `lock_live_chat` and `terminate_live_stream` have no
  effect; an action that fails after its report was resolved is only logged
  (`handlers/moderation.go:259`); two administrators can demote each other
  (`admin.go:161`); the owner can publish a hidden video again.

*Catalog.*
* Search joins its clauses with AND and the first one is "the text is empty OR it
  matches", without parentheses (`packages/search/postgres.go:58`): without a text,
  which is what the search page sends when its box is empty, visibility, status
  and deletion are not looked at, and private videos are returned (against
  `docs/api.md:474`, "Returns public videos matching the query"). `SearchHits(0)`
  does so; `FoundIsServed` states the exception.
* A view is counted once per connection, not per address, unless a proxy passes
  the address on (`video.go:205` against "1 view per IP per video per hour" one
  line above); the API's own port, which `docker-compose.yml:144` publishes, has
  no proxy. `ViewsDeduplicated` is therefore about keys.
* UpdateProfile does not refresh the documents of the owner's videos; deletion by
  an administrator or a moderator leaves the document, and a restoration does not
  bring one back; two likes that overlap can lose a count.
* Replies to replies are accepted and never listed. ListComments ignores the
  paging of `docs/api.md:417` (`?page=1&per_page=20`): the 51st thread and the
  11th reply to a comment are accepted and never shown. A comment whose status an
  administrator sets to 'deleted' keeps `deleted_at` empty and is listed with its
  text, as if nothing had happened (the model takes it for hidden: what a
  reply needs and what takes a place in the list is the same).
* `comment_reports` is written with ON CONFLICT on columns without a unique
  constraint.

*Deadlock* is not checked: every system here may come to rest (no more uploads,
requests or viewers).

*Bounds.* The worker runs need none beyond the constants: `MaxAttempts` bounds
retries, and with them the stream and every counter. Three attempts cover the
first, a middle and the last attempt; two goroutines in two processes cover
every pair the safety properties speak of. In the modules of requests every
request is sent once; three are enough for two requests to race while a third
changes the state under them. `AuthRaces` has a fourth, since a family needs one
request to open it, and so has `Catalog` (two that write row and index and two
that view, like or delete meanwhile; or a thread with two replies, one more than
the list has room for, and a request that hides, deletes or likes one). With
comments only and lists of one thread and two replies TLC also checked the two
properties of comments for six requests. `ChatRules` has two messages and two
requests: with a history of one message the second message keeps the first out,
and a message is sent and deleted while the viewer is away, between history and
joining, or in the room.
In `ChatHub`, `MaxEvents` and `MaxPrivate` bound the
frames; with a buffer of one frame, two frames evict and the third meets the
closed channel. Two clients are enough for the registry: one leaves the room the
other has looked up, and either may create the next one. In `LiveStream` three
hook calls are a start, an end and one that races either; `MaxFaults` bounds
failures, which makes the liveness property a statement about finitely many. In
`WorkerPool` a window of two samples, cooldowns of two ticks and a depth of one
let every branch of `evaluate` be taken with two messages. Requests, messages,
viewers and processes are interchangeable, so the runs without a temporal
formula that needs fairness use symmetry; the liveness runs do not.

*Fairness.* `WorkerLive`: a goroutine whose next call can return does return
(calls to services have a context; ffmpeg,
which is started with `exec.Command` so that nothing ends it, is assumed to end by
itself), the API finishes a request, a started
write ends, and the supervisor restarts a stopped worker (`restart:
unless-stopped`). `WorkerCrash` additionally assumes in its property that all
workers are up from some time on. `ChatRooms`: goroutines that can run do run,
and reads and writes end at their deadlines (60 s and 10 s). `LiveHooks`: the
server runs its handlers, the ticker fires, time passes. `Pool`: the three
goroutines run, XREADGROUP ends after at most five seconds, and a job is over at
some time, also after the signal (again, ffmpeg ends by itself); strong fairness of `PoolClaim` says that reading from Redis, tried again
and again, succeeds at some time. Nothing is assumed about viewers, encoders, new
uploads or faults.

## 4. Proofs

Every safety property that a passing run checks is proved by TLAPS, for every
value of the constants that the module's assumption allows: any number of jobs, workers, clients,
messages, requests or hook calls, any limit, and every combination of faults
unless the table says otherwise. The assumptions say which faults exist
and that limits are natural numbers; that requests, hook calls, viewers or
connections are finite sets is assumed only where something counts them
(`UploadSession`, `LiveStream`, `Engagement`). `WorkerPool` assumes
`1 <= MinWorkers <= MaxWorkers` of the deployment: the configuration checks only
that `WORKER_CONCURRENCY` is at least 1 (`services/worker/internal/config/config.go:70`).

Hardly any property is inductive as it stands. Each is proved from a conjunction
of named parts that says what holds *between* two statements of a request; a
part has one lemma with one step per action. The theorems:

| module | theorem | run property |
|---|---|---|
| `TranscodeWorkerProofs` | `TypeCorrect`, `MediaBackedHolds`, `RowsAdvanceHolds` | `TypeOK`, `MediaBacked`, `RowsAdvance`; no condition |
| | `JobMutexHolds`, `AttemptsBoundedHolds`, `DeadStaysDeadHolds`, `LifecycleImplemented` | `JobMutex`, `AttemptsBounded`, `DeadStaysDead`, `ImplementsLifecycle`; if `"dup" \notin Faults` |
| | `StreamBounded` | none: it counts; if also attempts are limited and the jobs are finitely many |
| | `NoJobForgottenHolds` | `NoJobForgotten`; if Redis is reliable, the API's call is not cut off, and no worker crashes or is shut down |
| | `PoolInvHolds`, `DesiredInLimits` (of `WorkerPool`) | `PoolInv`; the second has no run of its own |
| | `SlotsAreReturned`, `ShutdownIsBounded` (of `WorkerPool`) | what `QueueIsServed` and `ShutdownEnds` need of states and steps |
| `UploadSessionProofs` | `SessionInvHolds`, `PatientUploadHolds`, `EndedIsFinalHolds` | `SessionInv`, `PatientUpload`, `EndedIsFinal` |
| `ChatHubProofs` | `RoomsInvHolds`, `NothingLeaksHolds`, `PanicNeedsEvictionHolds`, `InOrderHolds` | `RoomsInv`, `NothingLeaks`, `PanicNeedsEviction`, `InOrderAtMostOnce` |
| | `NoGapsHolds` | none: a gap takes three events, one more than the run has |
| | `EvictionIsBounded` | what `EvictedLeaves` needs of states and steps |
| `ChatModerationProofs` | `AnnouncedInvHolds`, `RulesBindHolds`, `ViewerAgreesHolds` | `AnnouncedInv`, `RulesBind`, `ViewerAgrees` |
| `AuthSessionsProofs` | `AccountInvHolds`, `FamilyInvHolds`, `OldPasswordIsOutHolds` | `AccountInv`, `FamilyInv`, `OldPasswordIsOut` |
| `LiveStreamProofs` | `StreamInvHolds`, `OffAirIsNotLiveHolds`, `EndedIsKeptHolds` | `StreamInv`, `OffAirIsNotLive`, `EndedIsKept` |
| `ContentModerationProofs` | `ActionInvHolds`, `DeletionHasCauseHolds`, `DecisionIsFinalHolds` | `ActionInv`, `DeletionHasCause`, `DecisionIsFinal` |
| `EngagementProofs` | `CatalogInvHolds`, `IndexAgreesHolds`, `CountsAreTrueHolds`, `RepliesAreAllowedHolds`, `ShownStaysHolds` | `CatalogInv`, `IndexAgrees`, `CountsAreTrue`, `RepliesAreAllowed`, `ShownStays` |

**The worker.** `TypeOK` is inductive, because it includes that a goroutine at
work holds a delivered message. Mutual exclusion, the bound and the finality of
the dead-letter queue rest on one picture: at any time a job has at most one
*place* - still to be submitted, an undelivered message, or a goroutine at
work - and a later message of a job supersedes all earlier ones. `QueueInv`
states it in parts: `OneHolder` (no message has two holders), `FreshJobs` (a
job not yet submitted has no message), `Superseded` (of two messages of a job,
the earlier one is delivered, nobody holds it, and it carries the smaller
attempt), `AttemptCount` (the attempt column is at most what the messages
delivered so far account for), `RetryAllowed` (no message carries an attempt
the test refuses, and a goroutine about to retry passed it), `DeadIsLast` (a
dead-lettered job's message is its last and nobody retries it). These need the
condition on `dup`: a command sent twice gives a job two messages, and two
goroutines then run it at once. `MediaBacked` needs `MediaInv`: a goroutine past
the upload has its HLS files in the store, what it remembers as made is there,
and one about to index has published.

*The size of the stream.* `Superseded` says that two messages of a job carry
different attempts, and `AttemptsBounded` that each is below `MaxAttempts`: the
messages inject into jobs and attempts. Nothing removes an entry from the stream
(`Ack` and `MoveToDeadLetter` only XACK), and `ClaimPending` reads an entry once,
so `StreamBounded` bounds the memory of Redis and the number of starts alike.

*Refinement.* `LifecycleImplemented` shows the initial states to map to initial
states and every step of `TranscodeWorker` to a step of `JobLifecycle` or a
stutter (`LifecycleStep`, one case per action). `QueueInv` gives the guards of
`Begin`, `Attempt` and `GiveUp` (nobody else is at work on the job, and it may be
started once more), and `Counted`, that a goroutine past the UPDATE to 'running'
has counted its attempt, the one of `Publish`. The lemmas
`AtWorkSame`, `AtWorkBegin` and `AtWorkEnd` say what a step does to the set of
holders, so that the other goroutines need not be looked at again.

*No job forgotten.* `KeepInv` adds to the property that all processes are up,
that a goroutine about to enqueue a retry has acknowledged the old message, and
that one about to acknowledge a finished job has completed its row. The
condition is what the code needs: every one of the excluded faults loses a job.

*The pool.* The same proof module extends `WorkerPool`, whose specification is
`PoolSpec`. `PoolInv` says neither how the used slots are made up nor where the messages are: `Conserved`
(a message is in one place at most), `Slots` (the slots in use are the
goroutines and those the drain has taken; there is a free one when `Run` is
about to send, since nobody else fills a slot; all are taken when `Run`
returns), `InLimits` and `Measured` (limits of the scaler and of its window).
`SlotsAreReturned` adds `Serving`: before the signal no slot is in the hands of
the drain, so what is in the semaphore is a goroutine's. For `ShutdownIsBounded`
`ShutdownLeft` counts the steps that `Run` and its goroutines have left.

**Uploads.** The types count videos, jobs and messages by the requests past the
statement that creates them (`RowsCounted`). `ReceivedIsStored` sums the sizes of
the chunks stored and not counted yet, by a fold over the set of their requests.
The proof replaces the sum by a cardinality: `Bytes(w, S)` is the set of pairs of
a request of `S` and a byte of its chunk, `Accounted` is the property in terms of
it, and adding or dropping a request adds or drops its bytes (`BytesAdd`,
`OwedMoves`), which is a fact about finite sets and needs no induction. That the
fold counts these bytes (`SumIsBytes`) does: `SetInduction` gives induction over
the subsets of a finite set in terms of sets, from the well-foundedness of the
strict subset ordering, without the library's rules that take an operator. For a client that waits for each
answer `PatientInv` says that one request is in flight (`Alone`), that what it
read still holds (`ReadIsFresh`), that a video belongs to a complete session
and that clean-up has a cause; this is what a lock on the row would give every
client.

**The chat hub.** The invariant is `TypeOK /\ HubInv /\ OrderInv`. `HubInv` adds
to `PanicNeedsEviction` what the hub's two levels of locks do keep: `Membership`
(a client is in its own room, and only between add and remove), `Subscription`
(a subscription that was not cancelled is the registered room's, and the
registry can cancel it), `Guarded` (as long as a room is registered, somebody
has still to call `dropRoom`) and `Fresh` (a client about to be added has an
open and empty channel). `OrderInv` says that what a client has received comes
before what is in its channel, and that before what its room's subscription has
still to broadcast. It rests on `Membership`: a client is fed by one
subscription in its life, even if that one outlives its room.

*No gaps.* `NoGapsHolds` is about what a client misses: nothing between two events
that it has received. `Whole` says that its events have no gap on the wire, none
up to the channel while the pump writes, and none up to the subscription's unread
events while the client is fed; with a live subscription they then end with the
last event published, which is why the next one leaves no gap. It rests on
`enqueue` closing the channel instead of skipping a frame (a client that would
miss one is never fed again), on `InboxWhole` (Redis hands a live subscription
every event) and on `Unfed` (who joins before SUBSCRIBE takes effect has received
nothing yet, so that what comes first may be any event). TLC checked `NoGaps` and
the parts of `GapInv` with three events, with and without breaking subscriptions.

*Eviction.* `LeaveLeft` counts the steps that the two goroutines of a client have
left: the read loop and the deferred function, and the frames in the channel.
`PumpInv` gives that a client with a closed channel always has one of them ready:
the pump drains the channel and exits, its exit closes the connection, and that
ends the read loop, which is the only one to wait for the pump.

**The chat service.** `Bound`: a rule still in `binding` is in force, and none
that was looked up so far is in it; after the third lookup nothing is left, so
`RulesBind` follows at the INSERT. `Removed` and `Sent`: a deleted message has
one request about to announce it, or one event, or the event is missing; the
same of a stored message. `Locks`: unless in doubt, at most one lock call is
between its UPDATE and its event, and the row says what that event or else the
last one in the log says. `Shown`: an event that the viewer has not seen is in
`missed`, or is still to come. A message it lacks is one of those, or `listed`
says that the limit kept it out of the history; the deletion of one it shows is
one of those, unless the message came after it; a second copy came after the
history. `Kept` ties the rows to their order (`Inserted`: only the INSERT adds
one, after the others), and `HistoryShows` makes the step from the rows of a
history to `Shown`. A failed read changes nothing the viewer knows of, which is
why `Shown` speaks of the history it got last and not of the last connection.

**Accounts.** `Places` says where rows come from (a request inserts its row with
its last statement). `Rotations`: a family no two requests rotated at once has
one live token, one request between lookup and insert, and while that one runs
no live token but the one it is about to revoke. `Burned` and `Passwords` say of
every token about to be inserted what the property says of the live ones.
`Links` and `Once` do so for reset links and registrations.

**Live streams.** No statement looks at the status it overwrites; what holds of a
stream rests on its hook calls not overlapping. `Turns`: then one is open at a
time, and the status is what that call read or wrote. `Airtime`: a live stream
has an encoder or a hook call that will end it. `Owners`: no active stream
appears between the check of Create and its INSERT. `Keys`, `Windows`, `Listed`
and `Counted` tie keys, DVR windows, the cleaner's list and `ended_at` to the
rows; `Listed` gives the action property that the cleaner removes nothing early.

**Moderation.** `Errands`: what a request carries is what is in the row it
inserted or read. `Decision`: a decided report has one decider. `Effects` and
`Reversals`: an audit entry follows its effect, and between the UPDATE of
`reversed_at` and the restoration one request owns the reversal. `Cause` keeps
track of the deleting actions nobody has reversed since they took effect, and
`Granting` of role changes that did not overlap.

**Catalog.** `Documents`, `Fresh` and `Gone`: the document agrees with the row, or
a request is about to write the index, or the history tells why not.
`SettledSearch` derives from them what a search finds once nobody is indexing;
`ListsAreStrict` needs the types only, as the lists filter by the row. `Views`
counts the goroutines about to count a view together with `view_count`, against
the keys of the connections that were served (`Carried` says that a goroutine
holds such a key). `Likes`: a transaction that is alone has counted the likes
there will be when it commits. `Replies` and `Pictured` say what the checks of a
request have established. `Ages`: a comment is stamped with fewer than the
comments there are, so that a new one comes last, and only what exists is liked.
For `ShownStays`, `ListNext` says what a step can do to the listed comments
(`ListStep`: take one off by deleting it, add one that was deleted, or add the
youngest, which has no likes), and `ListKeeps` that unless something in
`Displaced` happens nothing gets ahead of a shown comment or its thread; by
`StillShown`, a fact about cardinalities, it then stays within the limits.

The inductive invariants were first checked by TLC on the instances of the runs
(`QueueInv` with two attempts).

Only model-checked, because they are out of the prover's reach, are the liveness
properties, which need fairness: `Settles`, `EvictedLeaves`, `Delivered`,
`EndedIsCleaned`, `ShutdownEnds`, `QueueIsServed`, `DeepQueueScalesUp`. Of
`ShutdownEnds` and `EvictedLeaves` everything but the temporal step is proved: a
bounded measure that, after the signal or the closing of the channel, no step
increases and every step of the processes concerned decreases, and that until the
end one of them has a step to take
(`ShutdownGoesOn` and `CanLeave` spell out the guards, since ENABLED cannot be
used in a proof). Fairness then gives the property; that conclusion is TLC's, on
the instances of the runs. For `QueueIsServed` it is only proved that a slot is
never lost. The two properties of the runs that fail have no theorem, of course.

## 5. Not modelled, and the plan

What would extend the project:

1. The measures of `Settles` and `EndedIsCleaned`, as `ShutdownIsBounded` and
   `EvictionIsBounded` have them; with `StreamBounded` the first lacks a measure
   of the steps that one goroutine has left for its message.
2. `NoGaps` in a run of its own, with three events and without liveness.
3. Lemmas shared by several proof modules (a set with one member, sets of
   requests that grow, `SetInduction`) in one place.

Left out of the modelled parts: what changes only a text (`UpdateComment`, a
stream's title, admin notes), `ReportComment`, lists and statistics, Autocomplete and Meilisearch, OAuth
(answers "not implemented" before it touches any state), the rate limiter (one
atomic Redis transaction per request; its window is arithmetic on time stamps)
and the limit on WebSocket connections.

Left out for good: the web UI, installers and container files (no state the
server relies on), WebSocket framing and ffmpeg command lines (formatting),
ranking in Postgres and Meilisearch, the contents of configuration.
