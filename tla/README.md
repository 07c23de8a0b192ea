# ruskery in TLA+

ruskery is a private OCI container registry: one Rust process that serves the
distribution API, a REST API and a dashboard, keeps its metadata in SQLite (WAL)
and its blobs in one S3 bucket (Tigris), and caches manifests in memory. This
directory holds TLA+ models of its parts, the TLC runs that check them on small
instances, and theorems about them that TLAPS checks for every instance.

    tlc -workers 2 -config cache_requests.cfg MCManifestCache   # one run
    tlapm ManifestCacheProofs.tla                               # one proof

`PROJECT.json` lists the runs, the properties, the mutants that show each
property can fail, and, for every definition that models code, the lines it
models. Paths below are relative to `src/`.

## 1. The system

### Components

| Component | State | Operations | Shared with |
| --- | --- | --- | --- |
| Manifest cache (`src/cache.rs`) | two LRU maps and a generation counter under one mutex, never across an await | get, put_if_current, invalidate, put_tag, invalidate_repo_tags | every manifest request |
| Manifest requests (`src/registry/manifests.rs`, `src/db/content.rs`) | tables manifests, manifest_blobs, tags | get/head, put, delete, referrers | cache, blobs, proxy, import |
| Upload sessions (`src/registry/uploads.rs`) | map of sessions, a semaphore of slots, one mutex per session; an S3 multipart upload each | start, mount, patch, finish, cancel, status, reap | blobs, bucket |
| Blobs and collector (`src/registry/blobs.rs`, `src/gc.rs`) | table blobs, objects in the bucket | head, get (redirect), delete, sweep | uploads, proxy, import, manifests |
| Pull-through proxy (`src/proxy.rs`, `src/providers.rs`) | none of its own; the conversation with an upstream | cache_manifest, store_manifest, cache_blob; probe, listings, token challenge, redirects | cache, blobs, import |
| Bulk import (`src/import.rs`, `src/db/imports.rs`) | table imports; a lock per digest and permits per job, a visited set per tag | spawn, run, advance, finish, fail_interrupted | proxy |
| Usage analytics (`src/analytics.rs`, `src/db/analytics.rs`) | counters in memory, daily tables, the day of the last snapshot | record, flush, requeue, snapshot | all requests |
| Routing and authorization (`src/registry/mod.rs`, `src/registry/auth.rs`, `src/auth/rbac.rs`, `src/auth/token.rs`) | short-lived signed tokens | dispatch, token endpoint, grants | orgs |
| Organizations (`src/db/orgs.rs`, `src/db/users.rs`) | users, organizations, members, teams, grants, repositories, access tokens, pull counters | changes of one or several statements | everything |
| Administration API (`src/api/mod.rs`) | none of its own | first-run setup, settings, members, tokens, domains | settings, state |
| Domains, public URL, TLS (`src/state.rs`, `src/db/domains.rs`, `src/tls.rs`) | domains table; public_url; a notification; listeners | add/delete/primary, refresh, reload | tokens |
| Settings and sign-in (`src/db/settings.rs`, `src/auth/oauth.rs`) | rows of the settings table; the storage client in use | update storage, update OAuth, sign in | uploads, users |
| Rate limiting (`src/rate_limit.rs`) | token buckets of a library | check | auth routes |
| Tag listing (`src/registry/tags.rs`) | none | pagination | manifests |
| Storage client (`src/storage/mod.rs`) | none | put, copy, delete, multipart, presign | uploads, blobs |
| Web dashboard (`web/`, `src/web.rs`) | none shared | a client of the API | |

### Where it is hard

* **Concurrency.** Every request is a tokio task, and every `await` (a SQLite
  statement, a call to the bucket, a chunk of a body, a lock) lets others run.
  Only the cache mutex, the session mutex and SQLite transactions make several
  steps one.
* **Two stores.** A blob is an object in the bucket and a row in SQLite. Nothing
  spans the two but the order of the calls.
* **Dropped requests.** When a client hangs up, axum drops the handler's future
  at whatever await it is in. What should have followed does not.
* **Background work.** The reaper, the collector, the analytics flush and import
  jobs run beside the requests on the same state.
* **Restarts.** Sessions, the cache and unflushed counters are in memory only.

### What makes each component correct

* Cache: what it serves is what SQLite holds, or what was current while the
  request ran; no write is ever masked by an older read.
* Blobs: a referenced blob keeps its row and its object; a row is collected at an
  age, unless it is made anew under the sweep; garbage goes eventually; the quota is exceeded by a known amount at
  most.
* Uploads: what is committed under a digest has all its bytes; a session's slot
  and its multipart upload are given back whatever ends it; size limits hold.
* Imports: a job ends in a final state, each blob is fetched once, nothing is
  stored before what it depends on, counters add up, a row says what its job does.
* Analytics: no event is counted twice, and none is lost but by a restart.
* Access: a grant gives what the tables allowed while it was made; a member who is
  removed gets nothing, a repository takes all that goes with it along; there is one
  first administrator; a push is refused where the organization is a mirror.
* Domains: the public URL follows the table, and the listeners do in the end.
* Upstream: credentials stay with those they are for (a provider's token goes where
  its links point), listings are whole, and no conversation goes on for ever.
* Settings: what is stored and what is in use agree; an account is made only for
  an allowed domain.

## 2. The modules

| Module | Models |
| --- | --- |
| `ManifestCache` | the cache and the requests that use it |
| `BlobStore` | bucket objects, blob rows, manifests, and all that adds or removes one |
| `UploadSessions` | upload sessions, their lock and slots, the multipart upload, the reaper |
| `Usage` | usage counters, their flush into the daily tables, the daily snapshot |
| `Imports` | bulk imports: the job, its tasks, its blob copies, its row |
| `ImportJob` | what the rows of imports promise to a client that polls them (abstract) |
| `Access` | members, teams, grants, repositories, tokens, the requests that use them, the setup |
| `Domains` | domains, the public URL, and the task that reloads the listeners |
| `Upstream` | a conversation with an upstream registry or a provider's API |
| `Settings` | storage and sign-in settings, the storage client in use, accounts made at sign-in |
| `MC...` | the same with symmetry and data for TLC |
| `...Proofs` | theorems about the module of that name (`UpstreamUsageProofs`: about `Upstream` and `Usage`) |

The modules share no variables. `ManifestCache` and `BlobStore` have the database
and bucket steps of a download (`proxy.rs`) that `Imports` takes as one step
(`Download`, `StoreManifest`); `Upstream` has the requests that one of `Imports`'
`Enumerate`, `ListTags` or `FetchReference` stands for; `Access` decides whether the
requests of `ManifestCache`, `BlobStore` and `UploadSessions` begin.

A request is a record: the stage it has reached (`at`) and its local variables.
A stage ends where the code awaits, so one action is the code between two awaits,
under whatever lock it holds there. Guards come from the code's conditions,
`Finish` is a return. Clients choose any request at any time.

### ManifestCache

`mdb` and `tdb` are the rows of manifests and tags; `mcache`, `tcache` the LRU
maps; `gen` the generation counter. A manifest is told by its digest, and what a
push may change of a stored one, its media type, is the value. A pull is
`StartGet` (which snapshots `gen`), `GetTag`, `TagDigest`, `PutTagIfCurrent`,
`GetManifest`, `GetManifestByDigest`, `PutManifestIfCurrent`, `Respond`; on a miss
in a proxied organization it goes through `FetchUpstream` and `RetryGet`. A push
is `StartPush`, `PutManifest` (the transaction), `UpsertTag`,
`InvalidateManifest`, `PutTag`; a mirrored or imported manifest (`StartStore`)
does `PutTag` before the invalidation, as `store_manifest` does. A delete looks
its tag up, runs `DeleteManifest` (the transaction, tags included),
`InvalidateManifest` and `InvalidateRepoTags`. `DieBeforeInvalidate` ends a
request after its commit. `LruPut` may evict any other entry: it keeps recency
out of the state and only makes more behaviours possible. `fresh`, `skipped` and
`raced` are history: what a pull may rightly serve, the keys whose writer died
before its invalidation, and the repositories whose writers overlapped, died or
stored a mirrored manifest.

### BlobStore

`objects` are the keys in the bucket, `rows` the blobs table with `created_at`,
`manifests` the manifests with their `manifest_blobs`. Requests: the last part of
an upload (exists, quota, copy, record), the pull-through and import download
(fetch, store, recheck, evict, record), a manifest push (one check per blob, then
the transaction), a mirrored manifest (`StoreManifest`, no check), a manifest
delete, a blob delete (referenced, object, row). A sweep lists, then per blob
deletes the object and the row; a failing object delete skips the blob
(`SweepObject`), a failing row delete ends the sweep (`SweepAbort`). `now` is the
clock the grace period is measured by. `Abandon` ends a request anywhere. `own`,
`since` and `clean` are history, for the images a client pushed entirely within one
grace period; so is `lost`, the rows that a sweep has listed and that another sweep or
a direct delete has removed since.

### UploadSessions

`registry` is the map, `session` the fields of each session, `lock` its mutex,
`upload` and `temp` the bucket's side, `objects` and `recorded` the result. A
session's client sends one stream of units; a prefix of the stream stands for its
digest, and buffers, parts and objects are sets of units, so a lost part shows as
a hole. A permit lives in the session, and with it in the map and in every
request that holds the `Arc`: `SlotFree` counts those. `Get` clones the `Arc`,
`PatchEnter`, `FinishEnter` and `CancelEnter` take the lock; a start is `Claim`,
`Create` (the multipart upload is open in the bucket) and, when the answer has come
back, `Insert`; `Write` hashes a unit
and drains a full part, `UploadPart` uploads it; `Verify` to `Record` are
`finish`. `Fail` ends a request at an await of the instance's `FaultPoints`,
`Restart` the process. `lost` (sessions that dropped a part they had hashed) and
`unaborted` (sessions whose upload a fault left to nobody: `Charge` says which) are
history.

### Usage

A key is a map, a day and a name; `counters` are the two maps, `rows` the batch a
flush has drained, `daily` the two tables. `RecordRepo` and `RecordUser` are the
two bumps of `record`, with the day read before the first. The maps are sharded
and locked shard by shard, so `Drain` and `Requeue` take one key at a time and
requests run in between: a key that is bumped after its turn waits for the next
flush. `FlushBatch` is the transaction, `FlushFails` its failure, `SnapshotMark`
the check and mark under the mutex, `SnapshotStorage` the upsert. `Midnight`
changes the day at any time, `Restart` forgets what is in memory. `recorded` (what
has been counted and not lost by a restart) and `missed` (days whose snapshot
failed) are history.

### Imports

`row` is the imports table, `job` where the task of a job is, `task` the copy task
of each repository with the blob copies of the image it is at. A reference is
copied by recursion in the code: `stack` holds the indexes above the one that is
fetched, with the children still to do, and `Resume` is a return from a call.
`CheckBlob`, `LockBlob`, `RecheckBlob`, `Acquire` and `Download` are
`copy_blob_once`, for each layer of an image at once (`join_all`); a lock is held
from the second look to the end, so `LockFree` reads it off the stages. A copy waits
for the lock first and for a permit then, while others hold permits: this is the
order that could deadlock. `Update` is `advance`, whose failure is ignored;
`FinishJob` the last update, after which nothing follows. `DropHandler` is a client
that hangs up between the row and the spawn, `Restart` the end of the process and
`fail_interrupted`. `fetched`, `gone`, `unsaved` and `orphan` are history.

`ImportJob` is the abstract specification: a row is created, planned, advanced one
by one and ended, and `PollSpec` says that `Imports` implements it.

### Access

One organization. `role`, `inTeam`, `grant` are the tables of who may do what,
`nameOf` the repositories by id, `pats` the access tokens, `tokens` the bearer tokens
that are still valid. Each handler checks its caller once (`AdminOf`, `MemberOf`) and
goes on with what it has found; a handler refused there is left out. A token request
is `StartToken`, `TokenRepo` (organization, repository, scope), `TokenRole`,
`TokenTeam` and `Issue`; a registry request `StartDispatch`, for a push
`CheckMirror`, then `FindRepo` and what it found, with the creation of the
repository on demand (`InsertRepo`, `Refind`) and the spawned counter of pulls
(`SpawnBump`, `BumpImagePull`). The deletion of a repository is `DropPulls` and
`DropRow`, which cascades to manifests, grants and scoped tokens as the schema does.
`seen` is history: the moments of a token request, each with the role of its user, the
highest grant of its teams and the id of the repository as they were then. `founders`,
`made`, `unfounded`, `strayed`, `counted` and `late` are history too. The server starts before its
first run (`NeverSetUp`) or with an organization that has some of each (`InUse`).

### Domains

`domains` and `primary` are the table, `url` the public URL. A handler commits
(`Add`, `Delete`, `SetPrimary`), reads back (`ReadPrimary`), stores (`StoreUrl`) and
wakes the task (`Notify`, which `set_primary` does not). The task reads the URL and
the domains, serves plain HTTP or starts ACME and a redirector on :80, and waits;
`permit` is the one permit of `Notify`, so a change that comes while the task is
busy is not lost. `Abort` ends the redirector without waiting, so :80 stays `held`
until `Release`. Where a read fails the code goes on: with no domain (`ReadDomains`),
with the contact of the configuration (`StartAcme`), and at the start with no URL
(`StartUrls`). `doubt` and `missed` are history: the last refreshes overlapped or
failed; since its round began the task was not told of a change, or could not read it.

### Upstream

One conversation: `op` is what is asked for, `get` the request under way with its
credentials (`auth`) and redirect count, `page` and `pages` the position in a
listing. `Challenged` is a 401 whose realm the upstream names, `TokenGiven` the
answer of that realm, `Redirect` one hop of `send_get`, `TakePage` a page and the
link it carries; a body without the expected list is an empty page to the code, and to
`TakePage`. A provider's API gets its token, which is the user's password, with each
page (`AskApi`). The upstream chooses every status, realm, redirect and link.
A host is told apart only by what the code asks of it: the configured one, a
loopback one, a trusted one, a refused one, any other. The specification is called
`Conversation`.

### Settings

The settings are rows, and both handlers and readers go through them one at a time
(`SaveSetting`, `ReadBack`; `SaveOAuth` for the switch, the client id and the domain;
`LoadEnabled`, `LoadClient` and `LoadDomain`, which read them). `client` is
what the storage client in use was built from. A sign-in loads the settings,
exchanges its code for an email, and finds or makes the account (`FindUser`,
`UniqueName`, `CreateUser`), whose email and name are unique. `apart` is history:
the last updates overlapped or one was cut off; a sign-in carries the settings of each
moment while it ran (`moments`).

## 3. The runs

| Run | Expect | Checks |
| --- | --- | --- |
| `cache_requests` | pass | `TypeOK`, `ManifestCoherent`, `FreshPull`, `TagCoherentSerially`, `NoDanglingTag` |
| `blobs_images` | pass | `TypeOK`, `CleanImageIntact`, `CollectedEventually` |
| `blobs_quota` | pass | `QuotaOvershootBounded`, `YoungOnlyIfReplaced` |
| `blobs_push_race` | violation | `ReferencedKept` |
| `uploads_sessions` | pass | `TypeOK`, `WholeUnlessTorn`, `OversizeNeverRecorded`, `NoOrphanUpload` |
| `uploads_end` | pass | `SessionsEndOrStick` |
| `usage_counts` | pass | `TypeOK`, `Conserved`, `SnapshotUnlessMissed`, `FlushedAgain` |
| `imports` | pass | `TypeOK`, `FetchedOnce`, `StoredWithDependencies`, `ProgressExact`, `RunningHasTask`, `PollSpec`, `JobsEnd` |
| `access` | pass | `GrantsJustified`, `PatConfined`, `SetupOnce`, `PullsOfThisRepo` |
| `domains_tls` | pass | `TypeOK`, `UrlFollows`, `RedirectsHome`, `TlsFollows` |
| `upstream` | pass | `CredentialsHome`, `ListingWhole`, `ConversationEnds` |
| `settings` | pass | `ClientFollows`, `AccountsAllowed` |

### Bounds

* `cache_requests`: two requests, one repository, two digests, two media types,
  one tag, three writes, caches of one entry, faults. Two digests competing for
  one entry make every put evict; three writes give a push, its overwrite and a
  delete around one pull. A third request adds only a second reader or a third
  writer; the theorems cover any number.
* `blobs_images`: two clients, one image of two blobs, grace 1 on a clock of 0 to
  2, one sweep, one fault. A blob can be uploaded, age past the grace period and be
  uploaded again; the image's two checks can fall around a sweep.
* `blobs_quota`: three blobs for a quota of one and two requests, so that the
  overshoot is reached exactly; grace 0 and one tick let a sweep free quota in
  between, and two sweeps and a direct delete remove rows under each other, which an
  upload makes anew. Its `VIEW` leaves out the objects in the bucket, which no step
  reads, and what a sweep has lost of the blobs it is through with, which neither
  property reads. The theorems cover any number.
* `uploads_sessions`: three sessions, two slots, two requests, four calls, parts of
  two units, a limit of two units, streams of three, one fault at any await. Three
  units cross a part boundary and the limit; the third session needs a slot
  reclaimed; four calls are a start, a failing patch, and two that race to resume. The
  fault may fall between `Create` and `Insert`.
* `uploads_end`: two sessions on one slot, without symmetry because it checks
  liveness; two units, three calls.
* `usage_counts`: two requests, one repository and one user on two days, two
  events, two faults. An event counts on both sides of a drain, of a failing flush
  and of midnight, and a second flush can fail or a restart fall into it.
* `imports`: one job, two repositories, two images with shared layers (one has a
  layer twice), an index of both and an index above it that is deeper than the
  limit of one; two permits; one failing call, hang-up or restart at any point. Two
  tasks of up to three copies each contend for two blobs, two locks and two permits,
  and the failure of one copy meets another that waits for it. One job is enough:
  jobs share only the blobs table, on which they do not rely; the theorems are for
  any number.
* `access`: two users, a team, one name with two ids (so that a name is made anew),
  one access token, two concurrent requests, two calls besides those that `Init`
  has already behind it (a member, a grant, a scoped token, a bearer token), one
  failure. Two calls and the state they start from give a read, a change in between
  and the use of what was read; `MaxMore` allows one change more while a token request
  is in progress, so that one right can go and another come between its reads; roles
  and grants up to administrator and push.
* `domains_tls`: two domains, one contact that is set or cleared and none in the
  configuration (so that a contact that could not be read shows), two handlers, two
  changes, one fault. A change can fall into every point of a round, and two changes
  overlap.
* `upstream`: five hosts, one of each kind, in the clear or not; three pages of
  which two are read; two redirects.
* `settings`: two storage rows of two values, three rows of Google sign-in, two
  accounts of two domains, two handlers, three calls, one fault: two updates that overlap and one that makes up for them.
* `blobs_push_race` uses the smallest instance that shows the behaviour.

### Fairness

`BlobStore!FairSpec`: each step of a sweep that can run does. `background` runs
the sweep again every interval, and each call of it returns; faults are finite in
number (`MaxFaults`). Nothing is assumed of clients.

`UploadSessions!FairSpec`: the reaper wakes up again (`reap_loop` sleeps
`REAP_INTERVAL` and never returns), a session that nobody writes to becomes idle
(time passes), and a request that has started goes on: calls to the bucket and
SQLite return, and its client sends, ends the body or hangs up. No client is
assumed to come back. Weak fairness is enough although requests contend for a
session's lock: tokio's mutex serves its waiters in order, and the requests of an
instance are finite in number, so none waits for ever in either.

`Usage!FairSpec`: `flush_loop` ticks for ever and its statements return, and
`record`, which never blocks, gets from its first map to its second. Faults are
finite in number.

`Imports!FairSpec`: a job goes on while any of its tasks can: calls to the upstream,
the bucket and SQLite return. Nothing is said about which task is next, so a
deadlock of locks and permits would show. `StartImport` and faults are not fair.

`Domains!FairSpec`: the TLS task goes on while it can (its five-second sleep ends,
the runtime drops an aborted task), and a handler that has committed goes on or its
client hangs up. Changes and faults are finite in number.

`Upstream!FairConversation`: the upstream answers, or the connection breaks. The client has
no overall timeout, so this is an assumption about the network (and a hazard).

### What the passing runs show

* Cached manifest bytes are always right. A cached tag is right as long as the
  writers of its repository do not overlap, however pulls race them.
* An image whose client uploaded every blob anew and pushed its manifest within
  the grace period is never damaged by the collector or other pushes. Garbage is
  collected although single sweeps fail.
* The quota is exceeded by at most one blob for each request but one.
* What is recorded under a digest has its bytes unless a patch dropped a part; the
  size limit holds, where it is at least a part, unless the rejected upload could not
  be aborted. A multipart upload is left behind by a restart, by an abort that fails, or
  by a request that ends too early (a start between the call that makes the upload and
  its registration, or one that is aborting or reclaiming), and by no interleaving of
  requests that run to their end. Every session ends unless its finish fails.
* A sweep removes the row of a young blob only where another sweep or a direct delete
  has removed the row that it listed, and an upload has made it anew.

* Events are counted exactly once unless a restart comes before their flush, and
  all of them reach the tables, those of a day that has passed included. A snapshot
  that fails is not tried again that day, as the day is marked first (unless the
  server restarts): `SnapshotUnlessMissed` says that this is the only way to miss one.

* An import downloads a blob once, stores nothing before its dependencies (except
  children the upstream answered 404 for), never deadlocks on its locks and permits
  and ends, whatever fails. A row stays at "running" without a task only when its
  start was hung up on or its last update failed, until the next restart.
* A bearer token is no more than its user could do at one moment of the request, where
  at one of the moments the user had all that it had at any other. The repository, the
  role and the grants are three reads: where one right went and another came between
  them, the token may join what held at different moments, though each part held at
  one; the two-change behaviour is reached in the run. An access token keeps its scope
  while its row lives, and a bearer token got with it is for a name that was the
  repository of the scope then; a bearer token issued before its repository was deleted
  carries a name, and so reaches one made anew, until it expires. Racing setups make one
  administrator, and a repository made anew starts at zero pulls but for counts under
  way.
* The public URL follows the table unless two changes overlap, a step fails or the read
  at the start does; a later change that runs alone repairs it.
* The listeners follow the table in the end, with four exceptions that `TlsFollows`
  names: the task was not told of a change or could not read the domains; it could not
  read the contact and used that of the configuration; the redirector aborted before
  still held :80, so the next one gave up and :80 is dark; the same met the plain server
  that follows the deletion of the last domain, which ends the process, with no fault at
  all. A settled redirector sends clients to a domain of its listeners, unless
  the URL it read was left by refreshes that overlapped or failed, or it missed
  something.
* To a registry, the password goes to trusted hosts only and a token to its origin only,
  though redirects, realms and links are the upstream's. The token of a provider's API
  (DigitalOcean, GitHub) is the password itself and goes, as a bearer, to whatever origin
  the next link of a page names, also in the clear: `CredentialsHome` confines it to the
  API until the first page is in. A listing is whole unless it is cut at `MAX_PAGES`, by
  a 404, by a body without the list (which is taken for an empty page) or by a link that
  goes astray, all of which the code returns as success.
* An account is made only where Google sign-in was on, had a client and allowed the
  domain, each at some moment of the sign-in, in this order. The three rows are saved
  and read one after the other, so the settings a sign-in acts on may have held at no
  one moment; where no update is saved meanwhile, they did.
* The storage client follows the saved settings unless two updates overlap or one is
  cut off, and the next one alone repairs it; a restart always does.

### What the violation run shows

`blobs_push_race`: the sweep deletes what it listed without looking again, and so
removes the blobs of a manifest that is pushed in between; `findings` in
PROJECT.json quotes the comment this contradicts.

The same models show some behaviours without a run of their own. Each is named by
the exception of a property that holds, or was found on another instance:

* Two pushes of one tag commit in one order and call `put_tag` in the other: the
  cache keeps the digest that lost until the next write (the exception of
  `TagCoherentSerially`). `store_manifest` caches the tag before it bumps the
  generation, so an older read can overwrite it.
* `record_blob` keeps the first `created_at`, so a blob uploaded again is not
  protected by the grace period (`CleanImageIntact` asks for blobs uploaded anew).
* Of two downloads of one blob over quota, one can delete the object the other has
  recorded; a manifest committed between the reference check of a blob delete and
  its delete loses the blob; two sweeps (`ruskery gc` beside the server), or a sweep and
  a direct delete, can remove the row of a blob that was recorded anew between their
  deletes. `src/config.rs:136` says that blobs younger than the grace period are never
  collected; it is the row that was listed which is not young (`YoungOnlyIfReplaced`).
* A part is drained from the buffer and hashed before it is uploaded, so a failed
  patch leaves a hole that the digest does not show (the exception of
  `WholeUnlessTorn`). A finish that fails after it has claimed the session leaks it
  and its slot (that of `SessionsEndOrStick`). A patch and a finish that wait for a
  session while it is cancelled can commit a blob without its first part; a finish
  that waits while a patch rejects a blob below one part as over size commits it
  (`quota_enforcement` in `tests/e2e.rs` sets such a limit, 1 KiB, which is outside
  the scope of `OversizeNeverRecorded`). A start dropped while it reclaims, or after
  its upload was made and before it is registered, leaves multipart uploads open.
* Two domain changes whose refreshes overlap, or storage updates that do, leave the
  older value in use (`UrlFollows`, `ClientFollows`); a redirector that reads such a URL
  may send clients to a deleted domain until the task is woken (the `loop.sure` of
  `RedirectsHome`); a failed read of the domains turns the next round to plain HTTP
  until the next change (`TlsFollows`); a new listener on :80 can meet the aborted one
  and give up, or end the process.
* A push that has passed the read-only check goes on when the organization becomes a
  mirror, and one whose check fails goes on in a mirror (`CheckMirror`); deletes are
  not checked.

## 4. The proofs

Each theorem is `Spec => [](...)`, proved from an inductive invariant: it holds at
first, every action keeps it, and it implies the property. Where a hypothesis
stands before a theorem, it is named below with the behaviour it excludes.

### ManifestCacheProofs

For any repositories, digests, tags, media types, capacities and requests, with
writers that die: `TypeCorrect` (`TypeOK`), `CacheCoherent` (`ManifestCoherent`),
`PullsAreFresh` (`FreshPull`), `TagsAreCoherent` (`TagCoherentSerially`) and
`NoTagDangles` (`NoDanglingTag`).

`ManifestCoherent` is not inductive. A pull may hold, in its local variables, a
row it read long ago, and what keeps it from filling the cache is the generation.
`IInv` adds: no pull has a generation from the future (`GenBounded`); a pull whose
generation is still current holds what the cache may hold (`FillCoherent`); what a
coherent cache holds is among what each pull in progress may serve
(`FreshCovers`); a pull that found a manifest found such a one (`FoundFresh`); and
which stages belong to which requests (`StageOK`). Every write passes a moment at
which it drops the entry and bumps the generation under the mutex, which makes
`FillCoherent` vacuous for the pulls in progress; until then its old value counts
as servable.

For tags, `TagInv` follows the one writer that a repository outside `raced` has
(`Alone`). A cached resolution differs from the table only while that writer has
still to put it right (`TagsCovered`), and a pull that is about to cache an older
one does so in a current generation only before the writer's invalidation
(`FillCovered`). What a push has written is still there when it goes on
(`PushKept`): this is what `raced` is needed for, as a delete in between would take
the row under a tag that is yet to be written.

### BlobStoreProofs

For any blobs, manifests, references, sweeps, grace and quota, and any finite set of
requests:

* `TypeCorrect`: `TypeOK`, where `Request` tells a request for a blob from one for
  a manifest.
* `OvershootBounded`: `QuotaOvershootBounded`. The bound on recorded blobs is not
  inductive, as a request past its check still adds its blob. `ClaimedBounded`
  bounds the union of the recorded blobs and the blobs of requests past their last
  check. A request passes when the recorded blobs leave room for one more; the
  others past their check are at most N - 1, so the union has at most Quota + N - 1
  members. A blob that was found present, and so took no check, is in the union
  already; a delete or a sweep only shrinks the recorded blobs, and the union keeps
  the blob of a request that will record it again.
* `YoungKept`: `YoungOnlyIfReplaced`, an action property, for any number of sweep
  processes and with direct deletes. The sweep removes what it listed without looking
  again. `ListSound` says that a listed blob whose row is still the one it listed has
  expired: `record_blob` keeps the `created_at` of a row that exists, so only the
  removal of the row, by another, can make the blob young. That removal puts it in
  `lost`.
* `ImageIntact`: `OneSweeper /\ NoDirectDelete /\ NothingEvicted => (Spec =>
  []CleanImageIntact)`. `PushSound` says that what a client has added in its window is
  there and too young to be on a list (`OwnKept`), that so is the object of the
  upload that is about to be recorded (`NewKept`), and that what a clean image
  refers to is there and on no list (`CleanKept`). It rests on `SweepSound`: what a
  sweep is about to remove is expired and stays so. A second sweep process or a direct
  delete breaks that, as above; and a download over its quota takes back the object of a blob that an upload has put in
  between: this is what `NothingEvicted` excludes.

### UploadSessionsProofs

For any sessions, requests, slots, sizes, calls and faults at any await:
`TypeCorrect` (`TypeOK`), `NoUploadOrphaned` (`NoOrphanUpload`), `RecordedIsWhole`
(`WholeUnlessTorn`) and `OversizeIsRejected` (`LimitHoldsAPart => (Spec =>
[]OversizeNeverRecorded)`). The argument is in layers.

1. `TypeInv`: a worker refers to a session wherever it works on one.
2. `WorkInv`: the mutex keeps the workers apart (`Exclusive`), and a session is
   unknown to all until it is created. From this, every step of a worker is a
   `Move`, which changes the session the worker is at and no other.
3. `BytesInv`: each unit that was hashed is in the buffer, in an uploaded part, in
   the hands of the worker that uploads it, or its session is in `lost`.

On these rest one invariant for each theorem. `OrphanInv`: an open upload has a
session in the map or a worker that will register or end it, unless it is in
`unaborted`.
`Stored`: what a finish completes or puts is what was hashed, and once a session is
finalized nobody writes to it (`Sealed`), so the checked digest is still that of
the bytes. `LimitInv`: a session over its limit is on its way to be rejected.
`LimitHoldsAPart` says that there is no limit or that it is at least one part
(8 MiB), which the configuration does not enforce. Below that, a finish that waits
while a patch rejects a session finds all of the blob in the buffer and puts it in
one piece; TLC shows it on an instance with a limit of one unit and parts of three.

### UpstreamUsageProofs

`Usage`, for any repositories, users, requests and days:

* `TypeCorrect`: `TypeOK`.
* `EventsConserved`: `Conserved`. A drain overwrites the row of its key,
  which loses nothing only if there is none: `BatchFresh` says that a row belongs to
  a key that this flush has drained, or has yet to put back.
* `SnapshotTaken`: `SnapshotUnlessMissed`, with `DayMarked`: the loop
  snapshots the day it has marked, whatever day it is by then.

`Upstream`, for any hosts, pages and limits:

* `ConversationTypes`: `Conversation => []ConversationTypeOK`.
* `CredentialsStayHome`: `Conversation => []CredentialsHome`, with: a password is
  sent first to a realm that is trusted and not in the clear, and credentials are
  kept only while the origin is still the first. A provider's token is sent to the API
  as long as no page is in (`FirstAtTop`); after that the theorem says nothing of it, as
  it goes with every link.
* `ListingsWhole`: `Conversation => []ListingWhole`: before it ends, a listing that
  has not strayed has taken exactly the pages before the one it is at.

### ImportsProofs

For any finite set of repositories, any jobs, blobs, manifests and limits:

* `TaskOfRunning`: `RunningHasTask`.
* `Refinement`: `Spec => PollSpec`. Every step changes the row of each job as one of
  the abstract actions, or leaves it. The one difficulty is `Plan`, which ImportJob
  allows only before any progress: `RowFits` says that a job whose total is still to
  come has a total and a progress of 0 and no task, and that a row that has ended
  belongs to no running task. `CopiesBelow` says that a copy task exists only while
  the job is at its copies, which is what keeps an ended row from being advanced.
* `TypeCorrect`: `TypeOK` (`TInv`: an image under copy has one copy for each layer).
* `NeverFetchedTwice`: `FetchedOnce` (`LInv`): two copies of a job past the lock want
  different blobs, and one past its second look wants a blob not fetched so far.
* `DependenciesFirst`: `StoredWithDependencies` (`SInv`): each index on the stack of
  a task has its children before the current one stored or answered by 404, and an
  image at its last step has its layers. A task notes what it has seen before it has
  stored it, so a child that is met again while it is still on the stack would be
  taken for done; `NoCycle`, that no manifest is among its own descendants because a
  digest is a hash, excludes that.
* `ProgressAlways`: `ProgressExact` (`CInv`): what a row counts, plus what its tasks
  still owe, is what they have listed, as cardinalities of finite sets.

### DomainsProofs

For any domains, contacts and requests:

* `TypeCorrect`: `TypeOK`, in which no domain is listed twice and the
  primary domain is one of the table.
* `UrlFollowsTable`: `UrlFollows`. The invariant says of a handler that is
  alone that it has read what the table still gives, as a commit takes the others'
  claim to be alone.
* `RedirectsStayHome`: `RedirectsHome`. `UrlKnown`: the URL in use is a domain of the
  table unless a change that will wake the task is half-way. `LoopHome`: unless the
  task is to be woken (`Telling`), the URL it has read is one of the domains it has
  read, although it reads them at different moments. `set_primary` does not wake it,
  and need not: the former primary domain is still in the table. Both parts exempt what
  `doubt`, `loop.sure` and `missed` stand for.

### AccessProofs

For any users, teams, repositories, tokens and requests, and any bounds on calls and
failures:

* `TypeCorrect`: `TypeOK`, by an invariant that says which fields a request
  has at which stage, that a row of the tables names only users and ids that exist,
  and that a repository that is gone has no grants.
* `GrantsAreJustified`: `GrantsJustified`. A request decides on what it
  read up to four statements ago. `Sound` says that `seen` has the present moment, that
  the repository a request has found still has the name asked for or is gone (an id is
  not used twice), and that what it has settled on so far comes from moments in `seen`.
  `Capability` grows with each of its arguments (`CapabilityGrows`): where one moment
  was whole, it allowed what the parts of any others do.
* `PatsStayConfined`: `PatConfined`: no statement changes the scope of a
  token that stays, one scoped to a repository always names it, and what a token
  request has found under its name was found at a moment in `seen`.
* `SetupHappensOnce`: `SetupOnce`: founders are users, and the insert that
  makes one takes effect only where there is no user.
* `PullsAreCounted`: `PullsOfThisRepo`, with: between the two statements of
  a deletion the counters of the name hold late pulls only.

### SettingsProofs

For any settings, values, domains and requests:

* `TypeCorrect`: `TypeOK`.
* `ClientFollowsRows`: `ClientFollows`. An update that has been alone is the
  only one in progress, and what it has read back so far is what the rows still say.
* `AccountsAllowedOnly`: `AccountsAllowed`. At each of its reads a sign-in
  adds to what it knows to have held (`Asked`), and its history ends with the settings
  as they are (`Watched`), so what it reads next held after what it has read.

### What the theorems rest on, and what they leave

Assumptions: those named in the modules (`None` outside the data, natural bounds,
finitely many requests and repositories, well-formed image data, `NoCycle`). TLC
evaluates them in every run.

Every invariant and every action property of the passing runs is proved. Liveness
(`CollectedEventually`, `SessionsEndOrStick`, `FlushedAgain`, `JobsEnd`, `TlsFollows`,
`ConversationEnds`) is out of the prover's reach and stays with TLC. The three
hypotheses of `ImageIntact` leave out deployments the code allows: what happens there
is in section 3, and the runs cover the bounds and operations their cfg names.

## 5. What is left out

* The cache and the analytics when they are switched off (`enabled = false`), and the wrap of its u64
  generation.
* Byte contents: a part is a set of units, a digest a prefix. Hash collisions.
* Blobs of different sizes in the quota (each is one unit), and a quota that
  changes. Only one organization: no step mixes two, except `wrong org` checks of a
  session, which only refuse.
* A cross-repository mount only reads; so do `status`, `head` and blob `get`.
* A bucket call takes effect or does not: a call that fails after it has taken
  effect is modelled only where the request is dropped there.
* Access: other organizations (a token scoped to one of them grants nothing here),
  the creation and deletion of teams, several scopes in one token request, login
  sessions. A handler that its first look refuses.
* Imports: bytes_done; two jobs of one organization that download the same blob at a
  time (the lock is per job, so each may).
* Domains: the ACME orders behind a certificate, and a server without automatic TLS,
  which has no task. Upstream: byte limits, address lookups, the parsing of bodies.
* Settings: secrets, which are saved and read as the other rows are; the contact is
  in `Domains`.
* Not modelled at all: rate limiting (a library's buckets; the code here only picks
  the client's address), tag listing (one read cut into pages), the dashboard, the
  audit log.
* Hashing, signing, HTTP and the S3 protocol, formatting, logging.

## 6. What could come next

1. `CleanImageIntact` with evictions, for images whose blobs no download over its
   quota wants: `NothingEvicted` excludes all of them.
2. An abstract registry, where a push, a pull and a delete of an image are one step
   each, that `ManifestCache` implements for what `FreshPull` says.
3. An abstract upload, which is open, then committed with its bytes or gone, that
   `UploadSessions` implements.
4. Two organizations in `Access`, with teams that come and go.
