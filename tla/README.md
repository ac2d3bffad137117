# Verification project for Icy Seas Courier

TLA+ models of the Courier upload path and of the Data Registry behind it, model-checked with
TLC on small instances, with theorems checked by TLAPS. Definitions carry the names of the
functions they model; `PROJECT.json` maps each one to its source lines.

## The system

Icy Seas Courier moves a folder of data files from a field computer to an object store and has
the delivery verified before anyone relies on it.

| Part | Source | State | Operations |
|---|---|---|---|
| Courier Desktop | `apps/courier-desktop/src-tauri/src/lib.rs` | the controls map (pause flags of running uploads), the unlocked device, cached sessions, the pack cache, the startup state | create_inventory and transport plan, start_upload / run_upload, pause_upload, refresh_transfer_status, clear_transfer, session lookup and renewal, event delivery loop, downloads, startup and recovery of the database |
| Upload engine | `crates/courier-transfer/src/executor.rs`, `reconcile.rs`, `planner.rs`, `retry.rs` | none of its own | upload_missing_parts, reconcile_file, complete_uploaded_file, plan_parts, replan_large_unconfirmed_parts |
| Local store | `crates/courier-core/src/db.rs`, `model.rs` | SQLite: transfers and their status, files, upload sessions, parts with ETags, events | transition, reconcile_registry_status, reconcile_remote_parts, confirm_part, mark_file_uploaded, event outbox |
| Registry client | `crates/courier-registry/src/lib.rs` | session tokens | the MultipartStore over HTTP: begin, list, authorize + PUT, complete, exists; finalize; session rotation; downloads; event delivery |
| Courier pack | `crates/courier-pack/src/lib.rs`, `data_registry/pack.py` | none | deterministic framing of many small files in one object and its strict reader |
| Data Registry API | `apps/data-registry/data_registry/api.py` | PostgreSQL: transfers, transfer_objects, files, verification_attempts, invitations, sessions | create_transfer, submit_manifest, initiate / list / authorize / complete multipart, finalize_transfer, admin retry and delete, invitations, sessions, client events |
| Ingest worker | `data_registry/verification.py`, `worker.py` | a claim (transfer and attempt number) under a lease | claim_transfer, verify_claim, fail_verification |
| Object store | S3 | multipart uploads, objects | external: modelled from how the code uses it |

Courier registers a transfer and an immutable manifest with the Registry, asks it for a
multipart upload per transport object (a large file, or a pack of small ones), sends the parts
straight to storage through presigned URLs, has the Registry complete each upload, and
finalizes the transfer. A worker then claims it, reads every object back, compares it with the
manifest, and makes the transfer `complete` or `failed`. Courier polls for that verdict.

### What is hard here

* Four independent stores (SQLite, PostgreSQL, S3, the running task's memory) that are never
  updated together. Every pair of updates has a gap in which one side can die.
* Requests that time out on one side and take effect on the other, or do so much later.
* Handlers without row locks (finalize, initiate, complete) beside handlers with them (claim,
  retry, delete), and a worker that loads a row, works for minutes, and commits what it found.
* Leases without fencing: a worker that lost its lease still commits.
* Tokens that rotate: every renewal makes the old pair useless, and the new one has to reach
  the vault, the cache and SQLite while other callers renew it too.
* State on disk changed file by file (recovery archive, partial directories, pack cache,
  migrations outside of transactions), where Courier can die between two of them.
* Bounded retries and bounded attempts: what happens to work that used them up.
* Part plans that are revised on resumption while parts of the older plan are in storage or on
  their way to it.

`PROJECT.json` lists the hazards line by line with the properties that cover them.

### What makes each part correct

* Ingest worker and transfer API: `complete` only with evidence; verdicts final until an
  operator acts; deletion final; every finalized transfer gets a verdict.
* Upload engine, Registry multipart API and local store: what SQLite and PostgreSQL say was
  uploaded is in storage; only missing parts are sent; every resumption makes progress until
  the object is stored and recorded.
* Part planner: every plan is a partition of the file within storage's limits, and no revision
  moves a part that the listing showed.
* Local transfer status: follows the Registry's, never runs backwards, survives a crash.
* Sessions: the vault and the cache hold the newest tokens unless a rotated pair never got
  there, or for the cache a lookup crossed an exchange; an invitation's limit holds; an authorized device gets its access renewed.
* Event outbox: every event is delivered, ingested once and in order, and kept until then.
* Packs: the plan carries every file once, and a pack that is made again is the pack whose
  parts are in storage; the cache exceeds its budget only by what could not be removed or was
  miscounted.
* Downloads: objects are put together right over any number of stops, and a dataset is
  published whole, verified and alone, or not at all.
* Startup: putting a damaged database aside loses nothing, a startup that reports success has
  a sound database, and Courier comes up again after any death.

## Modules

| Module | Models | Composed of |
|---|---|---|
| `Verification` | transfers, objects and attempts in PostgreSQL; the handlers that begin and complete an upload, finalize, retry and delete; the ingest workers; multipart uploads and stored objects | Registry API, worker, store |
| `RegistryTransfer` | abstract: the life of one transfer's status, as the Registry promises it | implemented by `Verification` with one worker, relied on by `TransferLifecycle` |
| `MultipartUpload` | one transport object from run_upload to finalize: the engine's task, SQLite, the Registry's row and handlers, storage, requests given up | engine, local store, client, Registry API, store |
| `PartPlan` | part boundaries: plan_parts, its revision, reconciliation against the listing, over any number of stops | planner, engine |
| `TransferLifecycle` | one transfer as Courier sees it: the local status machine, inventory and upload tasks, registration, manifest, finalize, polling, clearing, upgrade of Courier | desktop, local store, client, Registry API, `RegistryTransfer` |
| `RegistrySessions` | one device's authorization: invitation, exchange, token rotation, vault, cache and SQLite, the callers behind the session gate, the administrator's changes | desktop, local store, client, Registry API |
| `EventOutbox` | events recorded in SQLite, the delivery loop with its cursor and batches, ingestion and acknowledgement | desktop, local store, client, Registry API |
| `Download` | retrieval of verified datasets by Courier Desktop and by the retrieve command: resumable fetches, restore, verification, publication | desktop, command line, client, Registry API, store |
| `TransportPacks` | inventory, grouping into packs, staging under the cache budget, eviction and regeneration during the upload, edits of the source, clearing | desktop, engine, pack, local store |
| `LocalStartup` | integrity checks, the recovery archive, opening, the twelve migrations statement by statement, a startup that failed | desktop, local store, SQLite |
| `VerificationProofs`, `MultipartUploadProofs`, `TransferLifecycleProofs`, `RegistrySessionsProofs`, `EventOutboxProofs`, `DownloadProofs`, `LocalStartupProofs` | theorems about the module of that name | |
| `PlanProofs` | theorems about the two plans of an upload, `PartPlan` and `TransportPacks` | |
| `MC...` | instances for TLC | |

An operator marked `\* mutant` is a wrong version of the definition after it, used by no
specification: it is put in that definition's place to see that a property notices.

### Verification

A transaction that holds its row lock from read to commit is one action. Everything else is
split wherever another actor can get in between:

* `initiate_multipart` reads the row and has storage create an upload, and
  `initiate_multipart_commit` writes its id and the status `uploading`, however late;
  `complete_multipart`, `complete_multipart_stored` and `complete_multipart_commit` are the read,
  the storage call and the commit. None of them holds a lock, so a second request passes the
  same check, and a commit comes after another request's object was uploaded, finalized, or
  verified. `uploads` says of every upload how far storage and its handler are. A second commit
  for one object fails, as its parts are recorded already (`PartsRecorded`).
* `finalize_transfer_check` and `finalize_transfer_commit`: the handler reads without a lock
  and commits what it decided. `finalizers` counts handlers between the two.
* `claim_transfer` is one action (`FOR UPDATE SKIP LOCKED` to commit). `verify_claim_load`
  loads the row in a second session, `verify_transport_object` reads one object,
  `verify_claim_verdict` ends the loop and `verify_claim_commit` is the one commit. The session
  writes only columns that differ from what it loaded, hence `seen`.
* `delete_transfer_lock`, `_object`, `_commit`, `_rollback`: objects are deleted one at a time
  under the row lock, and a failure rolls back the row and not the objects. `purging` is the
  lock; commits of others on the transfer's row wait for it, readers and the upload handlers do
  not. It aborts the upload that it read in an object's row (`toAbort`), and storage raises if
  that one is over: a DELETE of such an object fails whenever it is repeated.
* `WorkerCrash` loses the claim's work. `LeaseExpires` is the passage of the lease time; no
  clock is modelled beyond that.

Content is `good` or `bad` against the manifest. The files of one object share a status
(`fileStatus`) beside the object's own (`objStatus`). The last of the transfer's completions also
writes its `transport_bytes`, and waits for its row lock to do so; that wait is left out.

What a late handler can do shows in three of the properties. The row of a verified object can say
`uploading` again (`MCVerificationReopened`), so `CompleteIsVerified` is about its files, the
attempt, and storage. A second upload can be assembled over the first after it was verified, so
of storage it speaks while one was (`assembled`). And an upload that a DELETE does not read in
the row as open, or that is created while the DELETE is under way, outlives it (`outlived`): its
completion leaves an object of a deleted transfer in storage.

### MultipartUpload

`pc` is the place in run_upload → upload_missing_parts → complete_uploaded_file → finalize;
`attempt` the iteration of the innermost retry loop. SQLite is `session`, `local` (confirmed
parts) and `marked`. The Registry's handlers are split at storage call and commit
(`initiating`, `completing`), so that two overlap, one dies between, or one finishes after its
caller has gone. A PUT or a completion that Courier gave up on took effect, takes effect later
(`latePuts`, `lateComplete`) or never.

A stored object is not finalized when the Registry's row does not record it, in two ways: the
commit of the completion was lost (`CommitLost`), or it was made and the late commit of an
earlier initiate_multipart set the row back to `uploading` (`RowReset`). `FinalizedUnlessLostOrReset`
says that there is no third.

For a pack, mark_file_uploaded finds no file of that name and changes nothing when the object
is found at the start (`Standalone`).

### PartPlan

`plan_parts` and `replan_large_unconfirmed_parts` are operators with the error cases of the
code; integers saturate at `MaxU64` where the code saturates. The initial states are every plan
an earlier release could have made, with any confirmed prefix in storage. A part's ETag is
represented by the range of the source it was given for (`Bytes`).

`Page` is what one listing shows: the lowest `PageSize` part numbers of the upload. The parts
storage holds beyond it are pending to Courier, which cuts them anew if its plan has large parts.
`ConfirmedPartsStayPut` is about the parts that were listed; of the rest `MCPartPlanPage` shows
that they move.

### RegistryTransfer and TransferLifecycle

`RegistryTransfer` is the promise: registered, described, finalized, verified as often as it
takes, settled; only an administrator takes a verdict back. `Verification` shows that it
keeps the promise for each of its transfers (`ImplementsRegistryTransfer`, the mapping is the
transfer's own status). `TransferLifecycle` then uses its actions for everything the Registry
does on its own, and models in full what Courier asks of it.

* `local` is the SQLite row: status, Registry id, manifest snapshot, uploaded objects. It
  survives a crash. A cleared transfer has no row, and a task still working on it writes
  nothing.
* `task` is the running inventory or upload with what it read at its start; `pausing` its
  control flag. There is at most one: the interface starts none for a transfer that has one
  (`App.svelte:849`).
* `transfers` are the rows the Registry has for this transfer, in the order of their
  registration, each with the session it belongs to: `create_transfer` finds an earlier row of
  the same session only, and every other handler refuses a transfer of another (`Known`). `stored`
  and `recorded` tell an object storage has from one the row says it has.
* `session` is the session whose tokens the vault has. The user exchanges the invitation again
  (`exchange_invitation`) and Courier has another; a running task goes on with the one it started
  with, and a renewal of that one puts it back into the vault (`renew_session`). A poll asks with
  the session that is held when it is answered. That any other task renews an old session is left
  out.
* `version` is the Courier release that runs; a crash may bring back a newer one. A manifest
  is told apart by the release it names, the one part of it that is not in the local
  inventory. The initial states include a transfer left behind by the release before manifest
  snapshots.
* A request whose answer is lost took effect, never does, or does later (`late`). Polls are
  split into fetch and apply, and two of them overlap.

The upload of an object is one step here, `MultipartUpload` has its parts and `TransportPacks`
the cache of packs.

### RegistrySessions

The module follows one invitation code, which the code turns into one session id, and the callers
of the transfers bound to it. Other codes have a vault item, a cache entry and a row of their own,
but `session_gate`, `device_unlocked` and the choice of the active session are shared:
`exchange_other_invitation` makes another session the active one and unlocks the device for all.
The person gives one command at a time.

A pair of access and refresh token is one number, in the order in which the Registry made
them; `born` and `clock` give its age. `vault`, `fallback` (the file beside the database on
macOS), `cache` and `meta` (SQLite) each have a pair or none.

* A caller is a poll, an upload or the event loop. `active_registry_session` runs under `gate`
  in several actions: another caller waits, but the person entering an invitation, and a client
  that was handed out before, do not. Such a client renews by itself when a request is answered
  401 (`send_json`, `refresh_session`), outside the gate, and saves in the order vault, cache,
  SQLite.
* `exchange_invitation_check` and `_commit` hold the invitation's row (`rowlock`) in between.
* The answer to a rotation is lost, the keychain refuses a write, Courier dies anywhere, the
  administrator revokes or changes the invitation. `forfeited` notes that a new pair was made
  and never reached the vault; a keychain item that hides the newer file beside the database
  counts as that. `crossed` notes that since Courier started a lookup read the vault while the
  person's exchange or unlocking had the pair and not yet put it into the cache.

set_active_registry_session is two statements in the code and one step here. The items of the
keychain that earlier releases wrote are left out. A lost answer to a rotation does lock the
device out until it gets a new invitation: no property says otherwise. `NoTokenIsLost` says that
nothing else takes the newest tokens of a session from the vault, with the device lock of macOS
(`DeviceLock`) and without it, and that the cache has them too unless a lookup crossed a command.
After a crossing the cache can be left with the older tokens, until Courier is restarted and reads
the vault; the lock does not prevent it, as another invitation unlocks the device while this one's
cache is empty (`MCRegistrySessionsOverlap`).

### EventOutbox

An event is its sequence number. A pass takes at most `PassLimit` transfers behind `cursor`
and starts over when there are none, a batch at most `BatchLimit` events. The batch and its
answer are separate steps; a request that was given up took effect, never does, or does later
(`late`), also across a death of Courier. `refused` are the transfers the Registry answers with
an error for good; transfers are cleared during a pass.

### Download

`task[d]` is where the retrieval of dataset `d` is; `dirs` the partial directories with their
restored files, their cache, the `.part` files and fetched objects, chunk by chunk. All
datasets have one name and one destination folder, the case in which Courier Desktop uses one
partial directory for them; the retrieve command has a private one and removes it when it
fails. Connections break, storage ignores the range, the user pauses, the process dies in the
middle of a file, and the machine loses the end of an unsynced `.part` file (`torn`).

### TransportPacks

`kinds` is a source with its files' sizes and sizes when packed. Inventory and encoding go
file by file (`check_member`, `read_member`), so an edit can come between the check of a
member's metadata and its read. The content of a pack is the row of its members' contents,
and a part of an object in storage is remembered as the content it was read from. `plan_packs`
is the small files in groups, `Grouped`, before the large ones, `Standalone`, each a function of
how many files were considered; `Total` sums the bytes of a row. `hidden`
notes an edit that left size and modification time alone or came during a read: no check of
the code can see these. Objects are uploaded in the order of their random ids.

A removal in the cache directory can fail (`MayFail`): of a pack that is evicted, that is not
worth it or has another size than planned, or of a `.tmp` file. The code prints the error or drops
it and goes on as if the file were gone; `unremoved` and `strays` are what is there because of
that. The removal of an uploaded object's pack is the one whose error ends the upload. A
clear_transfer whose directory cannot be removed ends with an error and leaves the rows as they
were; it is left out.

### LocalStartup

`files` and `archive` are directories from the suffixes "", -wal and -shm to content, of which
the data in it and the schema matter. A rename is one step, a migration one step per statement
that commits by itself (`Statements`, counted from the twelve files), so Courier dies between
any two. `RunsAgain` says after which of them the migration can start over. `initialize_local_state`
that fails is recorded and Courier runs on: `command` opens and migrates the store again
without any check. Commands are modelled one after another. The schema version is kept with
the main file.

If Courier dies after the damaged database was put aside and before its diagnostic, the next
startup finds no database and creates one silently, while `docs/architecture.md:33` says that
the reset is reported; diagnostics are not modelled.

`Damage` is of a kind that the integrity check finds. A main file that is cut to zero bytes is an
empty database to SQLite: it passes `integrity_check`, and SQLite drops the WAL beside it, so what
was committed there is lost without an archive. No property here covers that case.

## Runs

| Run | Expected | What it asks |
|---|---|---|
| `verification_races` | pass | two workers, two overlapping finalize requests, two uploads of one object, a crash, a deletion: `CompleteIsVerified`, `AttemptsAreExclusive`, `DeletedIsGone` |
| `verification_one_worker` | pass | the documented topology, two transfers: `ImplementsRegistryTransfer`, `FailedAwaitsOperator`, `SettlesWithinBudget` |
| `multipart` | pass | a file or a pack, two lost requests, both sides crash once, a pause: `UploadedMeansStored`, `ConfirmedPartsWereAccepted`, `OnlyMissingPartsSent`, `ObjectIsEventuallyStored`, `FinalizedUnlessLostOrReset` |
| `multipart_unrecorded` | violation | is a stored object always finalized? Not if the commit recording it was lost |
| `part_plan` | pass | all sizes and older plans, listings of one page: `PlanIsValid`, `ConfirmedPartsStayPut`, `DoneIsWhole`, `ResumptionAcceptedUnlessLate` |
| `lifecycle` | pass | a crash with an upgrade, a lost request, a pause, another exchange of the invitation, overlapping polls, clearing, a retry and a deletion: `RegisteredOnce`, `ManifestIsNeverRefused`, `ShownVerdictIsTheRegistrys`, `NeverMovesBackward`, `OutcomeIsShownIfKnown` |
| `sessions` | pass | two callers and the person at this device, another person with the same code, another invitation, tokens that expire, two troubles: `NoTokenIsLost`, `UseLimitKept`, `AccessIsRenewed` |
| `outbox` | pass | three transfers, three events, lost and late batches, deaths, clearing, refusals: `LogIsPrefix`, `SyncedIsLogged`, `EventsAreDelivered` |
| `download` | pass | two datasets of one name in Courier Desktop and one by the command, three troubles: `FetchedInPlace`, `PublishedAloneIsExact`, `RetrievedUnlessLeftover` |
| `packs` | pass | five sources, an edit, two deaths, a removal that fails, clearing: `PlanIsSound`, `StoredAsInventoried`, `PackHasPlannedSize`, `CacheIsAccountedFor`, `ClearedLeavesNothing`, `UploadedUnlessEdited` |
| `startup` | pass | three deaths, damages or failures at any step: `StartupLosesNothing`, `StartsOnSoundStore`, `ComesUpUnlessCutShort` |
| `startup_cut` | violation | can every schema Courier leaves behind be opened by its next start? Not one cut in a migration |

### Further counterexamples

Configurations of properties that a doc or comment suggests and the code does not keep, for
`tlc -config X.cfg` on the MC module of that name:

| Configuration | Property | What TLC shows |
|---|---|---|
| `MCVerificationStuck` | `QueuedReachesVerdict` | a worker dies in the last attempt, and the attempt limit also excludes stale claims: the transfer stays `verifying`. The admin retry keeps the count, so a transfer that failed for lack of attempts is queued and never claimed |
| `MCVerificationRefinalize` | `FailedAwaitsOperator` | two overlapping finalize requests put a `failed` transfer back into the queue |
| `MCVerificationReopened` | `CompleteObjectsVerified` | two initiate requests both find no upload; one's upload is completed, finalized and verified before the other commits, and the object's row of a complete transfer says `uploading` |
| `MCMultipartPage` | `OnlyMissingPartsSent` | `list_parts` reads one page, so parts beyond it are sent again on every resumption |
| `MCPartPlanLate` | `ResumptionIsAccepted` | a late PUT of a plan that has been revised makes reconciliation refuse the upload for good |
| `MCPartPlanPage` | `AcceptedPartsStayPut` | storage holds more parts than one page lists; the parts beyond it, pending to Courier and larger than the target, are cut anew, while the comment on the revision says that part numbers and ETags stay put |
| `MCTransferLifecycleUnseen` | `OutcomeIsShown` | Courier dies after the Registry accepted finalize and before it noted so, and verification fails: every resumption is refused and ends `interrupted`, which is not polled |
| `MCTransferLifecycleSession` | `OutcomeIsShown` | the invitation is exchanged again while a registered transfer is on its way: the Registry refuses the new session every request for it, and its outcome is never shown |
| `MCRegistrySessionsReuse` | `RefreshTokensAreNotReused` | the comment on the session gate says that concurrent callers do not attempt to reuse a refresh token; a client handed out earlier renews outside the gate and does. The Registry answers 401 and the caller fails, no token is lost |
| `MCRegistrySessionsOverlap` | `CacheIsNeverSetBack` | with the device lock as without it: the cache is empty and another invitation has unlocked the device. An exchange of this one has written its pair to the vault, a lookup reads it there, and as the expiry in SQLite is still the old session's renews it; then the exchange puts its pair, now useless, into the cache, where every caller finds it until Courier starts again |
| `MCDownloadShared` | `PublishedIsExact` | a second dataset of the same name is restored where the first one stopped, and published with the first one's files |
| `MCDownloadLeftover` | `ResumedIsRetrieved` | Courier dies between the verification of an object's files and the removal of the object: the resumption skips the object as restored, and the cache directory can never be removed |
| `MCTransportPacksCleared` | `ClearedIsGone` | clearing a transfer while its upload stages a pack leaves that pack behind |
| `MCTransportPacksBudget` | `CacheWithinBudget` | a pack that was staged and is dropped for a standalone object is taken off the count although it was not added, and the cache exceeds its budget |
| `MCTransportPacksUnremoved` | `CacheWithinBudgetAndForgotten` | a pack that cannot be evicted stays, and the next one is staged beside it with the whole budget |
| `MCLocalStartupLost` | `CommittedIsPreserved` | the archive fails between its renames and cannot be put back; a command of the running Courier opens a fresh database beside the old journal, which SQLite removes |

### Bounds

* Verification: two workers and two finalizers are the fewest that race; two attempts let a lease
  expire and both workers claim; two objects give a partial verification. Two uploads of an object
  (`MaxUploads`) are a request and its repetition, for one of the objects (`MaxAgain`). One crash
  and one deletion at any moment: both end with nothing in memory, so a second starts from a
  state a first could have produced. The run with one worker has one upload per object: it asks
  for progress, which a second one does not change. `VerificationProofs` removes these bounds for
  the safety properties.
* MultipartUpload: two parts are the fewest with a confirmed prefix and a missing part. Two
  attempts make a loop both repeat and give up. Two faults lose a request and its repetition.
  Five uploads are more than crashes and faults can make the Registry create, so the bound
  never stops a behaviour.
* PartPlan: the limits are scaled so that each one binds: target 3 between 2 and 7, six parts.
  Files of 19 units up need parts above the target, older plans have targets from below the
  minimum to above the maximum, and sizes go from 0 to the capacity, 42. A page of four parts is
  less than a plan can have.
* TransferLifecycle: two objects give a partial upload, two pollers are the fewest whose
  answers can be applied out of order. Three releases: the one without snapshots, one that
  registers, one that resumes. One crash, fault, pause, exchange, retry and deletion, each at
  any moment: a crash leaves a request in flight that arrives while it is repeated, and a second
  exchange or deletion would only repeat the registration after the first.
* RegistrySessions: two callers are the fewest that rotate one session concurrently, `Others`
  the fewest that compete for an invitation of two uses. A pair is due at one tick and refused
  at one, its refresh token at two, so that a caller finds it due, expired, and too old; three
  ticks give every one of three pairs that age. Two troubles: a lost answer, a refused write, a
  death, an exchange of another invitation or an act of the administrator, and what follows.
* EventOutbox: three transfers with a pass of one make the cursor go round; a batch of two of
  three events makes a second batch. Two troubles: a request that is late and its repetition.
* Download: dataset a has a pack of two files and a file, b and c a file at one of its paths.
  Two chunks make a prefix. Three troubles: a stop, one in the resumption, one in between.
* TransportPacks: members up to 2, packs up to 3, a cache of 4, and sources whose large files
  compress to a full cache, to more than that, or not at all. Two parts make an object whose
  pack is regenerated between them. Two deaths: one in the inventory or staging and one while
  the first is repaired. One removal that fails, at any moment.
* LocalStartup: the migrations are the real ones. Three troubles: a damage, a failure of the
  recovery from it, and a death in between.

`DeviceLock` is set in `MCRegistrySessions`, the macOS build, which has the more states; its safety
properties were checked without it too, and are proved for both.

Deadlock is checked for `LocalStartup` only: the other systems may stop (uploaded and verified,
paused by the user, waiting for an administrator).

### Fairness

* Verification: each worker loops for ever (`worker.py`), a lease runs out with time, and a
  DELETE handler ends by commit or rollback. Nothing is assumed of clients, administrators,
  finalizers or crashes.
* MultipartUpload: `WF(ClientStep)`, Courier runs and its user resumes a stopped transfer
  (nothing in the code resumes by itself), and `WF(HandlerStep)`, a handler the Registry is
  executing ends. Faults and crashes are bounded, not fair.
* TransferLifecycle: a task runs, the user resumes what stopped, the interface polls every two
  seconds while the local status awaits a verdict, and the worker takes queued transfers.
  Strong fairness of `Settle` says that verification is not requeued for ever, which
  `SettlesWithinBudget` shows of the code: the attempts are limited. That a transfer out of
  attempts can stay unsettled is shown by `MCVerificationStuck` and not repeated here.
* RegistrySessions: polls, uploads and the event loop call again and again, and what the person
  has begun runs on. Nobody has to enter an invitation, unlock the device or administer it.
* EventOutbox: the loop sleeps fifteen seconds and is started with Courier.
* Download: a retrieval runs on, and the user of a dataset in `Resumed` starts it again.
* TransportPacks: Courier runs on, and the user resumes an upload that stopped.
* LocalStartup: Courier's steps go on, and a user whose startup failed quits and starts anew.

## Proofs

`VerificationProofs` proves, for any sets of transfers, objects and workers, any attempt limit
and any number of requests, uploads, crashes and deletions (from `VerificationAssumption`: there is an
object, and an attempt; the bounds are natural numbers):

| Theorem | Statement |
|---|---|
| `TypeCorrect` | `Spec => []TypeOK`; an attempt number never passes the limit |
| `CompleteRestsOnEvidence` | `Spec => []CompleteIsVerified` |
| `ClaimsAreExclusive` | `Spec => []AttemptsAreExclusive` |
| `DeletionIsFinal` | `Spec => DeletedIsGone` |
| `RegistryTransferIsImplemented` | `OneAtATime` gives `Spec => ImplementsRegistryTransfer` |
| `FailureIsKept` | `OneAtATime` gives `Spec => FailedAwaitsOperator` |

`CompleteIsVerified` is not inductive: a worker that holds the verdict `complete` commits it
over whatever the row has become, so the step from verdict to commit has to know what the
verdict rests on. The invariant `Safe` is `AttemptsAreExclusive` and:

* `StoredWasAssembled`: what lies under a key was put together there;
* `MatchedIsSound`: what a worker has matched was `good` when it was read, and since then it can
  only have been deleted, or replaced by a second upload of the object (`Sound`);
* `VerifiedIsSound`: so is the object of every file marked verified, also those committed with a
  failed attempt and never reread. It is about the files, as the object's own row can be set back;
* `VerdictIsFounded`: a worker with the verdict `complete` has matched every object;
* `NumbersAreOpened`: a held attempt number was opened by a claim of this transfer, so the
  attempt row that records success lies within `1..attempts`;
* `CompleteIsRecorded`: the attempt and the files of a complete transfer say so.

Type correctness is proved first; `Safe` is then proved action by action, one lemma per part
an action can disturb. `DeletionIsFinal` has an invariant of its own, `Gone`: of an object that no
upload outlives, what a DELETE has been at is absent and can no longer be assembled (`Cleared`),
and what it still has to do is assembled from the upload it is going to abort or not at all
(`OnlyToAbort`).

The refinement holds where the documentation says it does, with one ingest worker and no second
finalize request of a transfer beside the first (`OneAtATime`); `MCVerificationRefinalize` shows
two requests break it. Its proof maps each step of the handlers and the worker to the
step of `RegistryTransfer` it stands for, from the invariant that a finalize handler past its
checks finds the row as it read it (`FinalizerSeesReady`), and a worker what it holds still
being verified, or deleted.

The other proof modules state their invariant `IInv` at their top (`LocalStartup` has it
itself; in `PlanProofs` they are `PartsInv` and `PacksInv`), and prove it in the same way, for any
values of the constants that the module's assumption allows:

| Theorem | Statement | What makes it inductive |
|---|---|---|
| `MultipartUploadProofs`: `UploadTypes`, `UploadedIsStored`, `ConfirmedWasAccepted` | `[]TypeOK`, `[]UploadedMeansStored`, `[]ConfirmedPartsWereAccepted` | `CompletesWholePlan`: completion is asked for with the whole plan confirmed, and the plan stays so; `RecordsWhatIsStored`: whoever is about to mark or record the object found it whole; `ConfirmsWhatWasAccepted`: the part about to be confirmed is in its upload |
| `OnlyMissingIsSent` | `NParts <= PageSize` gives `[]OnlyMissingPartsSent` | `SendsMissing`. `MCMultipartPage` shows what the hypothesis keeps out: the page limit is the only cause of parts sent again |
| `TransferLifecycleProofs`: `LifecycleTypes`, `OneRegistration`, `ManifestsAreAccepted`, `VerdictsAreTheRegistrys`, `StatusNeverMovesBackward` | `[]TypeOK`, `[]RegisteredOnce`, `[]ManifestIsNeverRefused`, `[]ShownVerdictIsTheRegistrys`, `NeverMovesBackward` | an id is a place in `transfers`, so it is never given away; a session has one row that was not deleted, with the manifest of the release that registered it (`RowsAreSound`); only one transfer is ever described, or has a manifest on its way to it, although several may be registered (`OneIsDescribed`, `LateAreKnown`); a transfer keeps the id and the snapshot it got (`TaskIsBound`, `SnapshotsAreRegistered`), and a verdict in a poll's answer was the Registry's for that id (`VerdictsAreFounded`). `Later` says what a step of the Registry leaves true, `Proceeds` what a step of Courier does |
| `RegistrySessionsProofs`: `SessionTypes`, `InvitationUsesAreLimited` | `[]TypeOK`, `[]UseLimitKept` | `UsesCounted`: a session per use; `ExchangesAlone`: who is in an exchange holds the row, and the number it read is still the one recorded |
| `TokensAreKept` | `[]NoTokenIsLost`, with the device lock and without | `TInv`: tokens are made in their order and what is anywhere was made (`MadeInOrder`, `KnownWereMade`); a pair on its way to the vault is in force and nobody else has it, so nobody can rotate it under way, and so is one on its way to the cache until a lookup crosses it (`SavedAreSecret`); who reads the vault is alone, because the cache is empty only from a start to the first lookup, which has the gate, or else it crosses a command of the person (`VaultReadAlone`) |
| `EventOutboxProofs`: `LogsAreInOrder`, `SentIsInTheLog` | `[]LogIsPrefix`, `[]SyncedIsLogged` | `SendingFits`, `LateFits`: a batch on its way, however late, is of recorded events and leaves out only such as the log has, so that what is new of it follows the log's end; `SyncedInLog` |
| `PlanProofs`: `PlansAreValid`, `AssembledIsTheFile`, `RevisionsKeepConfirmedParts` | `[]PlanIsValid`, `[]DoneIsWhole`, `ConfirmedPartsStayPut` | `GoodPlan`: a plan is the partition of the file within the limits. `plan_parts` makes good plans, the rest of a good plan fits in the part numbers it has left (`RestFits`), so a revision of the tail succeeds and is good |
| `OnePageKeepsAcceptedParts` | `Limits.parts <= PageSize` gives `AcceptedPartsStayPut` | `ConfirmedPartsStayPut` is about the parts that were listed; if one listing shows every part a plan may have, these are all that storage holds. With `MCPartPlanPage`: the page is the only cause of accepted parts that move |
| `ResumptionIsNotRefused` | `[]ResumptionAcceptedUnlessLate` | without late requests, storage holds the plan's own parts (`Matches`) |
| `StorageHoldsTheInventory`, `StoredPacksHaveThePlannedSize` | `[]StoredAsInventoried`, `[]PackHasPlannedSize` | `HoldsTheRecorded`: unless an edit was hidden, a stamp stands for a content, so what is read, cached and stored is what was recorded; `SendsAsPlanned`: a pack that is sent has its planned size |
| `CacheStaysWithinBudget` | `[]CacheIsAccountedFor`: the packs and `.tmp` files exceed the budget by no more than what a failed removal left and what the count was short of | of the packs that count, those whose removal did not fail (`Counted`). In the inventory, `CacheWhileInventorying`: they are what was counted, and a `.tmp` file fits beside them. Afterwards, `TempsAreOfTheNext`: a `.tmp` file a crash left is of the object the upload comes to first, and beside it there is no pack that counts |
| `ClearedCacheIsEmpty` | `[]ClearedLeavesNothing` | `ClearedIsEmpty` |
| `PlansCarryTheFiles`, `PlansAreSound` | in a saved plan `CarriesEveryFileOnce`; `PacksFit` gives `[]PlanIsSound` | `Carries`, by induction on the files; `FitsTheCache` |
| `DownloadProofs`: `FetchesStayInPlace`, `PublicationIsExact` | `[]FetchedInPlace`, `[]PublishedAloneIsExact` | `TaskIsFine`: the objects before the current one are restored; `OwnedBy`: files in a directory are of the datasets that worked in it; `InPlace`: what is fetched is the beginning of its object; `OneAtATime`: Courier Desktop works on one dataset |
| `LocalStartupProofs`: `StartupInvariant`, `SuccessIsSound`, `StartupIsLossless` | `[]IInv`, `StartsOnSoundStore`, `StartupLosesNothing` | `Placed`: no file is in both directories and a journal is never with a database it is not of; `Staged`: how far the startup has come |

The assumptions on the constants of the plans are what the code guarantees: the limits are
positive and in order (`MultipartLimits::default`), and a packed file has a size, which its header
gives it. `TransportPacks` takes a source with a file at least: for an empty folder there is
nothing to plan.

`PacksFit`, the hypothesis of `PlansAreSound`, says that a pack of small files is not larger than
the cache. The code does not check this: the budget is ten times `target_pack_size`
(`pack_cache_budget`), a pack holds files of at most that size together, and exceeds it only by
a header per member and what compression adds. A group of very many tiny files is the case it
leaves out; it would be planned, and never uploaded. TLC evaluates `PacksFit` for the instance of
the run (`MCPacksFit`). Which files a plan carries does not depend on it (`PlansCarryTheFiles`).

`TInv`, `PartsInv`, `PacksInv` and the `IInv` of `LocalStartup`, `Download` and `EventOutbox` were
also checked with TLC on the instances of the runs. `TypeOK` of the modules whose run does not
list it holds there as well; of `PartPlan`, `EventOutbox`, `Download` and `TransportPacks` the
proofs use types of their own (`Shape`), without the bounds.

Every safety property and every action property of the passing runs is stated by a theorem. Only
model-checked are the liveness properties, as TLAPS 1.4.5 does not reason about fairness:
`SettlesWithinBudget`, `ObjectIsEventuallyStored`, `FinalizedUnlessLostOrReset`,
`OutcomeIsShownIfKnown`, `AccessIsRenewed`, `EventsAreDelivered`, `RetrievedUnlessLeftover`,
`UploadedUnlessEdited`, `ComesUpUnlessCutShort`.

Induction. The induction theorems of the library take an operator as a parameter, which the
installed provers cannot instantiate. Where a fact about sums or groups needs induction, it is
one about the set of numbers for which it holds, which has no least counterexample
(`LeastExists`, `SetInduction`). A function that is defined by recursion is used only after
its existence was proved that way (`RecursionExists`, `SumsEquation`, `GroupedEquation`,
`StandaloneEquation`). The models avoid the library's folds and sorting where a theorem is about
them: `Total`, `Grouped`, and `InOrder` in `EventOutbox` are definitions of their own.

## Findings

Each is a run that violates what the repository says; `PROJECT.json` quotes the lines.

1. `multipart_unrecorded`: if the Registry dies between completing an upload in storage and its
   commit, Courier takes the object for uploaded and finalize is refused for ever.
2. `startup_cut`: if Courier dies between two statements of a migration that is not one
   transaction, every later start fails on the column or table that is already there. That is
   no corruption, so the database is not put aside either.

The table of further counterexamples has the rest. Seen in the models without a configuration
of its own:

* A pause drops the PUT in flight (`courier-registry/src/lib.rs:1230`), while
  `docs/architecture.md:29` says it is allowed to resolve and its result persisted. The next
  resumption's listing repairs the difference.
* `docs/beta-deployment.md:157` says that a failed retrieval removes its private partial
  directory. Courier Desktop keeps it, and resumes in it; it is not private to the dataset.
* `docs/architecture.md:33` says that singletons stay standalone; a small or compressible file
  that is alone in its group is packed.
* An exchange of an invitation that overlaps a renewal can leave the vault and the cache with
  the tokens of different sessions; both are current ones.

## Not modelled

* Bytes, digests and pack parsing in the worker: a conversion from content to match or
  mismatch.
* Modification of source files during the upload: the manifest comparison finds it, as `bad`
  content.
* Administrators' passwords, one-time codes and sessions, and the rate limiter: next in the plan.
* The bytes of a pack's frame and its reader; the operator's Python retrieve tool.
* Read-only queries, the admin console, the Registry's schema migrations (definitions without
  logic), the direct S3 store and the command line's argument parsing.
* Access to projects (the scope of an invitation beyond upload and download), diagnostics and
  everything else that is only shown.

## Plan

Done: the upload path from inventory to verdict (`TransportPacks`, `TransferLifecycle`,
`MultipartUpload`, `PartPlan`, `Verification`, and the abstract `RegistryTransfer`), the
device's authorization (`RegistrySessions`), the audit trail (`EventOutbox`), retrieval
(`Download`), and the local database's life (`LocalStartup`).

To come:

1. `AdminAuth`: password, one-time codes and their replay, sessions, the rate limiter's window.
2. The pack format: writer and strict reader as operators over abstract frames.
3. Proofs about these two; the liveness properties stay with TLC.
