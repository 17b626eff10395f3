# A verification project for DWTGBot

DWTGBot is a Telegram bot that downloads public Instagram and YouTube media.
A user sends a link; the *bot* process writes a job row and a queue entry; a
*worker* process analyses, downloads and delivers the media, as a Telegram
upload or, when it is too big, as a temporary HTTP link; the *api* process
serves that link; a *cleanup* process frees what the others left behind. They
share Postgres, Redis and a volume, and nothing else: no process knows whether
another one is alive.

This directory holds TLA+ modules translated from `src/app`, small instances of
them for TLC, and theorems checked by TLAPS. `PROJECT.json` maps each definition
to the lines it models.

    tlc -workers 2 -config MCJobLifecycle_race.cfg MCJobLifecycle.tla
    tlapm JobLifecycleProofs.tla

## Inventory

| component | state it keeps | operations | how it meets the others | what is hard |
|---|---|---|---|---|
| Job lifecycle (`process_download.py`, `tasks.py`, `jobs_repo_impl.py`) | `download_jobs`: status, `status_version`, `updated_at`, error | create, load, transition, complete, fail, cancel, count a retry | rows read by bot, cleanup and the dashboards | stale entities, overlapping runs, restarts, the arq timeout |
| Queue (`producer.py`, `worker_settings.py`, arq) | queue entry, in-progress key, number of tries | publish, pick up, retry, give up | bot writes, workers read | lost entries, keys that expire under a live run |
| Enqueue (`job_enqueue.py`, `auto_enqueue_download.py`) | none of its own | create under the cap, publish, release | Postgres then Redis, in two steps | a row without a queue entry |
| Orphan reapers (`cleanup_worker.py`, `_reap`) | none | fail rows older than an age | write rows behind the workers' backs | the version is not bumped |
| Delivery ledger, cancel flag | Redis keys per job | record, get; request, check, clear | bot writes the flag, worker the ledger | best effort: errors read as "absent" |
| Temporary links (`temp_link_service.py`, `downloads.py`, `temp_links_repo_impl.py`) | `temp_links`: expiry, active, counter | issue, register a use, resume, deactivate | worker issues, api serves, cleanup expires | check and use in different transactions |
| Storage, cleanup (`local_storage.py`, `cleanup_worker.py`) | job directories and their mtimes | reset, write, remove a file, sweep a directory | shared volume, no locks | removal of a file somebody was promised |
| Delivery (`delivery_service.py`, `sender.py`) | none | upload, gallery, link | Telegram | timeouts after the upload arrived |
| Progress (`redis_progress_reporter.py`, `progress_updater.py`, `cancel_job.py`) | Redis keys, pub/sub, in-memory table of placeholders and tombstones | start, report, finish, fail, watchdog, recovery, cancel | worker and bot write, bot reads | late and lost events, a thread that outlives its download, restart of the bot |
| Picker (`links.py`, `callbacks/download.py`, `redis_state_store.py`) | request state with a TTL | analyse, offer, choose | bot only, handlers run concurrently | double taps |
| Post text (`post_text.py`, `redis_post_text_store.py`) | the text of a post with a TTL | store, offer the button at delivery, cut into messages | bot stores and sends, worker asks | a delivery that is faster than the store |
| Rate limit (`rate_limit.py`, `redis_rate_limit_gate.py`, `redis_notice_throttle.py`) | counters and claims in Redis | evaluate, notify | bot | layers charged and then refused, concurrent requests |
| Media cache (`analyze_link.py`, `media_cache_codec.py`) | rows of analysed media | read, write back, expire | bot and worker | what a row leaves out |
| Circuit breaker (`redis_circuit_breaker.py`) | failure counter and cooldown in Redis | ask, record, trip | jobs of all workers | two commands, expiry between calls |
| yt-dlp runner (`ytdlp_runner.py`, `ytdlp_child.py`) | a child process | extract, probe, download, kill | worker | a child outliving its attempt |
| Providers (`instagram.py`, `youtube.py`, `http_image.py`) | when the cookies were put aside | analyse, size, download, fall back | worker, bot | leftovers of a first try, a wrong estimate |
| Transcoding, metrics, logging, health, backup, deployment, migrations | - | - | - | external programs and I/O; see *Not modelled* |

What makes each of them correct:

* Job lifecycle: no stale entity overwrites the row; `DONE` means delivered and
  is final; the user is told of a failure once; media is not sent twice without
  need; every active row ends, so no place of the per-user cap is lost.
* Links and cleanup: a link the user holds has its file until it expires; a
  slot buys a file; concurrent requests never exceed the counter; a download
  that has begun can be finished; nothing stays on the disk.
* Progress: "done" is shown of delivered jobs alone, a failure stays on the screen,
  an accepted cancel stops the job, and no placeholder is left behind.
* The door: windows let their limit through and nobody is shut out for good; one
  keyboard, one job; what a message says of the job is so; a text arrives whole.
* An attempt: what is sent is what it fetched, DONE means all of it, no child
  outlives its call, nothing over the cap is fetched, the breaker opens for
  failures of one window only, and the job ends.

`PROJECT.json` lists the hazards line by line, with the properties that watch
each of them, and the two that no property covers (the TTL of a ledger entry against
the length of the queue, and ffmpeg's process).

## Modules

| module | what it is |
|---|---|
| `JobLifecycle` | the core: bot, queue, runs, reapers and clock around one row per job |
| `JobStatus` | the abstract specification: what the table promises its readers |
| `JobLifecycleProofs` | the theorems about `JobLifecycle`, and that it implements `JobStatus` |
| `JobLifecycleLimits` | three more theorems: the cap, the age of a running job's row, one delivery |
| `MCJobLifecycle` | instances for TLC |
| `TempLinks` | directory, link, request and cleanup cycle |
| `Ticket` | the abstract specification of a link: what it promises to who holds it |
| `TempLinksProofs` | the theorems about `TempLinks`, and that it implements `Ticket` |
| `Progress` | one placeholder: reporter, hook thread, pub/sub, updater, watchdog, cancel button, restarts |
| `Placeholder` | the abstract specification of the message: what it may come to read, and what stays |
| `ProgressProofs` | the theorems about `Progress`, and that it implements `Placeholder` |
| `RateLimit`, `PostText` | the counters at the door; the cutting of a text, as a function |
| `Intake` | the bot's handlers from the link to the queue, over the two modules above |
| `IntakeProofs` | the theorems about `Intake`, `RateLimit` and `PostText` |
| `Downloader`, `Formats` | calls of yt-dlp with breaker, cookies and child process; the size estimate, as a function |
| `Attempt` | a job in the worker, attempt after attempt, over the two modules above |
| `Parcel` | the abstract specification of a delivery: what one job brings to the chat |
| `AttemptProofs` | the theorems about `Attempt`, `Downloader` and `Formats`, and that `Attempt` implements `Parcel` |
| `AttemptEnds` | why a job ends: the variant behind `EveryJobEnds` |
| `MCTempLinks`, `MCProgress`, `MCIntake`, `MCAttempt` | instances for TLC |

The modules meet in the job: `Intake` ends where its row is enqueued, `JobLifecycle`
has the row and the queue, `Attempt` what a run does between loading and saving
the row, `Progress` what the user reads of it, `TempLinks` what becomes of a link.
Each of them models the others' steps it can observe (a retry, a crash, a timeout)
by their outcomes.

### JobLifecycle

| variable | the code |
|---|---|
| `row[j]` | `status`, `status_version`, age of `updated_at`; `by_reaper` is the error message only `_reap` writes |
| `enq[j]` | where `execute` of the enqueue use case stands between its commit, the publish and the release |
| `arq[j]` | queue entry, in-progress key, tries |
| `run[w]` | the coroutine `process_download_job` in a slot: the next await, the entity's version, `job_try`, its running time; `hop` is whether this run moved the row to PROCESSING itself |
| `flag`, `ledger` | `cancel:{id}` and `delivered:{id}` |
| `deliveries`, `notices`, `excused`, `revived` | history only; no guard reads them |

Every await on Postgres, Redis or Telegram is an action, so anything can happen
between two of them. `Load` is `execute` up to the branch of `_guard_replay`;
`Transition` and `LostRace` are `_transition_to`; `CheckLedger` is
`_finish_if_delivered`; `Analyze`, `Download`, `Deliver`, `Record`, `PersistDone`
follow `_download_and_deliver` and `_complete`; `DoneConflict` and `Overwrite`
are the two halves of `_persist_done`; `SaveCancelled`, `SavePermanent`,
`SaveExhausted` share `_save_unless_terminal`; `Raised` is the `except` clause
of the task, `TerminalGet` the beginning of `mark_terminally_failed`. `Crash`,
`Shutdown` and `TimesOut` are the three ways a coroutine ends without a handler:
a killed process leaves the in-progress key, SIGTERM gives the job back, and the
arq timeout drops it, the row staying PROCESSING in all three. `Reap` is one
UPDATE over all old rows and leaves `status_version` alone, as the code does.

arq is external and modelled from how the code uses it: at most
`JOB_MAX_RETRIES + 1` tries, an in-progress key that excludes a second run until
it lapses, `job_timeout`, `retry_jobs` on shutdown.

### JobStatus

Seven actions on three variables. It is weaker than the state diagram of
`docs/09-queue-and-workers.md` where the code is: a verdict of the reaper can be
taken back (`Revive`) or confirmed (`Seal`), and FAILED gives way to a delivery
(`Succeed`). The refinement mapping is `Promise` in `JobLifecycle`.

### TempLinks

| variable | the code |
|---|---|
| `status[j]` | whether the row of the job is over (the details are in `JobLifecycle`) |
| `run[j]` | the attempt: reset, fill, deliver, send; its running time; the number of attempts |
| `disk[j]` | `STORAGE_PATH/jobs/<id>`: is it there, is the file in it, how old is its mtime |
| `link[l]` | a row of `temp_links`; `try` is the attempt that issued it (history) |
| `ledger` | delivered jobs, as above |
| `req[r]` | a request inside the handler and the entity it read |
| `cleaner` | where `_run_cycle` stands and which rows and directories it has in hand |
| `grants`, `revoked` | history; `revoked` is an operator's `UPDATE` |

A file's name comes from the media, so every attempt of a job writes the same
path and one `file` bit per job is enough. `Deactivate`, `ListInactive`, one
`RemoveFile` or `RemoveFails` per link, `StartSweep`, `Look`, `Judge`, `EndCycle`
are the statements of a cycle; `CycleFails` is its `except`. A request reads the
row (`Arrive`), looks at the file (`CheckFile`), registers (`Register`, one
UPDATE ... RETURNING) and is served. `Judge` reads the row of the job and removes
the directory in one step: nothing starts on a job that is over, so its status
cannot change in between. One clock serves Postgres, the api and the volume.

### Ticket

A link of its own, with neither rows nor requests nor cycles: not issued, due, or
over; the downloads spent; whether its file is there; and whether its job delivers
again (`doubled`). One step of `TempLinks` may move many links (a tick lets several
expire, a sweep takes the file of all of one job), so a step of `Ticket` is a step, or
none, of each. A download is spent only on a due link with its file, unless it is
doubled; a file goes only from a link that is over or doubled. The mapping is
`Promise` in `TempLinks`; `kept` and `doubled` are read off the directory and the
attempts of the link's job once the link is issued.

### Progress

| variable | the code |
|---|---|
| `intake`, `press` | `handle_link` around the enqueue and `reporter.start`; the handler of the cancel button |
| `job`, `hook` | the worker's coroutine from await to await; the thread of the download hook |
| `hash`, `meta`, `flag`, `event` | `progress:{id}`, `progress_meta:{id}`, `cancel:{id}` with their expiry; an unread message of `progress:events` |
| `entry`, `tomb`, `loop`, `dog` | `_ActiveJob` and tombstone; where the pub/sub loop and the watchdog loop stand |
| `shown` | what the message reads: a caption, the refusal, or nothing because it is deleted |
| `delivered`, `unsure`, `accepted`, `spoiled`, `stranded` | history only |

`accepted` is a cancel whose flag an attempt has yet to check, until the flag expires or
a check misreads it. One that is pressed past the last check, once the work is under way,
may be acknowledged and come to nothing: `AcceptedCancelStops` does not speak of it.

An event carries the id of a job and the handler reads the hash when it comes to
it, so unread events are one bit. `_apply_caption` is an action that ends
in one of five results: nothing new, edited, refused by Telegram, edited but not
heard, or the message is gone. The reporter's writes are a pipeline without a transaction,
so an error leaves nothing, or everything but the PUBLISH. The debounce of the
reporter never drops anything: the hook writes past it and a retry waits longer.

### Placeholder

The message alone: what it reads (`screen`), whether media was sent, whether an
attempt could not tell so (`unsure`), whether the user asked to cancel, and whether
anything happened that may take a failure off the screen (`spoiled`). "Done" needs a
delivery, "cancelled" a tap, "failed" no delivery or a doubt about one, and a failure
that nothing spoiled is the last the message says. The updater's table, the keys, the
loops and the restarts are invisible. The mapping is `Promise` in `Progress`.

### RateLimit, PostText, Intake

`RateLimit` has one counter and its remaining life per layer and user; the Lua
script is one step (`Charge`), its five keys are not. `WavePast` is the fail-open
branch: the request goes on whether or not the script ran, and the history `waived`
counts it, so that `passed` is all that got past a window. `Intake` runs message
handlers in `Slots`: `Check` is one layer of `evaluate`, `Notify` and `Tell` the
throttled notice, `ReadCache` and `Fetch` the analysis. The answer is a keyboard
(`picker`, with handlers in `Taps`) or an instant job (`post`). `picker.state` is
`req:{id}`; `LoadState`, `CreateJob`, `Publish`, `DeleteState`, `ShowStarted` are the
awaits of `handle_download_callback`, and two taps may interleave at each of them. A
publish has the four outcomes of `enqueue_or_release` (`Outcomes`): taken, released,
stuck in PENDING, or `unheard`, where it raised although the queue has the entry, and
the release failed or came after the worker; `JobLifecycle` has the same four, step by
step. `post` has the order of `AutoEnqueueDownloadUseCase` (`CreateInstant`,
`PublishInstant`, then `StoreText`), which the delivery may overtake. `BotStops` ends
all handlers where they are, between any two awaits, and leaves what Redis, Postgres,
the queue and Telegram have. `PostText` translates `_split_chunks` on
sequences of letters, spaces and line ends; `SendChunk` uses it message by message.

### Downloader, Formats, Attempt

`Downloader` follows `_with_cookie_fallback`, `_trip_if_open`, the run of the child
and the breaker: `INCR` and `EXPIRE` are two steps (`Increment`, `Arm`), SET NX the
third (`Trip`). A child is in `child` until it is reaped, whoever gave up on it.
`Formats` translates the two sides of one number: `Estimate` is
`_real_video_size_for_height`, `Fetched` what yt-dlp makes of the selector string
(external, from `_format_spec_for_option`). `Attempt` runs `process_download`:
`PickUp`, `Extract` and `PickOption`, `Probe` and `CheckSize` with `reset_job_dir`, the ways to the files
(`FetchPhotos`, `ReExtract`, `FetchPost`, `StartVideo`, `StartPostVideos`,
`DownloadDone`), `MakeCompatible`, `Route`, one `Sent` or `NotSent` per upload,
`SendText`, `Record`, `Save`. A file in `dir` is of a finished download, of one under
way, or left by an earlier call; `chat` counts what the user received.

### Parcel

What arrives, with no attempts, uploads or ledger: files in order, each once, or one
link to all of them, and nothing once the job is over. An excuse (an unheard upload, a
half-sent gallery, a lost entry, a crash before the entry) frees what comes after it
from the order, not from the rest: whoever holds the job for delivered has sent all of
it (`Settle`), and DONE follows from that alone (`Finish`). The mapping is `Promise` in
`Attempt`.

## Runs

| run | instance | shows |
|---|---|---|
| `race` | 1 job, 2 slots, 2 tries | the optimistic lock, delivery, notices, the refinement of `JobStatus` and release of the row in every interleaving of two overlapping runs with everything else |
| `cap` | 2 jobs, 1 slot, cap 1 | the cap, except for rows that were reaped and revived |
| `links` | 1 job run twice, 2 links, 1 request | files of due links, slots, continuations, and that every link is a `Ticket` |
| `budget` | 1 link of 2 downloads, 2 requests | concurrent registration |
| `files_go` | 1 job run twice, 2 links, LIMIT 1 | liveness of cleanup |
| `placeholder` | 1 placeholder, 2 tries, 1 failure of anything | what the user reads is a run of `Placeholder`; cancelling, and that the placeholder goes |
| `intake` | 2 users, 2 handlers, 2 layers, 2 taps, 84 texts, 1 failure or stop of the bot | windows, notices, double taps, the text and its button |
| `attempt` | 1 job of 2 tries, another caller, 2 files, 9 formats, 1 failure | the way of the files as a run of `Parcel`, the breaker, the child, the size gate, the end of the job |
| `cap_revived`, `terminal_once`, `running_reaped`, `live_file` | as the first rows | a sentence of the documentation that the code does not keep |

**Bounds.** One job suffices for every property of `race`: jobs meet only in the
cap and in the slots, and two slots are needed for two runs of one job. Two tries
separate a first try, a last try and a restart in between (a shut-down run comes
back as the next try). Ages and timeouts are in ticks of the smallest size that
respects the validated relation (`OrphanAge >= 1.5 JobTimeout`,
`SweepAge >= TTL + JobTimeout`), and with equality where that is the dangerous
case. An age stops growing where nothing compares it any more (`AgeLimit`,
`Older`). Two links are needed for a second link of one file, two requests for
the last slot, and `Limit = 1` with two links for rows hidden by LIMIT 500.

In `Progress`, `Intake` and `Attempt` a failure of Redis, Telegram, Postgres or a
process is counted and capped by `MaxFaults`; one is enough for every excuse a
property names, and the theorems hold for any number. (A retryable error of a
download, a refused upload, an expired key and a second tap are not failures and
are not capped.) In `Intake` the process is the bot (`BotStops`). Telegram hands the bot
an update once; a tap it had not fetched when it stopped waits for it. `Warn = 1`, `Drop = 2` and the TTLs of 1 and 2 are the smallest
with the validated order. Placeholders share only the loop, which may be late
anyway. `Intake` follows one answered link at a time and lets the others come to
rest first (`Quiet`): jobs of other messages are in `active`, which starts
anywhere between 0 and the cap. Layers of limits 1 and 1, one personal and one
shared, with windows of 1 and 2 ticks, let a window end between two layers. Chunks
of 4 characters and texts of 3 and 6 meet every branch of `_split_chunks`.
`Callers` has one other job, at work while this one is at its first calls
(`Elsewhere`); it only downloads, as a call that does not has less to go wrong; the clock of `Attempt` stands during delivery, where nothing is timed.
The nine formats reach every round of the selector; sizes are small numbers since
only their order and sums matter.

Deadlock is checked in every run but `attempt`, which ends with its job: nothing
remains to happen then.

**Fairness.** In `JobLifecycle` only the clock, the two reapers (an endless loop
with a catch-all, a restart policy on the container) and the arq timeout are
fair. The bot may stop, the queue may lose entries, runs may be cut for ever.
In `TempLinks` additionally a cycle goes on once started (weak fairness), and the
statements that may fail (`ListInactive`, `Look`, `Judge`) succeed if they are
tried again and again (strong fairness: the next cycle is their retry). Nothing
is assumed of the removal of single files. The api needs no fairness.
In `Progress` the clock, the bot's event loop (it comes back after a stop and runs
what is due), the worker's attempts (arq's timeout ends them) and the hook thread's
pending write are weakly fair; users, Telegram and Redis owe nothing. In `Intake`
only time passes. In `Attempt` the worker goes on with the job (weak fairness of
all its steps together); the clock and other callers owe nothing.

## Findings

* `cap_revived`: the cap is called a hard contract; a worker that read the row
  before the reaper failed it takes it back to PROCESSING, above the cap.
* `terminal_once`: the terminal state is said to be written exactly once;
  `_persist_done` overwrites FAILED by design, and a reaped row can be revived.
* `running_reaped`: a running job is said never to be reaped; a restart resumes
  a PROCESSING row without refreshing `updated_at`.
* `live_file`: a live link's file is said never to be removed; a link whose
  message could not be sent shares its path with the link of the retry.

Smaller disagreements that a property states as an excuse, not as a run:

* `_handle_cancellation` takes the placeholder for correct already; a DOWNLOADING
  the worker writes after the bot's CANCELLED overwrites it (`OnlyLateWritersReopen`).
* The hook thread outlives a download that is given up (`LateHook`), and
  `reporter.start` may come after the job's end (`LateStart`).
* The comment in `_finalize` (progress_updater.py:374) says that a failed caption is
  kept and the watchdog clears it away after `drop_after`. The job is forgotten there, so
  the watchdog never meets it: the caption stays for good. And it is forgotten without
  a tombstone, so a late report opens it anew (`spoiled`).
* The watchdog's notice may land on a failure; a stale notice stays until the caption
  changes, as `last_caption` is not reset.
* A placeholder whose last edit or deletion Telegram refuses, or whose `reporter.start`
  or meta is lost, is let go of (`stranded`).
* Two taps that read the request state before either deletes it start two jobs that
  share one message (`picker.overlap`).
* A bot that is stopped between the enqueue and the delete of the request state
  (download.py:67, :90), or whose delete fails, leaves a keyboard that starts the
  download again (`picker.kept`). A publish that raises over an entry the queue has
  taken reads as an error while the job runs (`picker.unheard`).
* A notice that Telegram refuses, or that is lost with the bot between the claim
  (links.py:90) and the send (:105), still holds the claim, and the user hears nothing
  until it expires (`heard = "lost"`).
* The docstring of `downloads.py` (:7) has a link deactivated when its limit is
  reached, docs/10-temp-links-and-delivery.md:147 says "Atomic increment +
  deactivate-on-cap", and section 2.5 of docs/adr/0008-audit-top5-fixes.md (:129-136)
  quotes an UPDATE that sets `is_active` to false at the cap. `try_register_use` and
  `register_use` leave `is_active` alone, as docs/10 itself says at :132, :182 and :277,
  and `ContinuationIsServed` rests on that: with the quoted UPDATE, the mutant
  `FaultyRegisterRevokes`, a download of the last slot could not be finished.
* docs/36-rate-limiting.md:104 chooses a "Token bucket, not fixed-window", for "no
  edge-of-window stampedes", and the docstring of `redis_rate_limit_gate.py` (:1) speaks
  of a leaky token bucket. The script counts fixed windows (INCR, EXPIRE at the first):
  two limits may pass in a moment, at the end of one window and the beginning of the
  next. `WindowLetsLimitPass` is a promise about one window.
* The docstring of `DownloadTimeoutError` (exceptions.py:84-90) says that a download
  which timed out cannot be cancelled by force and is still winding down. That was so
  of a thread; `_run_child` (ytdlp_runner.py:217-263) kills the process group of the
  child and waits for it, which is what `ChildDiesWithItsCall` says.
* A cached analysis has no description, so no text button; neither has a job that
  is delivered before its text is stored.
* A request that a later layer refuses stays charged in the earlier ones.
* INCR and EXPIRE of the breaker are two commands: a crash between them leaves a
  count that never expires (`unarmed`).
* `_real_video_size_for_height` says it mirrors the selector; without an m4a sound,
  with unpublished sizes or muxed formats it does not (`Ordinary`).
* What a call with rejected cookies left may be delivered with the files of the
  call without (`fellback`).

What does hold, and is checked instead: `CapHoldsForUnrevived`, `DoneIsFinal`
with `FailedIsLeftOnlyForDelivery`, `OwnAttemptIsNotReaped`, `DueLinkHasFile`
(for jobs that delivered once).

## Proofs

All theorems are about `Spec`, for any constants that satisfy the assumptions of
the module; none uses fairness.

`JobLifecycleProofs`. `TypeCorrect` is proved action by action. The invariant
the rest needs is `LockInv`:

* `RowOK`: every write of `update()` leaves version 0 behind, so a row at version 0
  is one the code has not written since it was inserted (at most the reaper has);
* `EntityOK`: a version in hand is never ahead of the row, so a stale entity cannot
  become current again; a run about to move the row to PROCESSING holds version 0;
  and a run that holds the current version is right about the status, or the
  reaper failed the row behind its back;
* `DeliveryOK`: a ledger entry, a DONE row, and a run past the delivery each mean
  that the media was sent.

`DoneOnlyIfDelivered` and `CurrentEntityIsTrue` alone are not inductive: a run
about to write relies on what it read several steps ago. To keep the proof short,
`StepShape` classifies what any step does to the rows (nothing, one move of one
row by the holder of its version, or one sweep of the reaper) and the lemmas about
entities, deliveries and refinement argue from that classification instead of from
thirty actions. `DoneStays` and `FailedIsLeftOnlyForDone` are action properties
from the same invariant; `StatusPromiseKept` maps each shape to an action or a
stutter of `JobStatus`. `OneNotice` has an invariant of its own: a run on its way
to a notice has sealed the row, and a sealed row is never sealed again.

`JobLifecycleLimits`. The cap: `StepRevives` says that a step which is no insert
makes at most one row active, and that the job of that row is revived by it
(this rests on `LockInv`: a run about to write PROCESSING with a current version
has a PENDING row or a reaped one), so the set of unrevived active jobs only
shrinks. The age: `AgeInv` says that a row its own run took to PROCESSING has not
aged longer than the run has lasted, since every write that leaves PROCESSING
refreshes `updated_at`; arq's timeout and `OrphanAge >= 1.5 * JobTimeout` do the
rest. One delivery: `Once(j)`, for a job that nothing excused, says that it has at
most one run, that this run holds the in-progress key, that media which was sent is in the
ledger or its run is about to record it, and that a run which meets sent media is a
retry that reads the ledger first (`Careful`). `Elsewhere` frames every step that
is about another job.

`TempLinksProofs`. `StepGrows` collects what no step takes back (rows, attempts,
expiry, a row switched off). `DiskInv` says that a directory under an attempt is
no older than the attempt, and that a directory the cleanup worker has stat()ed as
old is still old when it judges it. `LinkInv` says that a row is inactive only when
it expired or was revoked, that the rows a cycle has in hand are inactive, and that
the file of a link whose job delivered once is there while the link is due and is
younger than the link plus one attempt. With `SweepAge >= TTL + JobTimeout` (the
code adds an hour to the TTL, so this holds for a `JOB_TIMEOUT_SECONDS` of up to an
hour) the sweep cannot meet a due link, and the removal of single files cannot meet
one because another link of the same file would mean a second delivery. `ReqInv`
carries this to the entity a request read some steps ago, and gives
`ContinuationIsServed`; with `RevokedOK` (a row an operator switched off is inactive,
so the UPDATE finds none) it gives `SlotBuysAFile`: a download is counted for a link
whose file is there, or whose job was run again. `CountInv` (`grants = uses`) gives
`GrantsWithinBudget`. `TicketsKept`, the refinement of `Ticket`, takes each link through
the cases of a step: fresh, spent, ended, its file kept, or nothing. What is new in it is
that nothing happens to a link together with something else: a slot is taken of a due
link and nothing else moves (`TakenIsDue`, `TakenAlone`), a link ends and its file stays
(`EndsAlone`), and a file comes to the directory of an issued link only from a later
attempt (`FileCome`, `WritingOK`).

`ProgressProofs`. `Forms` says which shapes the records take together (a handler
at an edit has a caption, what the updater marks as ended is final, what is shown
came from a report). `DoneIsEarned` alone is not inductive: "done" travels from
the worker's `finishing` over the hash and the handler's caption to the screen, so
`Truth` follows it there, together with `KnownDelivery` (what an attempt believes
of the ledger), `FailureIsFinal` (a failing job is on its last legs) and
`CancelHolds` (an accepted cancel is a flag that an attempt has yet to check).
`FailureStays` needs `FailureAtRest`: a failure on the screen that nothing spoiled
means that the updater has no entry, no edit and no notice under way. `PlaceholderKept`,
the refinement of `Placeholder`, adds `Told`: a job that is not enqueued yet, or was
refused, has nothing under way in worker, hook, updater or keys, and no tap (`Unplaced`,
`Untouched`), and a cancellation that is on its way to the screen was asked for
(`CancelIsAsked`). Each action then is one step of the message or none.

`IntakeProofs`. The lemmas about `_split_chunks` come first: a text that does not
begin with a blank gives a chunk of 1 to `ChunkLimit` characters and a shorter rest
that does not begin with one either (`ChunkTypes`; minimal and maximal elements of a
set of positions exist because < is well-founded on Nat). `Door` collects types,
`Paced` (a window let past no more than it counted, nor more than its limit, but for
what was waived), `Alone` and `Vacant` (message handlers and a followed answer exclude
one another), `Running` (the jobs of the handlers here are among those of the cap) and
`Legible`. A few lemmas say what any step of one kind leaves in place, and the actions
are reduced to them; a stop of the bot has lemmas of its own, as it moves every handler
at once. `OneTap` is the strengthening for double taps: without an overlap, a kept state
or an unheard publish at most one tap is between reading the state and deleting it, and
a job that exists is that tap's, or took the state with it. `ReadersGetThePost` is about words, which
`PostText` cuts by a recursion no prover here unfolds to its end. It is proved from one
cut: the chunk, then blanks, then the rest make the text that is cut (`CutInTwo`). A
text is `MadeOf` itself (`WholeText`), and stays so when its last part is cut; `Reading` carries
this from message to message: what was sent and what is still to come make the
stored text. `Traced` says which taps the jobs and refusals come from,
`Promised` that a claim whose holder heard nothing, and whose notice is not lost, has a
handler about to tell.

`AttemptProofs`. `CountExpires` (a count in Redis has an expiry, or one is about to be set,
or it was lost) gives `TripsAreEarned` (that no success lies between the failures is not in it: a
success drops the count and its age); `Swept` (what is in the directory, place by
place) gives `StraysExcused`; `Complete` and `Once` follow the files of the attempt
from one to the next (what is sent so far, and how often, with or without an
excuse). `ParcelsArrive`, the refinement of `Parcel`, needs the chat to be known exactly
where there is no excuse: `Neat` says, place by place, that the user has each of the
files before the one in hand once and no other, or all of them, or the link alone, and
that an attempt which meets a ledger entry ends without sending. `OversizeRefused` rests on `EstimateIsExact`: for an ordinary set of
formats the first inhabited round, the tallest video and the sound are the same on
both sides, whatever the sizes.

`AttemptEnds`. What a job has left is five numbers: its tries, the places to the end of
the attempt, files, uploads of one file, the steps to the end of a call. `WorkIsFinite`: every
step of `PickUp`, `DownloadStep` and `DeliveryStep` lowers them in the lexicographic
order, in which there is no infinite descent, and no crash, timeout, tick or other
caller raises them; `QueuedIsNotStuck`: a job in the queue has a try left. What is
missing to `EveryJobEnds` is that the worker can move at every other place and, by its
fairness, does: that is TLC's.

Each refinement is proved for `Spec` without fairness, and the temporal formula itself
is the theorem: the initial states map to initial states, and every step to a step
of the abstract specification or a stutter.

**Only model-checked**: the liveness properties `RowsAreReleased`, `FilesGo`,
`TrackedPlaceholderSettles`, `NobodyIsShutOut` and `EveryJobEnds`, which are beyond
the prover (of the last, the variant is proved). Every other property of a passing run is a theorem.

## Plan

Done: the core (`JobLifecycle`, `JobStatus`), `TempLinks`, `Progress`, `Intake` with
`RateLimit` and `PostText`, `Attempt` with `Downloader` and `Formats`, and the proofs
about all of them; the abstract specifications `Ticket`, `Placeholder` and `Parcel` with
their refinements.

Left:

1. One abstract specification of a request, from the link to what is in the chat, which
   `JobStatus`, `Placeholder` and `Parcel` would be views of; and variants like the one
   of `AttemptEnds` for the release of rows and for the placeholder.
2. The names in a gallery and in a zip, and `mobile_compat`'s temporary files.
3. Two attempts of one job at once over one directory (a run that overlaps the
   next after a lapsed in-progress key), which `JobLifecycle` has for the row only.

## Not modelled

* The parsing of what yt-dlp and the sites answer, option dictionaries, the line
  protocol of the child, codec decisions of ffmpeg, captions, keyboards' labels and
  log lines: data that no property tells apart. Their trace is an outcome.
* The process of ffmpeg, which the code does not kill on a timeout.
* Waiting times: a RetryAfter of more than a minute becomes a retry of the job whose
  delay may be shorter than what Telegram asked for; delays are not modelled.
* The expiry of ledger entries (longer than all tries of a job; only a queue that is
  behind by more than an hour reaches it).
* Metrics, logging, health (they decide nothing), composition (wiring), the internal
  test endpoint (the same enqueue path), backup and deployment scripts, migrations
  (run before the containers).
