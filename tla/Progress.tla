------------------------------ MODULE Progress ------------------------------
(***************************************************************************)
(* The placeholder message of one download job: the bot sends it, the       *)
(* worker reports stages through Redis, and the bot's ProgressUpdater edits *)
(* it, warns when nothing is heard, and removes it.                         *)
(*                                                                         *)
(*   bot       intake   handle_link: enqueue, reporter.start, cancel button *)
(*             press    the handler of the cancel button                    *)
(*             entry    the _ActiveJob of the updater, tomb its tombstone   *)
(*             loop     the pub/sub loop, dog the watchdog loop             *)
(*   worker    job      process_download, one attempt after the other       *)
(*             hook     the thread that forwards yt-dlp's percent           *)
(*   Redis     hash     progress:{job_id}, with the ticks it has left       *)
(*             meta     ticks progress_meta:{job_id} has left               *)
(*             flag     cancel:{job_id}                                     *)
(*             event    a message of progress:events not yet consumed       *)
(*   Telegram  shown    what the placeholder reads                          *)
(*                                                                         *)
(* Placeholders share nothing but the pub/sub loop, which the others only   *)
(* delay, and a step of the loop may come late here anyway: one is enough.  *)
(* An event carries the job id alone, and a handler reads what the hash     *)
(* holds by then, so unread events are one.                                 *)
(***************************************************************************)
EXTENDS Naturals

CONSTANTS
  Levels,       \* percentages of a download the caption tells apart
  MaxTries,     \* JOB_MAX_RETRIES + 1
  MaxFaults,    \* bound: failures of Redis, Telegram, Postgres and the processes
  Warn,         \* PROGRESS_STALE_WARN_SEC, in ticks
  Drop,         \* PROGRESS_STALE_DROP_SEC, in ticks
  HashTTL,      \* PROGRESS_TTL_SEC, in ticks
  MetaTTL,      \* PROGRESS_META_TTL_SEC, in ticks
  Tombstone     \* _TOMBSTONE_TTL_SEC, in ticks

ASSUME ConstantsAssumption ==
  /\ 0 \in Levels /\ Levels \subseteq Nat
  /\ MaxTries \in Nat \ {0} /\ MaxFaults \in Nat
  /\ {Warn, Drop, HashTTL, MetaTTL, Tombstone} \subseteq Nat \ {0}

(* ProgressSettings says so of the two pairs. *)
ASSUME OrderAssumption == Warn < Drop /\ HashTTL < MetaTTL

VARIABLES intake, press, entry, tomb, loop, dog, up, job, hook, hash, meta, flag, event, shown, faults,
  delivered,  \* history: the media reached the user
  unsure,     \* history: an attempt could not tell, or not tell the next, that it delivered
  accepted,   \* history: a cancel whose flag an attempt has yet to check
  spoiled,    \* history: something happened that may take a failure off the screen
  stranded    \* history: the updater let go of a placeholder that still reads as busy

bot     == <<entry, tomb, loop, dog, up>>
redis   == <<hash, meta, event>>
outcome == <<delivered, unsure>>
history == <<outcome, accepted, spoiled, stranded>>
vars    == <<intake, press, bot, job, hook, redis, flag, shown, faults, history>>

-----------------------------------------------------------------------------
(* Stages and captions. *)

Working  == {"analyzing", "downloading", "uploading"}
Terminal == {"done", "cancelled", "failed"}

\* render_caption: a percentage that moves is only in the caption of a download.
Caption   == [stage : Working \cup Terminal, level : Levels]
Text(stage)  == [stage |-> stage, level |-> 0]
Percent(l)   == [stage |-> "downloading", level |-> l]
NoCaption == Text("none")
Stale     == Text("stale")
Refused   == Text("refused")
Gone      == Text("gone")
Screens   == Caption \cup {Stale, Refused, Gone}

Ends(caption) == caption.stage \in Terminal
Reads(stage)  == shown.stage = stage
Settled == shown.stage \in {"gone", "refused", "failed"}

Entry == [in : BOOLEAN, silent : Nat, warned : BOOLEAN, ended : BOOLEAN,
          last : Caption \cup {NoCaption}]
Hash  == [caption : Caption \cup {NoCaption}, left : Nat]
Loop  == [pc : {"poll", "read", "edit", "hold"}, caption : Caption \cup {NoCaption}]

Checking == {"new", "queued", "analyzing", "check1", "announcing", "check2"}
Sending  == {"fetching", "processing", "delivering", "saving", "finishing"}
Job == [pc : Checking \cup Sending \cup {"cancelled", "failing", "over"},
        tries : Nat, ledger : BOOLEAN]

TypeOK ==
  /\ intake \in {"enqueue", "start", "over"}
  /\ press \in {"none", "flag", "report", "over", "barred"}
  /\ entry \in Entry /\ tomb \in Nat
  /\ loop \in Loop
  /\ dog \in {"sleep", "warn", "drop"}
  /\ up \in BOOLEAN
  /\ job \in Job
  /\ hook \in {"idle", "busy"}
  /\ hash \in Hash /\ meta \in Nat
  /\ flag \in BOOLEAN /\ event \in BOOLEAN
  /\ shown \in Screens /\ faults \in Nat
  /\ delivered \in BOOLEAN /\ unsure \in BOOLEAN
  /\ accepted \in BOOLEAN /\ spoiled \in BOOLEAN /\ stranded \in BOOLEAN

Fresh == [in |-> TRUE, silent |-> 0, warned |-> FALSE, ended |-> FALSE, last |-> NoCaption]
Out   == [Fresh EXCEPT !.in = FALSE]
Poll  == [pc |-> "poll", caption |-> NoCaption]

Init ==
  /\ intake = "enqueue" /\ press = "none"
  /\ entry = Out /\ tomb = 0 /\ loop = Poll /\ dog = "sleep" /\ up = TRUE
  /\ job = [pc |-> "new", tries |-> 0, ledger |-> FALSE] /\ hook = "idle"
  /\ hash = [caption |-> NoCaption, left |-> 0] /\ meta = 0
  /\ flag = FALSE /\ event = FALSE
  /\ shown = Text("analyzing") /\ faults = 0
  /\ delivered = FALSE /\ unsure = FALSE
  /\ accepted = FALSE /\ spoiled = FALSE /\ stranded = FALSE

-----------------------------------------------------------------------------
(* RedisProgressReporter. A pipeline without a transaction, whose RedisError *)
(* is swallowed: nothing may arrive, or all but the PUBLISH. A message is    *)
(* lost on nobody's ears when the bot is down.                               *)

Fault == faults < MaxFaults /\ faults' = faults + 1
Fine  == UNCHANGED faults

Put(caption) ==
  /\ hash' = [caption |-> caption, left |-> HashTTL]
  /\ \/ Fine /\ event' = (event \/ up)
     \/ Fault /\ UNCHANGED event

\* No two updates of one stage follow so soon that the second is debounced: the
\* hook writes past the debounce, and a retry waits longer.
Report(caption) ==
  /\ \/ Put(caption)
     \/ Fault /\ UNCHANGED <<hash, event>>
  /\ UNCHANGED meta

\* Whoever reports after a failure was.
Spoils == spoiled' = (spoiled \/ Reads("failed") \/ hash.caption.stage = "failed")

-----------------------------------------------------------------------------
(* The bot's handlers: links.py, AutoEnqueueDownloadUseCase, cancel_job.py. *)

Enqueue ==
  /\ intake = "enqueue" /\ up
  /\ intake' = "start"
  /\ job' = [job EXCEPT !.pc = "queued"]
  /\ UNCHANGED <<press, bot, hook, redis, flag, shown, faults, history>>

\* Over the cap, or the queue did not take it; the edit itself may fail.
Refuse ==
  /\ intake = "enqueue" /\ up
  /\ intake' = "over" /\ press' = "barred"
  /\ \/ Fine /\ shown' = Refused /\ UNCHANGED stranded
     \/ Fault /\ stranded' = TRUE /\ UNCHANGED shown
  /\ UNCHANGED <<bot, job, hook, redis, flag, outcome, accepted, spoiled>>

\* reporter.start, whose job may be running by now, or over.
Start ==
  /\ intake = "start" /\ up
  /\ intake' = "over"
  /\ Spoils
  /\ \/ meta' = MetaTTL /\ Put(Text("analyzing")) /\ UNCHANGED stranded
     \/ Fault /\ meta' = MetaTTL /\ UNCHANGED <<hash, event, stranded>>
     \/ Fault /\ stranded' = TRUE /\ UNCHANGED redis
  /\ UNCHANGED <<press, bot, job, hook, flag, shown, outcome, accepted>>

\* edit_reply_markup comes last, and Telegram may refuse it: then nobody taps.
HasCancelButton == intake = "over" /\ press = "none" /\ shown # Gone

\* The owner taps the button and is told that the job is being cancelled.
Tap ==
  /\ HasCancelButton /\ up
  /\ press' = "flag"
  /\ UNCHANGED <<intake, bot, job, hook, redis, flag, shown, faults, history>>

RequestCancel ==
  /\ press = "flag" /\ up
  /\ press' = "report"
  /\ \/ Fine /\ flag' = TRUE /\ accepted' = (job.pc \in Checking /\ ~job.ledger)
     \/ Fault /\ UNCHANGED <<flag, accepted>>
  /\ UNCHANGED <<intake, bot, job, hook, redis, shown, outcome, spoiled, stranded>>

ReportCancel ==
  /\ press = "report" /\ up
  /\ press' = "over"
  /\ Report(Text("cancelled"))
  /\ Spoils
  /\ UNCHANGED <<intake, bot, job, hook, flag, shown, outcome, accepted, stranded>>

-----------------------------------------------------------------------------
(* The worker: ProcessDownloadUseCase. *)

JobAt(pc) == job.pc = pc
JobTo(pc) == job' = [job EXCEPT !.pc = pc]
Chat      == <<intake, press, bot, shown>>

FaultyPickUp == \* a retry takes the delivery of the attempt before for granted
  /\ JobAt("queued") /\ job.tries < MaxTries
  /\ job' = [job EXCEPT !.tries = @ + 1, !.pc = IF job.tries > 0 THEN "saving" ELSE "analyzing"]
  /\ UNCHANGED <<Chat, hook, redis, flag, faults, history>>

FaultyPickUpAgain == \* a retry does not look into the ledger
  /\ JobAt("queued") /\ job.tries < MaxTries
  /\ job' = [job EXCEPT !.tries = @ + 1, !.pc = "analyzing"]
  /\ UNCHANGED <<Chat, hook, redis, flag, faults, history>>

\* _finish_if_delivered: a retry that finds the ledger entry only saves DONE. An
\* entry that cannot be read is taken for none.
PickUp ==
  /\ JobAt("queued") /\ job.tries < MaxTries
  /\ \E found \in BOOLEAN :
       /\ found => job.ledger
       /\ job' = [job EXCEPT !.tries = @ + 1, !.pc = IF found THEN "saving" ELSE "analyzing"]
       /\ unsure' = (unsure \/ (job.ledger /\ ~found))
       /\ IF job.ledger /\ ~found THEN Fault ELSE Fine
  /\ UNCHANGED <<Chat, hook, redis, flag, delivered, accepted, spoiled, stranded>>

Emit(from, to, stage) ==
  /\ JobAt(from)
  /\ JobTo(to)
  /\ Report(Text(stage))
  /\ UNCHANGED <<Chat, hook, flag, history>>

EmitProgress ==
  \/ Emit("analyzing", "check1", "analyzing")
  \/ Emit("announcing", "check2", "downloading")
  \/ Emit("processing", "delivering", "uploading") \* after PROCESSING, at once

FaultyCheckCancel == \* the answer of is_cancelled is dropped at the second boundary
  /\ \/ JobAt("check1") /\ JobTo(IF flag THEN "cancelled" ELSE "announcing")
     \/ JobAt("check2") /\ JobTo("fetching")
  /\ UNCHANGED <<Chat, hook, redis, flag, faults, history>>

\* _check_cancel at a phase boundary. A RedisError reads as "not cancelled".
CheckCancel ==
  LET next == IF JobAt("check1") THEN "announcing" ELSE "fetching" IN
  /\ job.pc \in {"check1", "check2"}
  /\ \/ Fine /\ JobTo(IF flag THEN "cancelled" ELSE next) /\ UNCHANGED accepted
     \/ Fault /\ flag /\ JobTo(next) /\ accepted' = FALSE
  /\ UNCHANGED <<Chat, hook, redis, flag, outcome, spoiled, stranded>>

\* _handle_cancellation says nothing to the reporter: the bot has.
HandleCancellation ==
  /\ JobAt("cancelled")
  /\ JobTo("over")
  /\ \/ Fine /\ flag' = FALSE
     \/ Fault /\ UNCHANGED flag
  /\ UNCHANGED <<Chat, hook, redis, history>>

\* The download hook runs in a thread; _report_progress waits for it, unless
\* the download is given up meanwhile, which the thread outlives.
HookStarts ==
  /\ JobAt("fetching") /\ hook = "idle"
  /\ hook' = "busy"
  /\ UNCHANGED <<Chat, job, redis, flag, faults, history>>

HookWrites ==
  /\ hook = "busy"
  /\ hook' = "idle"
  /\ \E l \in Levels : Report(Percent(l))
  /\ IF JobAt("fetching") THEN UNCHANGED spoiled ELSE Spoils
  /\ UNCHANGED <<Chat, job, flag, outcome, accepted, stranded>>

Downloaded ==
  /\ JobAt("fetching") /\ hook = "idle"
  /\ JobTo("processing")
  /\ UNCHANGED <<Chat, hook, redis, flag, faults, history>>

\* DownloadTimeoutError is not retried.
DownloadTimesOut ==
  /\ JobAt("fetching")
  /\ JobTo("failing")
  /\ UNCHANGED <<Chat, hook, redis, flag, faults, history>>

\* The ledger entry may be lost; DeliveryLedger.record swallows RedisError.
Deliver ==
  /\ JobAt("delivering")
  /\ \E kept \in BOOLEAN :
       /\ job' = [job EXCEPT !.pc = "saving", !.ledger = @ \/ kept]
       /\ unsure' = (unsure \/ ~kept)
       /\ IF kept THEN Fine ELSE Fault
  /\ delivered' = TRUE
  /\ UNCHANGED <<Chat, hook, redis, flag, accepted, spoiled, stranded>>

\* A retryable error waits for the next attempt; a permanent one, or the last, fails the job.
RetryOrFail ==
  \/ job.tries < MaxTries /\ JobTo("queued")
  \/ JobTo("failing")

FaultyAttemptFails == \* reporter.fail before every retry, not in the terminal sink alone
  /\ job.pc \in {"announcing", "fetching", "delivering"} /\ hook = "idle"
  /\ RetryOrFail
  /\ Report(Text("failed"))
  /\ UNCHANGED <<Chat, hook, flag, history>>

AttemptFails ==
  /\ job.pc \in {"announcing", "fetching", "delivering"} /\ hook = "idle"
  /\ RetryOrFail
  /\ \/ JobAt("delivering") /\ delivered' = TRUE /\ unsure' = TRUE \* Telegram had taken it
     \/ UNCHANGED outcome
  /\ UNCHANGED <<Chat, hook, redis, flag, faults, accepted, spoiled, stranded>>

\* DONE cannot be persisted. On the last attempt mark_terminally_failed follows.
SaveRaises ==
  /\ JobAt("saving") /\ Fault
  /\ IF job.tries < MaxTries THEN JobTo("queued") /\ UNCHANGED unsure
                             ELSE JobTo("failing") /\ unsure' = TRUE
  /\ UNCHANGED <<Chat, hook, redis, flag, delivered, accepted, spoiled, stranded>>

PersistDone ==
  /\ JobAt("saving")
  /\ JobTo("finishing")
  /\ UNCHANGED <<Chat, hook, redis, flag, faults, history>>

Finish ==
  /\ JobAt("finishing")
  /\ JobTo("over")
  /\ Report(Text("done"))
  /\ UNCHANGED <<Chat, hook, flag, history>>

\* Nothing is reported when the row is terminal already.
Fail ==
  /\ JobAt("failing")
  /\ JobTo("over")
  /\ Report(Text("failed"))
  /\ UNCHANGED <<Chat, hook, flag, history>>

\* The process dies, and its threads; arq runs the job again if a try is left.
Crash ==
  /\ job.pc \notin {"new", "queued", "over"} /\ Fault
  /\ JobTo(IF job.tries < MaxTries THEN "queued" ELSE "over")
  /\ hook' = "idle"
  /\ UNCHANGED <<Chat, redis, flag, history>>

\* arq cancels the coroutine, not the thread, and forgets the job.
JobTimesOut ==
  /\ job.pc \notin {"new", "queued", "over"} /\ Fault
  /\ JobTo("over")
  /\ UNCHANGED <<Chat, hook, redis, flag, history>>

-----------------------------------------------------------------------------
(* ProgressUpdater: the pub/sub loop. *)

Worker == <<intake, press, job, hook, flag>>

\* The entry leaves the table; a handler in the middle of an edit still has it.
Drops  == entry' = IF loop.pc = "edit" THEN [entry EXCEPT !.in = FALSE] ELSE Out
Forget == entry' = Out /\ tomb' = Tombstone

\* What _apply_caption may come to: nothing new to say, an edit Telegram refuses
\* (RetryAfter, BadRequest), does, or does and is not heard, or a message gone.
Results(caption) ==
  IF caption = entry.last THEN {"same"}
  ELSE {"refused"} \cup (IF shown = Gone THEN {"gone"} ELSE {"edited", "unheard"})

Edit(caption, result) ==
  /\ shown' = IF result \in {"edited", "unheard"} THEN caption ELSE shown
  /\ IF result \in {"refused", "unheard"} THEN Fault ELSE Fine

\* _delete_message: the updater forgets the job even if Telegram refuses.
Delete ==
  \/ Fine /\ shown' = Gone /\ UNCHANGED stranded
  \/ Fault /\ UNCHANGED shown /\ stranded' = TRUE

TakeEvent ==
  /\ up /\ loop.pc = "poll" /\ event
  /\ event' = FALSE
  /\ loop' = IF tomb > 0 THEN loop ELSE [loop EXCEPT !.pc = "read"]
  /\ UNCHANGED <<Worker, entry, tomb, dog, up, hash, meta, shown, faults, history>>

\* A reconnect after an error of the subscription.
EventLost ==
  /\ event /\ Fault
  /\ event' = FALSE
  /\ UNCHANGED <<Worker, bot, hash, meta, shown, history>>

FaultyReadProgress == \* a hash that has expired is taken for a caption
  LET known == IF entry.in THEN entry ELSE Fresh IN
  /\ loop.pc = "read"
  /\ Fine
  /\ entry' = [known EXCEPT !.silent = 0, !.warned = FALSE]
  /\ loop' = [pc |-> "edit", caption |-> hash.caption]
  /\ UNCHANGED <<Worker, tomb, dog, up, redis, shown, history>>

\* The first half of _handle_event: both reads, the attach, the debounce.
ReadProgress ==
  LET found == hash.left > 0 /\ (entry.in \/ meta > 0)
      known == IF entry.in THEN entry ELSE Fresh IN
  /\ loop.pc = "read"
  /\ \/ ~found /\ Fine /\ loop' = Poll /\ UNCHANGED entry
     \/ Fault /\ loop' = Poll /\ UNCHANGED entry
     \/ /\ found /\ Fine
        /\ entry' = [known EXCEPT !.silent = 0, !.warned = FALSE]
        /\ \/ loop' = [pc |-> "edit", caption |-> hash.caption]
           \/ /\ known.last.stage = hash.caption.stage /\ ~Ends(hash.caption)
              /\ loop' = Poll
  /\ UNCHANGED <<Worker, tomb, dog, up, redis, shown, history>>

FaultyFinalize(caption) == \* a failed job stays in the table of active ones
  /\ entry' = [entry EXCEPT !.ended = caption.stage # "failed"]
  /\ loop' = IF caption.stage = "failed" THEN Poll ELSE [Poll EXCEPT !.pc = "hold"]
  /\ UNCHANGED tomb

\* _finalize up to its sleep. A failed job leaves no tombstone.
Finalize(caption) ==
  /\ entry' = IF caption.stage = "failed" THEN Out ELSE [entry EXCEPT !.ended = TRUE]
  /\ loop' = IF caption.stage = "failed" THEN Poll ELSE [pc |-> "hold", caption |-> NoCaption]
  /\ UNCHANGED tomb

\* The second half: _apply_caption, and _finalize for a terminal stage, whether
\* or not the caption could be shown.
ApplyCaption ==
  LET caption == loop.caption IN
  /\ loop.pc = "edit"
  /\ \E result \in Results(caption) :
       /\ Edit(caption, result)
       /\ \/ Ends(caption) /\ Finalize(caption)
          \/ /\ ~Ends(caption)
             /\ loop' = Poll
             /\ \/ result = "gone" /\ Forget
                \/ /\ result # "gone"
                   /\ entry' = IF result = "edited" THEN [entry EXCEPT !.last = caption] ELSE entry
                   /\ UNCHANGED tomb
  /\ spoiled' = (spoiled \/ (caption.stage = "failed" /\ dog # "sleep"))
  /\ stranded' = (stranded \/ (caption.stage = "failed" /\ shown' \notin {caption, Gone}))
  /\ UNCHANGED <<Worker, dog, up, redis, outcome, accepted>>

\* Two seconds later. The updater forgets the job even if Telegram refuses.
DeletePlaceholder ==
  /\ loop.pc = "hold"
  /\ loop' = Poll
  /\ Forget
  /\ Delete
  /\ UNCHANGED <<Worker, dog, up, redis, outcome, accepted, spoiled>>

-----------------------------------------------------------------------------
(* The watchdog loop. *)

FaultyWatchdogTick == \* a job is looked at until its notice, and no longer
  /\ up /\ dog = "sleep" /\ entry.in /\ ~entry.ended
  /\ entry.silent >= Warn /\ ~entry.warned /\ dog' = "warn"
  /\ UNCHANGED <<Worker, entry, tomb, loop, up, redis, shown, faults, history>>

WatchdogTick ==
  /\ up /\ dog = "sleep" /\ entry.in /\ ~entry.ended
  /\ \/ entry.silent >= Drop /\ dog' = "drop"
     \/ entry.silent >= Warn /\ entry.silent < Drop /\ ~entry.warned /\ dog' = "warn"
  /\ UNCHANGED <<Worker, entry, tomb, loop, up, redis, shown, faults, history>>

WatchdogWarns ==
  /\ dog = "warn"
  /\ dog' = "sleep"
  /\ \E result \in Results(Stale) :
       /\ Edit(Stale, result)
       /\ IF result = "gone"
            THEN Drops /\ tomb' = Tombstone
            ELSE entry' = [entry EXCEPT !.warned = TRUE] /\ UNCHANGED tomb
  /\ UNCHANGED <<Worker, loop, up, redis, history>>

WatchdogDrops ==
  /\ dog = "drop"
  /\ dog' = "sleep"
  /\ Drops /\ tomb' = Tombstone
  /\ Delete
  /\ UNCHANGED <<Worker, loop, up, redis, outcome, accepted, spoiled>>

-----------------------------------------------------------------------------
(* Restarts of the bot, expiry, and the clock. *)

\* Handlers in flight are gone with the process, and so are the tombstones.
BotStops ==
  /\ up /\ Fault
  /\ up' = FALSE
  /\ entry' = Out /\ tomb' = 0 /\ loop' = Poll /\ dog' = "sleep"
  /\ event' = FALSE
  /\ stranded' = (stranded \/ intake \in {"enqueue", "start"})
  /\ intake' = "over"
  /\ press' = IF intake # "over" THEN "barred" ELSE IF press \in {"flag", "report"} THEN "over" ELSE press
  /\ UNCHANGED <<job, hook, hash, meta, flag, shown, outcome, accepted, spoiled>>

\* _recover_active_jobs: every placeholder whose meta is still there, or none
\* when the scan fails.
BotStarts ==
  /\ ~up
  /\ up' = TRUE
  /\ \/ Fine /\ meta > 0 /\ entry' = Fresh /\ Spoils /\ UNCHANGED stranded
     \/ Fine /\ meta = 0 /\ stranded' = TRUE /\ UNCHANGED <<entry, spoiled>>
     \/ Fault /\ stranded' = TRUE /\ UNCHANGED <<entry, spoiled>>
  /\ UNCHANGED <<Worker, tomb, loop, dog, redis, shown, outcome, accepted>>

FlagExpires ==
  /\ flag
  /\ flag' = FALSE /\ accepted' = FALSE
  /\ UNCHANGED <<Chat, job, hook, redis, faults, outcome, spoiled, stranded>>

\* A tick is longer than any call the bot makes and than the two-second hold,
\* and longer than the hook thread waits for Redis.
Quiet ==
  /\ intake \in {"enqueue", "over"} /\ press \notin {"flag", "report"}
  /\ loop.pc = "poll" /\ dog = "sleep" /\ hook = "idle"

Down(n) == IF n > 0 THEN n - 1 ELSE 0

\* Bound: silence stops growing at the drop age.
Tick ==
  /\ Quiet
  /\ entry' = [entry EXCEPT !.silent = IF entry.in /\ @ < Drop THEN @ + 1 ELSE @]
  /\ tomb' = Down(tomb)
  /\ hash' = [caption |-> IF hash.left > 1 THEN hash.caption ELSE NoCaption, left |-> Down(hash.left)]
  /\ meta' = Down(meta)
  /\ UNCHANGED <<Worker, loop, dog, up, event, shown, faults, history>>

-----------------------------------------------------------------------------

HandlerStep ==
  \/ Enqueue \/ Refuse \/ Start
  \/ Tap \/ RequestCancel \/ ReportCancel

JobStep ==
  \/ PickUp \/ EmitProgress \/ CheckCancel \/ HandleCancellation
  \/ Downloaded \/ DownloadTimesOut \/ Deliver \/ AttemptFails
  \/ SaveRaises \/ PersistDone \/ Finish \/ Fail \/ Crash \/ JobTimesOut

LoopStep == TakeEvent \/ ReadProgress \/ ApplyCaption \/ DeletePlaceholder
DogStep  == WatchdogTick \/ WatchdogWarns \/ WatchdogDrops

Next ==
  \/ HandlerStep \/ JobStep
  \/ HookStarts \/ HookWrites
  \/ LoopStep \/ DogStep
  \/ EventLost \/ FlagExpires
  \/ BotStops \/ BotStarts
  \/ Tick

Spec == Init /\ [][Next]_vars

BotWork == BotStarts \/ Start \/ RequestCancel \/ ReportCancel \/ LoopStep \/ DogStep

\* The bot comes back and its event loop runs whatever is due in it, time
\* passes, and an attempt ends sooner or later (arq's timeout). Nothing is
\* asked of the user, of Telegram or of Redis.
Fairness ==
  /\ WF_vars(Tick)
  /\ WF_vars(BotWork)
  /\ WF_vars(JobStep) /\ WF_vars(HookWrites)

FairSpec == Spec /\ Fairness

-----------------------------------------------------------------------------
(* Safety. *)

\* "Done" reaches Redis, the updater and the chat only after the media reached
\* the user: no retry, resumed or not, makes it up.
DoneShownOnlyIfDelivered ==
  delivered \/ "done" \notin {hash.caption.stage, loop.caption.stage, shown.stage}

\* The user is told "cancelling" before anyone looks at the job. A flag that was
\* set before the last boundary of an attempt, that no check misread and no
\* expiry removed, does keep the media from being fetched and sent.
AcceptedCancelStops == accepted => job.pc \notin Sending

\* The placeholder says "failed" of a job whose media the user has only if the
\* attempt that sent it could not tell: the send raised, the ledger entry was
\* lost, or the last attempt could not persist DONE.
FailedAfterDeliveryIsExcused ==
  delivered /\ "failed" \in {hash.caption.stage, shown.stage} => unsure

\* A failure stays on the screen: _finalize takes the job out of the table, so
\* neither the watchdog nor an event touches it again, unless something else is
\* reported after the failure (reporter.start late, the hook's thread, the
\* cancel button), the bot restarts and recovers the placeholder, or an edit of
\* the watchdog was on its way.
FailureStaysOnScreen ==
  [][Reads("failed") /\ ~spoiled' => shown' = shown]_vars

LateStart == intake = "start" /\ intake' = "over"
LateHook  == hook = "busy" /\ hook' = "idle" /\ JobAt("over")

\* Only reporter.start, which runs after the job was queued, and the hook's
\* thread, which outlives a download given up, put a working stage over a final
\* one in Redis: the attempts of the worker do not. (A CANCELLED of the bot is
\* overwritten by the attempt it interrupts.)
OnlyLateWritersReopen ==
  [][hash.caption.stage \in {"done", "failed"} /\ hash'.caption.stage \in Working
       => LateStart \/ LateHook]_vars

Asked == press \in {"flag", "report", "over"}

\* The user who looks at the placeholder sees a run of Placeholder.
Promise == INSTANCE Placeholder WITH
  screen <- shown.stage, sent <- delivered, asked <- Asked

ImplementsPlaceholder == Promise!Spec

(* Liveness. *)

\* A placeholder the updater once had in its table is in the end removed, or
\* says that the job failed, whatever the worker does, across restarts of the
\* bot; the exceptions are the ones in which the updater lets go of it: Telegram
\* refused the last edit or the delete, or its key was gone when the bot came back.
TrackedPlaceholderSettles == entry.in ~> (Settled \/ stranded)
=============================================================================
