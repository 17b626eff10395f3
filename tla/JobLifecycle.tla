---------------------------- MODULE JobLifecycle ----------------------------
(***************************************************************************)
(* The life of a download job, from the row the bot inserts to the        *)
(* terminal status a worker, the bot or the cleanup worker writes.         *)
(*                                                                         *)
(*   Postgres   row       the columns of download_jobs the protocol reads  *)
(*   bot        enq       where the enqueue use case of a job stands       *)
(*   Redis/arq  arq       the queue entry, its in-progress key, its tries  *)
(*   worker     run       one record per execution slot: the coroutine of  *)
(*                        process_download_job and what it holds           *)
(*   Redis      flag      cancel:{job_id} keys                             *)
(*              ledger    delivered:{job_id} keys                          *)
(*                                                                         *)
(* Every await of the worker on Postgres, Redis or Telegram is a step of   *)
(* its own, so the reaper, the bot, another slot, a crash or the arq       *)
(* timeout can come between any two of them.                               *)
(***************************************************************************)
EXTENDS Naturals, FiniteSets

CONSTANTS
  Jobs,        \* the ids download_jobs may hand out
  Users,       \* Telegram users
  Owner,       \* Owner[j] is the user_id of job j
  Slots,       \* concurrent executions: WORKER_CONCURRENCY, over all workers
  NoJob,       \* the job of an idle slot
  MaxPerUser,  \* MAX_CONCURRENT_JOBS_PER_USER
  MaxTries,    \* JOB_MAX_RETRIES + 1
  JobTimeout,  \* JOB_TIMEOUT_SECONDS, in ticks
  OrphanAge,   \* ORPHAN_JOB_AGE_SECONDS, in ticks
  PendingAge   \* ORPHAN_PENDING_AGE_SECONDS, in ticks

ASSUME ConstantsAssumption ==
  /\ Owner \in [Jobs -> Users]
  /\ NoJob \notin Jobs
  /\ MaxPerUser \in Nat \ {0}
  /\ MaxTries \in Nat \ {0}
  /\ JobTimeout \in Nat \ {0}
  /\ OrphanAge \in Nat
  /\ PendingAge \in Nat \ {0}

(* Settings.validate_runtime refuses ORPHAN_JOB_AGE_SECONDS < 1.5 * JOB_TIMEOUT_SECONDS. *)
ASSUME OrphanAgeAssumption == 2 * OrphanAge >= 3 * JobTimeout

VARIABLES row, enq, arq, run, flag, ledger,
  deliveries,  \* history: how many calls of deliver() brought the media to the user
  notices,     \* history: how many failure messages were sent for a job
  excused,     \* history: jobs whose run was cut or whose ledger entry was lost
               \* in the window where a second delivery cannot be avoided
  revived      \* history: reaped jobs a late worker took back to PROCESSING

redis   == <<arq, flag, ledger>>
history == <<deliveries, notices, excused, revived>>
vars    == <<row, enq, redis, run, history>>

-----------------------------------------------------------------------------
(* State. *)

Active   == {"PENDING", "PROCESSING"}
Terminal == {"DONE", "FAILED"}
Status   == {"NONE"} \cup Active \cup Terminal

\* What the next await of a run is about to do.
Working == {"analyzing", "downloading", "delivering", "recording"}
Saving  == {"transition", "persisting", "overwriting", "cancelling", "failing",
            "terminal_failing"}
Reading == {"get", "ledger", "lost_race", "done_conflict", "cancel_conflict",
            "fail_conflict", "terminal_conflict", "terminal_get"}
Owning  == Working \cup {"ledger", "persisting", "cancelling", "failing"}
Labels  == {"idle", "raised", "clearing", "notifying"} \cup Working \cup Saving \cup Reading

Idle == [pc |-> "idle", job |-> NoJob, attempt |-> 0, version |-> 0, ran |-> 0, hop |-> FALSE]

\* by_reaper stands for the error_message "orphan reaped: ...".
Row == [status : Status, version : Nat, age : Nat, by_reaper : BOOLEAN]

Run == [pc : Labels, job : Jobs \cup {NoJob}, attempt : Nat, version : Nat,
        ran : Nat, hop : BOOLEAN]
Entry == [queued : BOOLEAN, lease : BOOLEAN, tries : Nat]

TypeOK ==
  /\ row \in [Jobs -> Row]
  /\ enq \in [Jobs -> {"no", "publish", "release", "over"}]
  /\ arq \in [Jobs -> Entry]
  /\ run \in [Slots -> Run]
  /\ \A w \in Slots : run[w].pc # "idle" => run[w].job \in Jobs
  /\ flag \subseteq Jobs
  /\ ledger \subseteq Jobs
  /\ deliveries \in [Jobs -> Nat]
  /\ notices \in [Jobs -> Nat]
  /\ excused \subseteq Jobs
  /\ revived \subseteq Jobs

Init ==
  /\ row = [j \in Jobs |-> [status |-> "NONE", version |-> 0, age |-> 0, by_reaper |-> FALSE]]
  /\ enq = [j \in Jobs |-> "no"]
  /\ arq = [j \in Jobs |-> [queued |-> FALSE, lease |-> FALSE, tries |-> 0]]
  /\ run = [w \in Slots |-> Idle]
  /\ flag = {} /\ ledger = {}
  /\ deliveries = [j \in Jobs |-> 0]
  /\ notices = [j \in Jobs |-> 0]
  /\ excused = {} /\ revived = {}

Live(w)   == run[w].pc # "idle"
LiveOn(j) == {w \in Slots : Live(w) /\ run[w].job = j}
ActiveOf(u) == {j \in Jobs : Owner[j] = u /\ row[j].status \in Active}

FaultyCurrent(j, v) == row[j].version >= v \* update() without the version in its WHERE

FaultySave(j, s) == \* update() that leaves updated_at alone
  row' = [row EXCEPT ![j] = [status |-> s, version |-> row[j].version + 1,
                             age |-> row[j].age, by_reaper |-> FALSE]]

FaultySaveUnversioned(j, s) == \* update() that does not bump status_version
  row' = [row EXCEPT ![j] = [status |-> s, version |-> row[j].version,
                             age |-> 0, by_reaper |-> FALSE]]

\* JobsRepository.update: compare status_version, then write the entity and bump it.
Current(j, v) == row[j].version = v
Save(j, s) ==
  row' = [row EXCEPT ![j] = [status |-> s, version |-> row[j].version + 1,
                             age |-> 0, by_reaper |-> FALSE]]

Goto(w, label)    == run' = [run EXCEPT ![w].pc = label]
Hold(w, label, v) == run' = [run EXCEPT ![w].pc = label, ![w].version = v]
Stop(w)           == run' = [run EXCEPT ![w] = Idle]

\* arq drops the entry of a job that returned or raised anything but Retry.
Finished(j) == arq' = [arq EXCEPT ![j] = [queued |-> FALSE, lease |-> FALSE, tries |-> @.tries]]
Finish(w)   == Stop(w) /\ Finished(run[w].job)

-----------------------------------------------------------------------------
(* The bot: EnqueueDownloadUseCase and AutoEnqueueDownloadUseCase. *)

FaultyCreate(j) == \* the cap is compared with > instead of >=
  /\ row[j].status = "NONE"
  /\ Cardinality(ActiveOf(Owner[j])) <= MaxPerUser
  /\ row' = [row EXCEPT ![j].status = "PENDING"]
  /\ enq' = [enq EXCEPT ![j] = "publish"]
  /\ UNCHANGED <<redis, run, history>>

CreateIfUnderCap(j) ==
  /\ row[j].status = "NONE"
  /\ Cardinality(ActiveOf(Owner[j])) < MaxPerUser
  /\ row' = [row EXCEPT ![j].status = "PENDING"]
  /\ enq' = [enq EXCEPT ![j] = "publish"]
  /\ UNCHANGED <<redis, run, history>>

Publish(j) ==
  /\ enq[j] = "publish"
  /\ enq' = [enq EXCEPT ![j] = "over"]
  /\ arq' = [arq EXCEPT ![j].queued = TRUE]
  /\ UNCHANGED <<row, flag, ledger, run, history>>

\* The call raised; Redis may have taken the entry before the connection broke.
PublishRaises(j) ==
  /\ enq[j] = "publish"
  /\ enq' = [enq EXCEPT ![j] = "release"]
  /\ \E taken \in BOOLEAN : arq' = [arq EXCEPT ![j].queued = taken]
  /\ UNCHANGED <<row, flag, ledger, run, history>>

\* The entity create_if_under_cap returned still has version 0. A conflict or
\* a database error here is swallowed: the row is left as it is.
Release(j) ==
  /\ enq[j] = "release"
  /\ enq' = [enq EXCEPT ![j] = "over"]
  /\ \/ Current(j, 0) /\ Save(j, "FAILED")
     \/ UNCHANGED row
  /\ UNCHANGED <<redis, run, history>>

BotStops(j) ==
  /\ enq[j] \in {"publish", "release"}
  /\ enq' = [enq EXCEPT ![j] = "over"]
  /\ UNCHANGED <<row, redis, run, history>>

\* The cancel button: the handler sets the flag whatever the row says.
RequestCancel(j) ==
  /\ enq[j] = "over"
  /\ flag' = flag \cup {j}
  /\ UNCHANGED <<row, enq, arq, ledger, run, history>>

-----------------------------------------------------------------------------
(* arq and the keys in Redis. *)

PickUp(w, j) ==
  /\ ~Live(w)
  /\ arq[j].queued /\ ~arq[j].lease
  /\ arq[j].tries < MaxTries
  /\ arq' = [arq EXCEPT ![j].lease = TRUE, ![j].tries = @ + 1]
  /\ run' = [run EXCEPT ![w] = [Idle EXCEPT !.pc = "get", !.job = j,
                                            !.attempt = arq[j].tries + 1]]
  /\ UNCHANGED <<row, enq, flag, ledger, history>>

\* job_try > max_tries: arq gives the job up without calling the function.
GiveUp(j) ==
  /\ arq[j].queued /\ ~arq[j].lease
  /\ arq[j].tries >= MaxTries
  /\ Finished(j)
  /\ UNCHANGED <<row, enq, flag, ledger, run, history>>

\* The in-progress key is gone: it expired after a crash, or while the worker
\* holding it was paused, in which case a second run may overlap the first.
LeaseLapses(j) ==
  /\ arq[j].lease
  /\ arq' = [arq EXCEPT ![j].lease = FALSE]
  /\ excused' = IF LiveOn(j) = {} THEN excused ELSE excused \cup {j}
  /\ UNCHANGED <<row, enq, flag, ledger, run, deliveries, notices, revived>>

QueueLoses(j) ==
  /\ arq[j].queued
  /\ arq' = [arq EXCEPT ![j].queued = FALSE]
  /\ UNCHANGED <<row, enq, flag, ledger, run, history>>

FlagExpires(j) ==
  /\ j \in flag
  /\ flag' = flag \ {j}
  /\ UNCHANGED <<row, enq, arq, ledger, run, history>>

-----------------------------------------------------------------------------
(* One run of process_download_job in slot w. *)

FaultyLoad(w) == \* _guard_replay lets a FAILED row through
  /\ run[w].pc = "get"
  /\ row[run[w].job].status \in {"PENDING", "PROCESSING", "FAILED"}
  /\ Hold(w, "transition", row[run[w].job].version)
  /\ UNCHANGED <<row, enq, redis, history>>

\* execute + _run: load the row, then resume, start or ignore the job.
Load(w) ==
  LET j == run[w].job IN
  /\ run[w].pc = "get"
  /\ \/ /\ row[j].status = "PROCESSING" /\ run[w].attempt > 1
        /\ Hold(w, "ledger", row[j].version)
        /\ UNCHANGED arq
     \/ /\ row[j].status = "PENDING"
        /\ Hold(w, "transition", row[j].version)
        /\ UNCHANGED arq
     \/ /\ row[j].status \in Terminal \/ (row[j].status = "PROCESSING" /\ run[w].attempt <= 1)
        /\ Finish(w)
  /\ UNCHANGED <<row, enq, flag, ledger, history>>

Transition(w) ==
  LET j == run[w].job IN
  /\ run[w].pc = "transition"
  /\ \/ /\ Current(j, run[w].version)
        /\ Save(j, "PROCESSING")
        /\ run' = [run EXCEPT ![w].pc = IF run[w].attempt > 1 THEN "ledger" ELSE "analyzing",
                              ![w].version = @ + 1, ![w].hop = TRUE]
        /\ revived' = IF row[j].by_reaper THEN revived \cup {j} ELSE revived
     \/ /\ ~Current(j, run[w].version)
        /\ Goto(w, "lost_race")
        /\ UNCHANGED <<row, revived>>
  /\ UNCHANGED <<enq, redis, deliveries, notices, excused>>

\* The re-read after a lost race: anything but PENDING ends the run quietly.
LostRace(w) ==
  /\ run[w].pc = "lost_race"
  /\ IF row[run[w].job].status = "PENDING"
       THEN Goto(w, "raised") /\ UNCHANGED arq
       ELSE Finish(w)
  /\ UNCHANGED <<row, enq, flag, ledger, history>>

FaultyLedgerTrusted(w) == \* a retry takes the previous attempt's delivery for granted
  /\ run[w].pc = "ledger"
  /\ Goto(w, "persisting")
  /\ UNCHANGED <<row, enq, redis, history>>

FaultyLedgerIgnored(w) == \* a retry downloads and sends again
  /\ run[w].pc = "ledger"
  /\ Goto(w, "analyzing")
  /\ UNCHANGED <<row, enq, redis, history>>

\* _finish_if_delivered. A Redis error reads as "not delivered".
CheckLedger(w) ==
  LET j == run[w].job IN
  /\ run[w].pc = "ledger"
  /\ \/ /\ j \in ledger
        /\ Goto(w, "persisting")
        /\ UNCHANGED excused
     \/ /\ Goto(w, "analyzing")
        /\ excused' = IF j \in ledger THEN excused \cup {j} ELSE excused
  /\ UNCHANGED <<row, enq, redis, deliveries, notices, revived>>

\* First cancel check, then the analysis. A Redis error reads as "not cancelled".
Analyze(w) ==
  /\ run[w].pc = "analyzing"
  /\ Goto(w, "downloading")
  /\ UNCHANGED <<row, enq, redis, history>>

\* Second and last cancel check, then yt-dlp into a fresh job directory.
Download(w) ==
  /\ run[w].pc = "downloading"
  /\ Goto(w, "delivering")
  /\ UNCHANGED <<row, enq, redis, history>>

SeesCancel(w) ==
  /\ run[w].pc \in {"analyzing", "downloading"}
  /\ run[w].job \in flag
  /\ Goto(w, "cancelling")
  /\ UNCHANGED <<row, enq, redis, history>>

Deliver(w) ==
  /\ run[w].pc = "delivering"
  /\ deliveries' = [deliveries EXCEPT ![run[w].job] = @ + 1]
  /\ Goto(w, "recording")
  /\ UNCHANGED <<row, enq, redis, notices, excused, revived>>

\* Telegram took the media but the call raised (timeout, half of a gallery).
DeliverRaises(w) ==
  /\ run[w].pc = "delivering"
  /\ deliveries' = [deliveries EXCEPT ![run[w].job] = @ + 1]
  /\ excused' = excused \cup {run[w].job}
  /\ Goto(w, "raised")
  /\ UNCHANGED <<row, enq, redis, notices, revived>>

\* DeliveryLedger.record swallows Redis errors.
Record(w) ==
  LET j == run[w].job IN
  /\ run[w].pc = "recording"
  /\ Goto(w, "persisting")
  /\ \/ ledger' = ledger \cup {j} /\ UNCHANGED excused
     \/ excused' = excused \cup {j} /\ UNCHANGED ledger
  /\ UNCHANGED <<row, enq, arq, flag, deliveries, notices, revived>>

\* A permanent AppError (is_retryable = False) while working.
FailsForGood(w) ==
  /\ run[w].pc \in {"analyzing", "downloading", "delivering"}
  /\ Goto(w, "failing")
  /\ UNCHANGED <<row, enq, redis, history>>

\* A retryable AppError or an unknown exception while working.
FailsRetryably(w) ==
  /\ run[w].pc \in {"analyzing", "downloading", "delivering"}
  /\ Goto(w, "raised")
  /\ UNCHANGED <<row, enq, redis, history>>

PersistDone(w) ==
  LET j == run[w].job IN
  /\ run[w].pc = "persisting"
  /\ \/ Current(j, run[w].version) /\ Save(j, "DONE") /\ Finish(w)
     \/ /\ ~Current(j, run[w].version)
        /\ Goto(w, "done_conflict")
        /\ UNCHANGED <<row, arq>>
  /\ UNCHANGED <<enq, flag, ledger, history>>

\* The re-read of _persist_done: DONE is fine, FAILED is overwritten, the rest raises.
DoneConflict(w) ==
  LET j == run[w].job IN
  /\ run[w].pc = "done_conflict"
  /\ \/ row[j].status = "DONE" /\ Finish(w)
     \/ /\ row[j].status = "FAILED"
        /\ Hold(w, "overwriting", row[j].version)
        /\ UNCHANGED arq
     \/ row[j].status \in Active /\ Goto(w, "raised") /\ UNCHANGED arq
  /\ UNCHANGED <<row, enq, flag, ledger, history>>

Overwrite(w) ==
  LET j == run[w].job IN
  /\ run[w].pc = "overwriting"
  /\ \/ Current(j, run[w].version) /\ Save(j, "DONE") /\ Finish(w)
     \/ /\ ~Current(j, run[w].version)
        /\ Goto(w, "raised")
        /\ UNCHANGED <<row, arq>>
  /\ UNCHANGED <<enq, flag, ledger, history>>

\* _handle_cancellation, _fail and the _fail of mark_terminally_failed share
\* _save_unless_terminal: save, or re-read on a conflict.
SaveFailed(w, from, saved, conflict) ==
  LET j == run[w].job IN
  /\ run[w].pc = from
  /\ \/ Current(j, run[w].version) /\ Save(j, "FAILED") /\ Goto(w, saved)
     \/ /\ ~Current(j, run[w].version)
        /\ Goto(w, conflict)
        /\ UNCHANGED row
  /\ UNCHANGED <<enq, redis, history>>

FaultyCancelled(w) == \* a CANCELLED status the enum of the column does not have
  /\ run[w].pc = "cancelling"
  /\ Save(run[w].job, "CANCELLED")
  /\ Goto(w, "clearing")
  /\ UNCHANGED <<enq, redis, history>>

SaveCancelled(w) == SaveFailed(w, "cancelling", "clearing", "cancel_conflict")
SavePermanent(w) == SaveFailed(w, "failing", "notifying", "fail_conflict")
SaveExhausted(w) == SaveFailed(w, "terminal_failing", "notifying", "terminal_conflict")

\* A terminal row wins; otherwise the conflict is raised, which only the
\* wrapper of the last attempt swallows.
SaveConflict(w) ==
  /\ run[w].pc \in {"cancel_conflict", "fail_conflict", "terminal_conflict"}
  /\ IF row[run[w].job].status \in Terminal \/ run[w].pc = "terminal_conflict"
       THEN Finish(w)
       ELSE Goto(w, "raised") /\ UNCHANGED arq
  /\ UNCHANGED <<row, enq, flag, ledger, history>>

ClearFlag(w) ==
  /\ run[w].pc = "clearing"
  /\ Finish(w)
  /\ \/ flag' = flag \ {run[w].job}
     \/ UNCHANGED flag
  /\ UNCHANGED <<row, enq, ledger, history>>

\* reporter.fail and the "failed" message; the send is best effort.
Notify(w) ==
  /\ run[w].pc = "notifying"
  /\ Finish(w)
  /\ \/ notices' = [notices EXCEPT ![run[w].job] = @ + 1]
     \/ UNCHANGED notices
  /\ UNCHANGED <<row, enq, flag, ledger, deliveries, excused, revived>>

\* The except clause of process_download_job. increment_retries leaves
\* status_version alone but refreshes updated_at, and may itself fail.
Raised(w) ==
  LET j == run[w].job IN
  /\ run[w].pc = "raised"
  /\ \/ row' = [row EXCEPT ![j].age = 0]
     \/ UNCHANGED row
  /\ IF run[w].attempt >= MaxTries
       THEN Goto(w, "terminal_get") /\ UNCHANGED arq
       ELSE Stop(w) /\ arq' = [arq EXCEPT ![j].lease = FALSE]
  /\ UNCHANGED <<enq, flag, ledger, history>>

FaultyTerminalGet(w) == \* mark_terminally_failed without its terminal check
  /\ run[w].pc = "terminal_get"
  /\ Hold(w, "terminal_failing", row[run[w].job].version)
  /\ UNCHANGED <<row, enq, redis, history>>

TerminalGet(w) ==
  LET j == run[w].job IN
  /\ run[w].pc = "terminal_get"
  /\ \/ row[j].status \in Terminal /\ Finish(w)
     \/ /\ row[j].status \in Active
        /\ Hold(w, "terminal_failing", row[j].version)
        /\ UNCHANGED arq
  /\ UNCHANGED <<row, enq, flag, ledger, history>>

\* Postgres fails under a run. mark_terminally_failed is itself guarded.
DbError(w) ==
  /\ \/ /\ run[w].pc \in (Saving \cup Reading)
                         \ {"ledger", "terminal_get", "terminal_failing", "terminal_conflict"}
        /\ Goto(w, "raised")
        /\ UNCHANGED arq
     \/ /\ run[w].pc \in {"terminal_get", "terminal_failing", "terminal_conflict"}
        /\ Finish(w)
  /\ UNCHANGED <<row, enq, flag, ledger, history>>

-----------------------------------------------------------------------------
(* Ends of a run the code has no handler for: CancelledError is no Exception. *)

CutShort(w) ==
  /\ Live(w)
  /\ Stop(w)
  /\ excused' = IF run[w].pc = "recording" THEN excused \cup {run[w].job} ELSE excused
  /\ UNCHANGED <<row, enq, flag, ledger, deliveries, notices, revived>>

\* The process is killed: the in-progress key stays until it expires.
Crash(w) == CutShort(w) /\ UNCHANGED arq

\* SIGTERM: arq cancels the coroutine and will run the job again.
Shutdown(w) == CutShort(w) /\ arq' = [arq EXCEPT ![run[w].job].lease = FALSE]

\* job_timeout: arq cancels the coroutine and drops the job for good.
TimesOut(w) == run[w].ran >= JobTimeout /\ CutShort(w) /\ Finished(run[w].job)

-----------------------------------------------------------------------------
(* The cleanup worker, and the clock. Both reapers write status and *)
(* error_message, never status_version; updated_at follows.         *)

Reap(status, threshold) ==
  LET orphans == {j \in Jobs : row[j].status = status /\ row[j].age >= threshold} IN
  /\ orphans # {}
  /\ row' = [j \in Jobs |->
               IF j \in orphans
                 THEN [row[j] EXCEPT !.status = "FAILED", !.age = 0, !.by_reaper = TRUE]
                 ELSE row[j]]
  /\ UNCHANGED <<enq, redis, run, history>>

FaultyReapPending == Reap("PROCESSING", PendingAge) \* the status was not changed in the copy

ReapOrphanProcessing == Reap("PROCESSING", OrphanAge)
ReapOrphanPending    == Reap("PENDING", PendingAge)

\* Bound: an age stops growing at the threshold of its status, and the age of
\* a terminal row, which nobody reads, does not grow.
AgeLimit(j) ==
  CASE row[j].status = "PENDING" -> PendingAge
    [] row[j].status = "PROCESSING" -> OrphanAge
    [] OTHER -> 0

Tick ==
  /\ \A w \in Slots : Live(w) => run[w].ran < JobTimeout
  /\ row' = [j \in Jobs |->
               [row[j] EXCEPT !.age = IF @ < AgeLimit(j) THEN @ + 1 ELSE @]]
  /\ run' = [w \in Slots |-> IF Live(w) THEN [run[w] EXCEPT !.ran = @ + 1] ELSE run[w]]
  /\ UNCHANGED <<enq, redis, history>>

-----------------------------------------------------------------------------

BotStep(j) ==
  \/ CreateIfUnderCap(j) \/ Publish(j) \/ PublishRaises(j) \/ Release(j)
  \/ BotStops(j) \/ RequestCancel(j)

QueueStep(j) ==
  \/ GiveUp(j) \/ LeaseLapses(j) \/ QueueLoses(j) \/ FlagExpires(j)
  \/ \E w \in Slots : PickUp(w, j)

RunStep(w) ==
  \/ Load(w) \/ Transition(w) \/ LostRace(w) \/ CheckLedger(w)
  \/ Analyze(w) \/ Download(w) \/ SeesCancel(w) \/ Deliver(w) \/ DeliverRaises(w)
  \/ Record(w) \/ FailsForGood(w) \/ FailsRetryably(w)
  \/ PersistDone(w) \/ DoneConflict(w) \/ Overwrite(w)
  \/ SaveCancelled(w) \/ SavePermanent(w) \/ SaveExhausted(w) \/ SaveConflict(w)
  \/ ClearFlag(w) \/ Notify(w) \/ Raised(w) \/ TerminalGet(w) \/ DbError(w)

Cut(w) == Crash(w) \/ Shutdown(w) \/ TimesOut(w)

CleanupStep == ReapOrphanProcessing \/ ReapOrphanPending

Next ==
  \/ \E j \in Jobs : BotStep(j) \/ QueueStep(j)
  \/ \E w \in Slots : RunStep(w) \/ Cut(w)
  \/ CleanupStep
  \/ Tick

Spec == Init /\ [][Next]_vars

\* What must keep going for a row to be released: the clock, the cleanup loop
\* and arq's timeout. Nothing is asked of the bot, the queue or the runs.
Fairness ==
  /\ WF_vars(Tick)
  /\ WF_vars(ReapOrphanProcessing) /\ WF_vars(ReapOrphanPending)
  /\ \A w \in Slots : WF_vars(TimesOut(w))

FairSpec == Spec /\ Fairness

-----------------------------------------------------------------------------
(* Safety. *)

\* A row reads DONE only if the media reached the user: neither a retry that
\* found a ledger entry nor the overwrite of a FAILED row makes it up.
DoneOnlyIfDelivered ==
  \A j \in Jobs : row[j].status = "DONE" => deliveries[j] >= 1

\* What optimistic locking is for: if the entity a run is about to write still
\* has the row's status_version, the row is what the run believes it is, or
\* the reaper failed it behind the run's back (it does not bump the version).
CurrentEntityIsTrue ==
  \A w \in Slots :
    LET r == row[run[w].job] IN
    Live(w) /\ run[w].version = r.version =>
      /\ run[w].pc = "transition" => r.status = "PENDING" \/ r.by_reaper
      /\ run[w].pc \in Owning => r.status = "PROCESSING" \/ r.by_reaper
      /\ run[w].pc = "terminal_failing" => r.status \in Active \/ r.by_reaper
      /\ run[w].pc = "overwriting" => r.status = "FAILED"

\* DONE is never left, although the reapers do not bump status_version and
\* stale entities are written back by workers and by the bot.
DoneIsFinal ==
  [][\A j \in Jobs : row[j].status = "DONE" =>
       row'[j].status = "DONE" /\ row'[j].version = row[j].version]_vars

\* A FAILED that went through update() is left only for DONE, and only for
\* media that was delivered. (A FAILED of the reaper can be undone.)
FailedIsLeftOnlyForDelivery ==
  [][\A j \in Jobs :
       /\ row[j].status = "FAILED" /\ ~row[j].by_reaper
       /\ row'[j].status # "FAILED"
       => row'[j].status = "DONE" /\ deliveries[j] >= 1]_vars

\* _fail tells the user at most once per job, whatever overlaps or is retried.
AtMostOneNotice == \A j \in Jobs : notices[j] <= 1

\* A second deliver() sends the media again only if a run was cut between the
\* send and the ledger write, the ledger was unreachable, a send failed half way,
\* or runs overlapped.
SecondDeliveryIsExcused == \A j \in Jobs : deliveries[j] > 1 => j \in excused

\* The row of a run that itself took it to PROCESSING is never old enough for
\* the reaper: ORPHAN_JOB_AGE_SECONDS outlasts one arq timeout.
OwnAttemptIsNotReaped ==
  \A w \in Slots :
    Live(w) /\ run[w].hop /\ row[run[w].job].status = "PROCESSING"
      => row[run[w].job].age < OrphanAge

\* Jobs no late worker revived stay within the per-user cap.
CapHoldsForUnrevived ==
  \A u \in Users : Cardinality(ActiveOf(u) \ revived) <= MaxPerUser

\* The rows keep the promise of JobStatus.
Promise == INSTANCE JobStatus WITH
  status    <- [j \in Jobs |-> row[j].status],
  sent      <- {j \in Jobs : deliveries[j] >= 1},
  abandoned <- {j \in Jobs : row[j].by_reaper}

ImplementsJobStatus == Promise!Spec

(* Claims of the documentation. *)

\* docs/09 section 6: the terminal state is written exactly once per lifecycle.
TerminalIsWrittenOnce ==
  [][\A j \in Jobs : row[j].status \in Terminal => row'[j].status = row[j].status]_vars

\* CleanupSettings: a legitimately slow job is never reaped while still running.
RunningJobIsNotReaped ==
  [][\A j \in Jobs :
       row[j].status = "PROCESSING" /\ row'[j].by_reaper => LiveOn(j) = {}]_vars

\* ADR-0008 section 3: the per-user cap is a hard contract.
CapHolds == \A u \in Users : Cardinality(ActiveOf(u)) <= MaxPerUser

(* Liveness. *)

\* Every slot of the cap is given back: an active row becomes terminal even if
\* every run of it is cut, as long as the cleanup worker keeps running.
RowsAreReleased ==
  \A j \in Jobs : row[j].status \in Active ~> row[j].status \in Terminal
=============================================================================
