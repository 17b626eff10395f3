------------------------------ MODULE TempLinks ------------------------------
(***************************************************************************)
(* A file too big for Telegram, from the job directory a worker fills to    *)
(* the link the user opens and the cleanup worker that frees the disk.      *)
(*                                                                         *)
(*   worker     run      the attempts of a job that reset, fill and deliver *)
(*   Postgres   status   whether the job of a directory is over            *)
(*              link     the rows of temp_links                            *)
(*   volume     disk     STORAGE_PATH/jobs/<job_id> and the one file in it *)
(*   api        req      requests inside GET or HEAD /d/{token}            *)
(*   cleanup    cleaner  where the cycle stands and what it has read       *)
(*                                                                         *)
(* The four are separate processes: only one SQL statement, or one call on *)
(* the volume, is atomic. The name of the file comes from the media, so    *)
(* every attempt of a job, and every link of it, means the same path.      *)
(***************************************************************************)
EXTENDS Naturals, FiniteSets

CONSTANTS
  Jobs, NoJob,
  Links,         \* the rows temp_links may get
  NoLink,
  Requests,      \* concurrent requests to the api
  MaxDownloads,  \* TEMP_LINK_MAX_DOWNLOADS
  TTL,           \* TEMP_LINK_TTL_SECONDS, in ticks
  SweepAge,      \* job_dir_sweep_age(TTL), in ticks
  JobTimeout,    \* JOB_TIMEOUT_SECONDS, in ticks
  MaxRuns,       \* JOB_MAX_RETRIES + 1
  Limit          \* rows one cycle reads from list_inactive_with_files (500)

ASSUME ConstantsAssumption ==
  /\ NoJob \notin Jobs /\ NoLink \notin Links
  /\ MaxDownloads \in Nat \ {0} /\ TTL \in Nat \ {0}
  /\ SweepAge \in Nat /\ JobTimeout \in Nat \ {0}
  /\ MaxRuns \in Nat \ {0} /\ Limit \in Nat \ {0}

(* max(1 day, TTL + 1 hour) outlasts a link and the attempt that issued it, *)
(* as long as JOB_TIMEOUT_SECONDS (30 minutes by default) is under an hour. *)
ASSUME SweepAgeAssumption == SweepAge >= TTL + JobTimeout

VARIABLES status, run, disk, link, ledger, req, cleaner,
  grants,   \* history: new downloads the api granted on a link
  revoked   \* history: links an operator switched off

vars == <<status, run, disk, link, ledger, req, cleaner, grants, revoked>>

-----------------------------------------------------------------------------
Run     == [pc : {"idle", "writing", "delivering", "sending", "complete"}, ran : Nat, tries : Nat]
Disk    == [dir : BOOLEAN, file : BOOLEAN, age : Nat]
Row     == [job : Jobs \cup {NoJob}, try : Nat, age : Nat, uses : Nat, active : BOOLEAN]
Request == [pc : {"idle", "checking", "registering", "serving"}, link : Links \cup {NoLink},
            counted : BOOLEAN, uses : Nat, active : BOOLEAN]
Cleaner == [pc : {"idle", "listing", "removing", "sweeping", "judging"},
            todo : SUBSET Links, dirs : SUBSET Jobs, dir : Jobs \cup {NoJob}]

TypeOK ==
  /\ status \in [Jobs -> {"active", "terminal"}]
  /\ run \in [Jobs -> Run]
  /\ disk \in [Jobs -> Disk]
  /\ link \in [Links -> Row]
  /\ ledger \subseteq Jobs
  /\ req \in [Requests -> Request]
  /\ cleaner \in Cleaner
  /\ grants \in [Links -> Nat]
  /\ revoked \subseteq Links

NoRow     == [job |-> NoJob, try |-> 0, age |-> 0, uses |-> 0, active |-> FALSE]
NoRequest == [pc |-> "idle", link |-> NoLink, counted |-> FALSE, uses |-> 0, active |-> FALSE]
AtRest    == [pc |-> "idle", todo |-> {}, dirs |-> {}, dir |-> NoJob]

Init ==
  /\ status = [j \in Jobs |-> "active"]
  /\ run = [j \in Jobs |-> [pc |-> "idle", ran |-> 0, tries |-> 0]]
  /\ disk = [j \in Jobs |-> [dir |-> FALSE, file |-> FALSE, age |-> 0]]
  /\ link = [l \in Links |-> NoRow]
  /\ ledger = {}
  /\ req = [r \in Requests |-> NoRequest]
  /\ cleaner = AtRest
  /\ grants = [l \in Links |-> 0]
  /\ revoked = {}

Issued(l)  == link[l].job # NoJob
Expired(l) == link[l].age >= TTL
HasFile(l) == disk[link[l].job].file

\* What the message promised the user: time is left and nobody revoked the link.
Due(l) == Issued(l) /\ ~Expired(l) /\ l \notin revoked

\* The job of the link ran its delivery more than once: an attempt reset the
\* directory after the link was issued, or another link means the same file.
Rerun(l) ==
  \/ link[l].try < run[link[l].job].tries
  \/ \E k \in Links \ {l} : Issued(k) /\ link[k].job = link[l].job

-----------------------------------------------------------------------------
(* The worker: ProcessDownloadUseCase, DeliveryService, TempLinkService. *)

At(j, pc)  == run[j].pc = pc
To(j, pc)  == run' = [run EXCEPT ![j].pc = pc]
Api        == <<req, grants>>
Cleanup    == <<cleaner, revoked>>

\* arq starts the next attempt long before the directory of the last one is
\* old enough to be swept; a row untouched for longer has been reaped, which
\* every cleanup cycle does before it sweeps.
Retryable(j) == status[j] = "active" /\ disk[j].age < SweepAge

StartRun(j) ==
  /\ At(j, "idle") /\ Retryable(j) /\ run[j].tries < MaxRuns
  /\ run' = [run EXCEPT ![j] = [pc |-> "writing", ran |-> 0, tries |-> @.tries + 1]]
  /\ disk' = [disk EXCEPT ![j] = [dir |-> TRUE, file |-> FALSE, age |-> 0]]
  /\ UNCHANGED <<status, link, ledger, Api, Cleanup>>

\* A retry that finds the ledger entry only writes DONE.
Resume(j) ==
  /\ At(j, "idle") /\ status[j] = "active" /\ j \in ledger
  /\ run' = [run EXCEPT ![j].pc = "complete", ![j].ran = 0]
  /\ UNCHANGED <<status, disk, link, ledger, Api, Cleanup>>

\* The last rename or zip of the attempt dates the directory; bytes appended
\* to a file that is there already do not.
WriteFile(j) ==
  /\ At(j, "writing")
  /\ To(j, "delivering")
  /\ \E age \in {0, disk[j].age} :
       disk' = [disk EXCEPT ![j] = [dir |-> TRUE, file |-> TRUE, age |-> age]]
  /\ UNCHANGED <<status, link, ledger, Api, Cleanup>>

\* The file fits Telegram: no link.
SendMedia(j) ==
  /\ At(j, "delivering")
  /\ To(j, "complete")
  /\ ledger' \in {ledger, ledger \cup {j}}
  /\ UNCHANGED <<status, disk, link, Api, Cleanup>>

\* The row exists before the message does.
IssueLink(j, l) ==
  /\ At(j, "delivering") /\ disk[j].file
  /\ ~Issued(l)
  /\ link' = [link EXCEPT ![l] = [job |-> j, try |-> run[j].tries, age |-> 0, uses |-> 0,
                                  active |-> TRUE]]
  /\ To(j, "sending")
  /\ UNCHANGED <<status, disk, ledger, Api, Cleanup>>

SendLink(j) ==
  /\ At(j, "sending")
  /\ To(j, "complete")
  /\ ledger' \in {ledger, ledger \cup {j}}
  /\ UNCHANGED <<status, disk, link, Api, Cleanup>>

\* An exception: the row stays active for a retry, or the job is over. The
\* link, if there is one already, stays.
RunFails(j) ==
  /\ run[j].pc \in {"writing", "delivering", "sending"}
  /\ To(j, "idle")
  /\ \/ run[j].tries < MaxRuns /\ UNCHANGED status
     \/ status' = [status EXCEPT ![j] = "terminal"]
  /\ UNCHANGED <<disk, link, ledger, Api, Cleanup>>

Complete(j) ==
  /\ At(j, "complete")
  /\ To(j, "idle")
  /\ status' = [status EXCEPT ![j] = "terminal"]
  /\ UNCHANGED <<disk, link, ledger, Api, Cleanup>>

\* Crash, SIGTERM or job timeout (module JobLifecycle).
CutRun(j) ==
  /\ ~At(j, "idle")
  /\ To(j, "idle")
  /\ UNCHANGED <<status, disk, link, ledger, Api, Cleanup>>

\* The orphan reaper ends the row, possibly while an attempt is running.
ReapJob(j) ==
  /\ status[j] = "active"
  /\ status' = [status EXCEPT ![j] = "terminal"]
  /\ UNCHANGED <<run, disk, link, ledger, Api, Cleanup>>

-----------------------------------------------------------------------------
(* The api: GET and HEAD /d/{token}. *)

Worker == <<status, run, ledger>>

\* get_by_token: the handler keeps the entity it read. counted is
\* starts_new_download: a GET from byte 0.
Arrive(r, l, counted) ==
  /\ req[r].pc = "idle" /\ Issued(l)
  /\ req' = [req EXCEPT ![r] = [pc |-> "checking", link |-> l, counted |-> counted,
                                uses |-> link[l].uses, active |-> link[l].active]]
  /\ UNCHANGED <<Worker, disk, link, grants, Cleanup>>

Refuse(r) == req' = [req EXCEPT ![r] = NoRequest]
Pass(r, pc) == req' = [req EXCEPT ![r].pc = pc]

\* is_usable or can_resume of the entity read on arrival, at the clock of now.
Continues(r) ==
  /\ req[r].active /\ ~Expired(req[r].link)
  /\ req[r].uses < MaxDownloads \/ req[r].uses > 0

CheckFile(r) ==
  /\ req[r].pc = "checking"
  /\ \/ HasFile(req[r].link) /\ req[r].counted /\ Pass(r, "registering")
     \/ HasFile(req[r].link) /\ ~req[r].counted /\ Continues(r) /\ Pass(r, "serving")
     \/ ~HasFile(req[r].link) /\ Refuse(r)
     \/ ~req[r].counted /\ ~Continues(r) /\ Refuse(r)
  /\ UNCHANGED <<Worker, disk, link, grants, Cleanup>>

FaultyRegister(r) == \* load, check and save instead of one UPDATE
  LET l == req[r].link IN
  /\ req[r].pc = "registering"
  /\ \/ /\ req[r].active /\ ~Expired(l) /\ req[r].uses < MaxDownloads
        /\ link' = [link EXCEPT ![l].uses = req[r].uses + 1]
        /\ grants' = [grants EXCEPT ![l] = @ + 1]
        /\ Pass(r, "serving")
     \/ /\ ~(req[r].active /\ ~Expired(l) /\ req[r].uses < MaxDownloads)
        /\ Refuse(r)
        /\ UNCHANGED <<link, grants>>
  /\ UNCHANGED <<Worker, disk, Cleanup>>

FaultyRegisterGivesBack(r) == \* a refused request gives its slot back
  LET l == req[r].link IN
  /\ req[r].pc = "registering"
  /\ \/ /\ link[l].active /\ ~Expired(l) /\ link[l].uses < MaxDownloads
        /\ link' = [link EXCEPT ![l].uses = @ + 1]
        /\ grants' = [grants EXCEPT ![l] = @ + 1]
        /\ Pass(r, "serving")
     \/ /\ ~(link[l].active /\ ~Expired(l) /\ link[l].uses < MaxDownloads)
        /\ link' = [link EXCEPT ![l].uses = @ - 1]
        /\ Refuse(r)
        /\ UNCHANGED grants
  /\ UNCHANGED <<Worker, disk, Cleanup>>

FaultyRegisterRevokes(r) == \* the last slot switches the link off
  LET l == req[r].link IN
  /\ req[r].pc = "registering"
  /\ \/ /\ link[l].active /\ ~Expired(l) /\ link[l].uses < MaxDownloads
        /\ link' = [link EXCEPT ![l].uses = @ + 1, ![l].active = link[l].uses + 1 < MaxDownloads]
        /\ grants' = [grants EXCEPT ![l] = @ + 1]
        /\ Pass(r, "serving")
     \/ /\ ~(link[l].active /\ ~Expired(l) /\ link[l].uses < MaxDownloads)
        /\ Refuse(r)
        /\ UNCHANGED <<link, grants>>
  /\ UNCHANGED <<Worker, disk, Cleanup>>

\* try_register_use: one UPDATE ... RETURNING.
Register(r) ==
  LET l == req[r].link IN
  /\ req[r].pc = "registering"
  /\ \/ /\ link[l].active /\ ~Expired(l) /\ link[l].uses < MaxDownloads
        /\ link' = [link EXCEPT ![l].uses = @ + 1]
        /\ grants' = [grants EXCEPT ![l] = @ + 1]
        /\ Pass(r, "serving")
     \/ /\ ~(link[l].active /\ ~Expired(l) /\ link[l].uses < MaxDownloads)
        /\ Refuse(r)
        /\ UNCHANGED <<link, grants>>
  /\ UNCHANGED <<Worker, disk, Cleanup>>

\* nginx or FileResponse opens the path.
Serve(r) ==
  /\ req[r].pc = "serving"
  /\ Refuse(r)
  /\ UNCHANGED <<Worker, disk, link, grants, Cleanup>>

-----------------------------------------------------------------------------
(* The cleanup worker: one _run_cycle after another. *)

Deactivate ==
  /\ cleaner.pc = "idle"
  /\ cleaner' = [cleaner EXCEPT !.pc = "listing"]
  /\ link' = [l \in Links |-> [link[l] EXCEPT !.active = @ /\ ~Expired(l)]]
  /\ UNCHANGED <<Worker, disk, Api, revoked>>

FaultyInactive == {l \in Links : Issued(l)}  \* is_active is not asked

\* Links older than the horizon are left to the directory sweep.
Inactive == {l \in Links : Issued(l) /\ ~link[l].active /\ link[l].age < TTL + SweepAge}

\* ORDER BY expires_at DESC LIMIT: the newest of them.
ListInactive ==
  /\ cleaner.pc = "listing"
  /\ \E S \in SUBSET Inactive :
       /\ Cardinality(S) <= Limit
       /\ S # Inactive => Cardinality(S) = Limit
       /\ \A l \in S, k \in Inactive \ S : link[l].age <= link[k].age
       /\ cleaner' = [cleaner EXCEPT !.pc = "removing", !.todo = S]
  /\ UNCHANGED <<Worker, disk, link, Api, revoked>>

\* Removing the entry renews the mtime of the directory.
RemoveFile(l) ==
  /\ cleaner.pc = "removing" /\ l \in cleaner.todo
  /\ cleaner' = [cleaner EXCEPT !.todo = @ \ {l}]
  /\ disk' = IF HasFile(l) THEN [disk EXCEPT ![link[l].job].file = FALSE, ![link[l].job].age = 0]
                           ELSE disk
  /\ UNCHANGED <<Worker, link, Api, revoked>>

RemoveFails(l) ==
  /\ cleaner.pc = "removing" /\ l \in cleaner.todo
  /\ cleaner' = [cleaner EXCEPT !.todo = @ \ {l}]
  /\ UNCHANGED <<Worker, disk, link, Api, revoked>>

StartSweep ==
  /\ cleaner.pc = "removing" /\ cleaner.todo = {}
  /\ cleaner' = [cleaner EXCEPT !.pc = "sweeping", !.dirs = {j \in Jobs : disk[j].dir}]
  /\ UNCHANGED <<Worker, disk, link, Api, revoked>>

\* stat() of one directory.
Look(j) ==
  /\ cleaner.pc = "sweeping" /\ j \in cleaner.dirs
  /\ \/ /\ disk[j].dir /\ disk[j].age >= SweepAge
        /\ cleaner' = [cleaner EXCEPT !.pc = "judging", !.dirs = @ \ {j}, !.dir = j]
     \/ /\ disk[j].age < SweepAge
        /\ cleaner' = [cleaner EXCEPT !.dirs = @ \ {j}]
  /\ UNCHANGED <<Worker, disk, link, Api, revoked>>

FaultyJudge == \* a FAILED job's directory is kept for inspection
  /\ cleaner.pc = "judging"
  /\ cleaner' = [cleaner EXCEPT !.pc = "sweeping", !.dir = NoJob]
  /\ UNCHANGED <<Worker, disk, link, Api, revoked>>

\* The row of its job decides. Nothing starts on a job that is over, so the
\* answer still stands when the directory goes.
Judge ==
  /\ cleaner.pc = "judging"
  /\ cleaner' = [cleaner EXCEPT !.pc = "sweeping", !.dir = NoJob]
  /\ IF status[cleaner.dir] = "terminal"
       THEN disk' = [disk EXCEPT ![cleaner.dir] = [dir |-> FALSE, file |-> FALSE, age |-> 0]]
       ELSE UNCHANGED disk
  /\ UNCHANGED <<Worker, link, Api, revoked>>

EndCycle ==
  /\ cleaner.pc = "sweeping" /\ cleaner.dirs = {}
  /\ cleaner' = AtRest
  /\ UNCHANGED <<Worker, disk, link, Api, revoked>>

\* A database error, a directory that vanished under stat(), or the container
\* stopped: the next cycle starts from the first statement. A directory that
\* cannot be removed stays for the next cycle, as if this one had ended here.
CycleFails ==
  /\ cleaner.pc \in {"listing", "sweeping", "judging"}
  /\ cleaner' = AtRest
  /\ UNCHANGED <<Worker, disk, link, Api, revoked>>

\* An operator revokes a link in the database.
Revoke(l) ==
  /\ Issued(l) /\ l \notin revoked
  /\ link' = [link EXCEPT ![l].active = FALSE]
  /\ revoked' = revoked \cup {l}
  /\ UNCHANGED <<Worker, disk, Api, cleaner>>

-----------------------------------------------------------------------------
\* Bound: ages stop growing where nothing compares them any more.
Older(age, cap) == IF age < cap THEN age + 1 ELSE age

Tick ==
  /\ \A j \in Jobs : ~At(j, "idle") => run[j].ran < JobTimeout
  /\ run' = [j \in Jobs |-> IF At(j, "idle") THEN run[j] ELSE [run[j] EXCEPT !.ran = @ + 1]]
  /\ disk' = [j \in Jobs |->
                IF disk[j].dir THEN [disk[j] EXCEPT !.age = Older(@, SweepAge)] ELSE disk[j]]
  /\ link' = [l \in Links |->
                IF Issued(l) THEN [link[l] EXCEPT !.age = Older(@, TTL + SweepAge)] ELSE link[l]]
  /\ UNCHANGED <<status, ledger, Api, Cleanup>>

WorkerStep(j) ==
  \/ StartRun(j) \/ Resume(j) \/ WriteFile(j) \/ SendMedia(j) \/ SendLink(j)
  \/ RunFails(j) \/ Complete(j) \/ CutRun(j) \/ ReapJob(j)
  \/ \E l \in Links : IssueLink(j, l)

ApiStep(r) ==
  \/ \E l \in Links, counted \in BOOLEAN : Arrive(r, l, counted)
  \/ CheckFile(r) \/ Register(r) \/ Serve(r)

CleanupStep ==
  \/ Deactivate \/ ListInactive \/ StartSweep \/ Judge \/ EndCycle \/ CycleFails
  \/ \E l \in Links : RemoveFile(l) \/ RemoveFails(l)
  \/ \E j \in Jobs : Look(j)

Next ==
  \/ \E j \in Jobs : WorkerStep(j)
  \/ \E r \in Requests : ApiStep(r)
  \/ CleanupStep
  \/ \E l \in Links : Revoke(l)
  \/ Tick

Spec == Init /\ [][Next]_vars

\* The clock runs, arq cuts an attempt at its timeout, the reaper ends what no
\* attempt ends, the next cleanup cycle starts and goes on; the statements and
\* calls that may fail get through when cycle after cycle tries them again.
\* Nothing says that removing a file, rather than its directory, ever works.
Fairness ==
  /\ WF_vars(Tick)
  /\ \A j \in Jobs : WF_vars(run[j].ran >= JobTimeout /\ CutRun(j)) /\ WF_vars(ReapJob(j))
  /\ WF_vars(Deactivate) /\ WF_vars(StartSweep) /\ WF_vars(EndCycle)
  /\ \A l \in Links : WF_vars(RemoveFile(l) \/ RemoveFails(l))
  /\ SF_vars(ListInactive) /\ SF_vars(Judge)
  /\ \A j \in Jobs : SF_vars(Look(j))

FairSpec == Spec /\ Fairness

-----------------------------------------------------------------------------
(* Safety. *)

\* While a link is due its file is on disk: the expiry, the sweep and the age
\* of the directory never take it early, unless the job delivered twice.
DueLinkHasFile == \A l \in Links : Due(l) /\ ~Rerun(l) => HasFile(l)

\* Concurrent requests never get more new downloads out of a link than it has.
GrantsWithinBudget == \A l \in Links : grants[l] <= MaxDownloads

\* A slot is spent only where there is a file to send: the check before the
\* UPDATE and the removal after the expiry cannot be crossed by cleanup.
SlotBuysAFile ==
  [][\A l \in Links : link'[l].uses > link[l].uses => HasFile(l) \/ Rerun(l)]_vars

\* A Range continuation or HEAD is refused only when the link is over, also after
\* the last slot is taken: the UPDATE that takes it leaves is_active alone, whatever
\* the docstring of downloads.py and ADR 8 say of the limit.
ContinuationIsServed ==
  [][\A r \in Requests :
       req[r].pc = "checking" /\ ~req[r].counted /\ req'[r].pc = "idle"
         => ~Due(req[r].link) \/ Rerun(req[r].link)]_vars

Life(l) == IF ~Issued(l) THEN "none" ELSE IF Due(l) THEN "due" ELSE "over"

Promise == INSTANCE Ticket WITH
  Tickets <- Links, Max <- MaxDownloads,
  life    <- [l \in Links |-> Life(l)],
  used    <- grants,
  kept    <- [l \in Links |-> Issued(l) /\ HasFile(l)],
  doubled <- [l \in Links |-> Issued(l) /\ Rerun(l)]

\* Every link is a Ticket: a download is granted only while the link is due
\* and its file there, never more than MaxDownloads of them, and nothing takes
\* or brings back the file of a due link but another delivery of its job.
ImplementsTicket == Promise!Spec

(* Claims of the documentation. *)

\* docs/10 section 6: a live link's file is never removed.
LiveFileIsKept == \A l \in Links : Due(l) => HasFile(l)

(* Liveness. *)

\* Nothing stays on the volume: with or without a link, after a success, a
\* failure or a crash, and even if LIMIT hides the link from the file removal.
FilesGo == \A j \in Jobs : disk[j].file ~> ~disk[j].file
=============================================================================
