------------------------------ MODULE Attempt ------------------------------
(***************************************************************************)
(* One job in the worker, from the queue to the chat, attempt after         *)
(* attempt: its calls of yt-dlp beside those of other jobs, its directory,  *)
(* and its messages to Telegram. The row in Postgres is JobLifecycle's, the *)
(* placeholder Progress's, the link's file TempLinks'.                      *)
(*                                                                         *)
(*   job    where the attempt is, and what it has                           *)
(*   dir    the files of the job's directory                                *)
(*   chat   how often each file, and the link, reached the user             *)
(***************************************************************************)
EXTENDS Downloader, Formats

CONSTANTS
  Me,           \* the caller that is this job
  MaxTries,     \* JOB_MAX_RETRIES + 1
  Uploads,      \* _UPLOAD_RETRY_ATTEMPTS
  MaxFiles      \* bound: files of one post

ASSUME AttemptAssumption == Me \in Callers /\ {MaxTries, Uploads, MaxFiles} \subseteq Nat \ {0}

VARIABLES job, dir, chat,
  fellback,     \* history: a call of this attempt was made again without cookies
  excuses       \* history: how a file may come to be sent twice

vars == <<downloader, faults, job, dir, chat, fellback, excuses>>

Others == Callers \ {Me}
Files  == 1 .. MaxFiles
Link   == 0

\* A file of a finished download, one of a download under way, one that an
\* earlier call left.
File == {"media", "part", "stray"}

Ready   == {"analyzing", "sizing", "fetching", "post", "videos", "compat", "delivering"}
Sending == {"uploading", "captioning", "linking"}
Job == [pc : {"queued", "recording", "saving", "done", "failed"} \cup Ready \cup Sending,
        tries : 0 .. MaxTries, ledger : BOOLEAN,
        over : BOOLEAN, \* the download is over the cap, its formats being ordinary
        files : Files, file : Files, upload : 1 .. Uploads,
        owed : Files] \* history: the files of the attempt that delivered

TypeOK ==
  /\ DownloaderTypeOK
  /\ job \in Job
  /\ dir \subseteq File
  /\ chat \in [Files \cup {Link} -> 0 .. 2]
  /\ fellback \in BOOLEAN
  /\ excuses \subseteq {"unheard", "half", "ledger", "crash"}

Init ==
  /\ DownloaderInit
  /\ job = [pc |-> "queued", tries |-> 0, ledger |-> FALSE, over |-> FALSE,
            files |-> 1, file |-> 1, upload |-> 1, owed |-> 1]
  /\ dir = {} /\ chat = [f \in Files \cup {Link} |-> 0]
  /\ fellback = FALSE /\ excuses = {}

-----------------------------------------------------------------------------

JobAt(pc) == job.pc = pc
JobTo(pc) == job' = [job EXCEPT !.pc = pc]
Over      == job.pc \in {"done", "failed"}

Retryable == {"upstream", "bare", "transient"}

FaultyRaise(error) == \* an attempt the breaker turned down is not counted
  IF error = "upstream" THEN job' = [job EXCEPT !.pc = "queued", !.tries = @ - 1]
  ELSE JobTo(IF error \in Retryable /\ job.tries < MaxTries THEN "queued" ELSE "failed")

\* is_retryable of the exception decides, and arq's number of the try.
Raise(error) ==
  JobTo(IF error \in Retryable /\ job.tries < MaxTries THEN "queued" ELSE "failed")

\* What a failed attempt has sent already will be sent again.
Half == IF \E f \in DOMAIN chat : chat[f] > 0 THEN {"half"} ELSE {}

Untold  == <<downloader, chat, excuses>>
Quietly == <<downloader, faults, dir, fellback>>

FaultyPickUp == \* the ledger is not asked
  /\ JobAt("queued") /\ job.tries < MaxTries
  /\ job' = [job EXCEPT !.pc = "analyzing", !.tries = @ + 1]
  /\ fellback' = FALSE
  /\ UNCHANGED <<Untold, faults, dir>>

\* A retry of a job that was delivered only writes DONE, if the ledger can be
\* read. Else: is there room on the disk?
PickUp ==
  /\ JobAt("queued") /\ job.tries < MaxTries
  /\ \/ /\ job.ledger /\ Fine
        /\ job' = [job EXCEPT !.pc = "saving", !.tries = @ + 1]
        /\ UNCHANGED excuses
     \/ /\ IF job.ledger THEN Fault /\ excuses' = excuses \cup {"ledger"}
                          ELSE Fine /\ UNCHANGED excuses
        /\ \E pc \in {"analyzing", "failed"} : job' = [job EXCEPT !.pc = pc, !.tries = @ + 1]
  /\ fellback' = FALSE
  /\ UNCHANGED <<downloader, chat, dir>>

\* _analyze: get_info, unless the bot's analysis is in the cache.
Extract ==
  /\ JobAt("analyzing")
  /\ Begin(Me, FALSE)
  /\ UNCHANGED <<job, dir, chat, fellback, excuses>>

\* The option is among those of the analysis, or gone.
PickOption ==
  /\ JobAt("analyzing") /\ call[Me].pc \in {"idle", "done"}
  /\ EndCall(Me)
  /\ JobTo("sizing") \/ JobTo("failed")
  /\ UNCHANGED <<breaker, suspended, faults, dir, chat, fellback, excuses>>

\* probe_size, a call of yt-dlp of its own, unless the option has an estimate.
Probe ==
  /\ JobAt("sizing")
  /\ Begin(Me, FALSE)
  /\ UNCHANGED <<job, dir, chat, fellback, excuses>>

\* reset_job_dir before the download.
FaultyResetDir == \* what an attempt before left is still there
  dir' = IF dir = {} THEN {} ELSE {"stray"}
ResetDir == dir' = {}

\* The option's estimate, or what the probe says, fits, or is over the cap, or
\* unknown.
CheckSize ==
  /\ JobAt("sizing") /\ call[Me].pc \in {"idle", "done"}
  /\ EndCall(Me)
  /\ \/ ResetDir /\ \E over \in Admitted : job' = [job EXCEPT !.pc = "fetching", !.over = over]
     \/ JobTo("failed") /\ UNCHANGED dir
  /\ UNCHANGED <<breaker, suspended, faults, chat, fellback, excuses>>

\* HttpImageFetcher.fetch of every photo of a post.
Photos == {"fetched", "expired", "toolarge"}

\* _download_photos_from_info: a post of photos needs no yt-dlp, until an address
\* has expired: what was fetched is removed and the post extracted anew.
FetchPhotos ==
  /\ JobAt("fetching")
  /\ \E photos \in Photos :
       /\ IF photos = "expired" THEN JobTo("post")
          ELSE IF photos = "fetched" THEN JobTo("compat") ELSE Raise(photos)
       /\ dir' = IF photos = "fetched" THEN dir \cup {"media"} ELSE dir
  /\ UNCHANGED <<Untold, faults, fellback>>

\* _extract, for fresh addresses and the positions of the videos.
ReExtract ==
  /\ JobAt("post")
  /\ Begin(Me, FALSE)
  /\ UNCHANGED <<job, dir, chat, fellback, excuses>>

\* A photo may turn out too large: FileTooLargeError.
PhotoErrors == {"bare", "toolarge"}

\* _download_post: its videos by yt-dlp, first, or photos alone.
FetchPost ==
  /\ JobAt("post") /\ CallAt(Me, "done")
  /\ EndCall(Me)
  /\ \/ JobTo("videos") /\ UNCHANGED dir
     \/ JobTo("compat") /\ dir' = dir \cup {"media"}
     \/ UNCHANGED dir /\ \E error \in PhotoErrors : Raise(error)
  /\ UNCHANGED <<breaker, suspended, faults, chat, fellback, excuses>>

\* A YouTube option, which is one video or its sound; a single Instagram video.
StartVideo ==
  /\ JobAt("fetching")
  /\ JobTo("videos")
  /\ Begin(Me, TRUE)
  /\ UNCHANGED <<dir, chat, fellback, excuses>>

\* _download_videos of a post.
StartPostVideos ==
  /\ JobAt("videos")
  /\ Begin(Me, TRUE)
  /\ UNCHANGED <<job, dir, chat, fellback, excuses>>

ChildWrites ==
  /\ Me \in child
  /\ dir' = dir \cup {"part"}
  /\ UNCHANGED <<downloader, faults, job, chat, fellback, excuses>>

\* A step of the job's own call. What a call with cookies had written by the
\* time it broke is not removed before the call without.
MyCall ==
  /\ CallStep(Me)
  /\ LET again == call[Me].cookies /\ ~call'[Me].cookies /\ call[Me].fetch IN
       /\ fellback' = (fellback \/ again)
       /\ dir' = IF again /\ "part" \in dir THEN (dir \ {"part"}) \cup {"stray"} ELSE dir
  /\ UNCHANGED <<job, chat, excuses>>

\* The runner answers with every file of the directory; yt-dlp has merged its
\* own parts, and may have taken up what lay there. A post's photos come last.
DownloadDone ==
  /\ JobAt("videos") /\ CallAt(Me, "done")
  /\ EndCall(Me)
  /\ JobTo("compat") \/ \E error \in PhotoErrors : Raise(error)
  /\ \E strays \in SUBSET (dir \cap {"stray"}) : dir' = strays \cup {"media"}
  /\ UNCHANGED <<breaker, suspended, faults, chat, fellback, excuses>>

CallFails ==
  /\ job.pc \in {"analyzing", "sizing", "post", "videos"} /\ call[Me].pc \in Outcomes \ {"done"}
  /\ Raise(call[Me].pc)
  /\ EndCall(Me)
  /\ UNCHANGED <<breaker, suspended, faults, dir, chat, fellback, excuses>>

\* make_mobile_compatible: each mp4 is rewritten in place, or stays as it was
\* where ffmpeg fails; only then the files are counted and measured.
MakeCompatible ==
  /\ JobAt("compat")
  /\ \E files \in Files :
       job' = [job EXCEPT !.pc = "delivering", !.files = files, !.file = 1, !.upload = 1]
  /\ UNCHANGED <<Quietly, chat, excuses>>

-----------------------------------------------------------------------------
(* DeliveryService and TelegramSender. *)

\* All over the cap: refused. One file that is too large for Telegram, or a
\* gallery with such a file, or with too many: a link.
Route ==
  /\ JobAt("delivering")
  /\ \/ ~job.over /\ (JobTo("uploading") \/ JobTo("linking"))
     \/ Raise("storage")
  /\ UNCHANGED <<Quietly, chat, excuses>>

Arrives(f) == chat' = [chat EXCEPT ![f] = IF @ < 2 THEN @ + 1 ELSE @]

AfterFile ==
  job' = IF job.file < job.files THEN [job EXCEPT !.file = @ + 1, !.upload = 1]
         ELSE [job EXCEPT !.pc = IF job.files > 1 THEN "captioning" ELSE "recording"]

Sent ==
  /\ JobAt("uploading")
  /\ Arrives(job.file)
  /\ AfterFile
  /\ UNCHANGED <<Quietly, excuses>>

FaultyUploadFails(error) == \* a file that will not go is left out
  IF job.upload < Uploads THEN job' = [job EXCEPT !.upload = @ + 1] ELSE AfterFile

FaultyRepeat(error) == \* one upload too many
  \/ /\ error \in {"transient", "rejected"} /\ job.upload <= Uploads
     /\ job' = [job EXCEPT !.upload = @ + 1]
  \/ /\ error \in {"transient", "gone"} \/ job.upload = Uploads
     /\ Raise(error)

\* _upload_one_with_retry: a refusal is repeated as well, a chat that is gone
\* is not, and neither is a call Telegram wants to wait for too long.
UploadFails(error) ==
  \/ /\ error \in {"transient", "rejected"} /\ job.upload < Uploads
     /\ job' = [job EXCEPT !.upload = @ + 1]
  \/ /\ error \in {"transient", "gone"} \/ job.upload = Uploads
     /\ Raise(error)

\* _delivery_errors: what Telegram says comes to one of these.
UploadErrors == {"transient", "rejected", "gone"}

\* An answer that does not come in time says nothing about the file.
NotSent ==
  /\ JobAt("uploading")
  /\ \/ /\ \E error \in UploadErrors : UploadFails(error)
        /\ UNCHANGED <<faults, chat>> /\ excuses' = excuses \cup Half
     \/ /\ Fault /\ UploadFails("transient")
        /\ Arrives(job.file) /\ excuses' = excuses \cup {"unheard"} \cup Half
  /\ UNCHANGED <<downloader, dir, fellback>>

\* The caption of a gallery, or the message with the link: tried once.
SendText ==
  /\ job.pc \in {"captioning", "linking"}
  /\ \/ /\ Fine /\ JobTo("recording")
        /\ IF JobAt("linking") THEN Arrives(Link) ELSE UNCHANGED chat
        /\ UNCHANGED excuses
     \/ /\ Fine /\ \E error \in UploadErrors : Raise(error)
        /\ excuses' = excuses \cup Half /\ UNCHANGED chat
     \/ /\ Fault /\ Raise("transient")
        /\ IF JobAt("linking") THEN Arrives(Link) ELSE UNCHANGED chat
        /\ excuses' = excuses \cup {"unheard"} \cup Half
  /\ UNCHANGED <<downloader, dir, fellback>>

Record ==
  /\ JobAt("recording")
  /\ \E kept \in BOOLEAN :
       /\ job' = [job EXCEPT !.pc = "saving", !.ledger = @ \/ kept, !.owed = job.files]
       /\ excuses' = IF kept THEN excuses ELSE excuses \cup {"ledger"}
       /\ IF kept THEN Fine ELSE Fault
  /\ UNCHANGED <<downloader, dir, chat, fellback>>

Save ==
  /\ JobAt("saving")
  /\ \/ Fine /\ JobTo("done")
     \/ Fault /\ Raise("transient")
  /\ UNCHANGED <<downloader, dir, chat, fellback, excuses>>

-----------------------------------------------------------------------------
(* The worker around the job, other jobs, the clock. *)

Working == ~Over /\ ~JobAt("queued")

\* arq cancels the job, whose call is cancelled with it, and forgets it.
JobTimesOut ==
  /\ Working /\ Fault
  /\ JobTo("failed")
  /\ EndCall(Me)
  /\ Cut(Me)
  /\ UNCHANGED <<count, left, open, age, suspended, dir, chat, fellback, excuses>>

\* The container dies with every process in it; cookies are good again.
Crash ==
  /\ Fault
  /\ JobTo(IF ~Working THEN job.pc ELSE IF job.tries < MaxTries THEN "queued" ELSE "failed")
  /\ call' = [c \in Callers |-> NoCall] /\ child' = {}
  /\ suspended' = 0
  /\ unarmed' = (unarmed \/ (left = 0 /\ \E c \in Callers : CallAt(c, "counted")))
  /\ excuses' = IF job.pc \in Sending \cup {"recording"} THEN excuses \cup {"crash"} ELSE excuses
  /\ UNCHANGED <<count, left, open, age, dir, chat, fellback>>

\* Bound: other jobs call while this one is at its first attempt's calls, and only
\* to download: a call that does not is one that never times out.
Elsewhere == job.tries <= 1 /\ job.pc \in {"analyzing", "sizing", "fetching", "post", "videos"}

OtherCall(c) ==
  /\ \/ Elsewhere /\ Begin(c, TRUE)
     \/ CallStep(c)
     \/ /\ call[c].pc \in Outcomes /\ EndCall(c)
        /\ UNCHANGED <<breaker, suspended, faults>>
  /\ UNCHANGED <<job, dir, chat, fellback, excuses>>

\* Bound: the clock stands while the job is at what no clock decides.
Tick ==
  /\ job.pc \in {"queued", "analyzing", "sizing", "fetching", "post", "videos"}
  /\ count > 0 \/ open > 0 \/ suspended > 0
  /\ Elapse
  /\ UNCHANGED <<job, dir, chat, fellback, excuses>>

DownloadStep ==
  \/ Extract \/ PickOption \/ Probe \/ CheckSize
  \/ FetchPhotos \/ ReExtract \/ FetchPost \/ StartVideo \/ StartPostVideos
  \/ MyCall \/ DownloadDone \/ CallFails \/ MakeCompatible

DeliveryStep == Route \/ Sent \/ NotSent \/ SendText \/ Record \/ Save

Next ==
  \/ PickUp \/ DownloadStep \/ DeliveryStep
  \/ ChildWrites
  \/ \E c \in Others : OtherCall(c)
  \/ JobTimesOut \/ Crash
  \/ Tick

Spec == Init /\ [][Next]_vars

\* The worker works; a call ends, if by its timeout; arq runs what is queued.
Fairness == WF_vars(PickUp \/ DownloadStep \/ DeliveryStep)

FairSpec == Spec /\ Fairness

-----------------------------------------------------------------------------

\* Whatever the platform, Telegram and Redis answer, the job ends: an attempt the
\* open breaker turns down costs a try like any other.
EveryJobEnds == <>[]Over

\* What is sent is what this attempt's last call fetched. A file an earlier call
\* left is among it only where that call was the same attempt's, with cookies
\* that were then put aside: the call without writes into the same directory.
StraysAreExcused ==
  job.pc \in {"compat", "delivering", "recording"} \cup Sending /\ "stray" \in dir => fellback

\* A file reaches the user twice only if a send that arrived was reported as
\* failed, an attempt failed between the files of a gallery or before its last
\* message, the ledger entry was lost, or the worker died between the send and
\* the entry.
SecondCopyIsExcused == (\E f \in DOMAIN chat : chat[f] > 1) => excuses # {}

\* A YouTube video whose formats are ordinary is refused for its size before any
\* byte of it is fetched, or not at all: the estimate on the button, which the
\* gate goes by, is the size of what the format selector then fetches.
OversizeIsNeverFetched == ~job.over

\* DONE says that every file of the attempt that delivered, or the link to all of
\* them, reached the user, though a later attempt may have written it.
DoneMeansAllSent ==
  JobAt("done") => chat[Link] > 0 \/ \A f \in 1 .. job.owed : chat[f] > 0

\* The user who looks at the chat sees a run of Parcel: files in order, each
\* once, and nothing once the job is over; what departs from it has an excuse.
Promise == INSTANCE Parcel WITH
  fate    <- IF Over THEN job.pc ELSE "open",
  got     <- chat,
  owed    <- job.owed,
  excused <- excuses # {}

ImplementsParcel == Promise!Spec
=============================================================================
