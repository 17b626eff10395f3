----------------------------- MODULE AttemptEnds -----------------------------
(***************************************************************************)
(* Why a job ends: the argument for EveryJobEnds, but for the fairness and   *)
(* for ENABLED, which are TLC's.                                            *)
(* What a job has left to do is a tuple of numbers, first of all its tries. *)
(* Every step of the worker on the job lowers it in the lexicographic order, *)
(* no other step raises it, and the order has no infinite descent: so the    *)
(* worker takes finitely many steps on a job, in every behaviour, whatever   *)
(* the platform, Telegram, Redis and the other callers do.                  *)
(***************************************************************************)
EXTENDS AttemptProofs, WellFoundedInduction

USE DownloaderAssumption, AttemptAssumption

Work == PickUp \/ DownloadStep \/ DeliveryStep

Numbers == [1 .. 5 -> Nat]

\* How far a place of an attempt is from its end. A retry waits at 1:
\* what comes after it is counted by the tries.
Distance(pc) ==
  CASE pc \in {"done", "failed"}        -> 0
    [] pc = "queued"                    -> 1
    [] pc = "saving"                    -> 2
    [] pc = "recording"                 -> 3
    [] pc \in {"captioning", "linking"} -> 4
    [] pc = "uploading"                 -> 5
    [] pc = "delivering"                -> 6
    [] pc = "compat"                    -> 7
    [] pc = "videos"                    -> 8
    [] pc = "post"                      -> 9
    [] pc = "fetching"                  -> 10
    [] pc = "sizing"                    -> 11
    [] pc = "analyzing"                 -> 12

\* The same of a call, which with cookies may be made twice.
CallDistance(c) ==
  CASE c.pc \in Outcomes                   -> 0
    [] c.pc = "tripping"                   -> 1
    [] c.pc = "counted"                    -> 2
    [] c.pc \in {"throttled", "succeeded"} -> 3
    [] c.pc = "running"                    -> IF c.cookies THEN 6 ELSE 4
    [] c.pc = "asking"                     -> IF c.cookies THEN 7 ELSE 5
    [] c.pc = "idle"                       -> 8

LeftOf(j, c) == [i \in 1 .. 5 |->
  CASE i = 1 -> MaxTries - j.tries
    [] i = 2 -> Distance(j.pc)
    [] i = 3 -> MaxFiles - j.file
    [] i = 4 -> Uploads - j.upload
    [] i = 5 -> CallDistance(c)]

Left == LeftOf(job, call[Me])

Fewer  == LexProductOrdering(OpToRel(<, Nat), Nat, 5)
Nearer == <<Left', Left>> \in Fewer

\* There is no infinite descent from what a job has left.
LEMMA NoEndlessWork == IsWellFoundedOn(Fewer, Numbers)
  BY NatLessThanWellFounded, WFLexProductOrdering DEF Fewer, Numbers

-----------------------------------------------------------------------------

LEMMA LeftParts ==
  ASSUME NEW j \in Job, NEW c \in Call
  PROVE  /\ LeftOf(j, c) \in Numbers
         /\ LeftOf(j, c)[1] = MaxTries - j.tries /\ LeftOf(j, c)[2] = Distance(j.pc)
         /\ LeftOf(j, c)[3] = MaxFiles - j.file /\ LeftOf(j, c)[4] = Uploads - j.upload
         /\ LeftOf(j, c)[5] = CallDistance(c)
<1>1. MaxTries - j.tries \in Nat /\ MaxFiles - j.file \in Nat /\ Uploads - j.upload \in Nat
  BY DEF Job, Files
<1>2. Distance(j.pc) \in Nat
  BY DEF Job, Distance, Ready, Sending
<1>3. CallDistance(c) \in Nat
  BY DEF Call, CallDistance, Busy, Outcomes
<1>4. QED
  BY <1>1, <1>2, <1>3 DEF LeftOf, Numbers

LEMMA LexLess ==
  ASSUME NEW f \in Numbers, NEW g \in Numbers, NEW i \in 1 .. 5,
         \A k \in 1 .. i - 1 : f[k] = g[k], f[i] < g[i]
  PROVE  <<f, g>> \in Fewer
<1>1. <<f[i], g[i]>> \in OpToRel(<, Nat)
  BY DEF OpToRel, Numbers
<1>2. QED
  BY <1>1 DEF Fewer, LexProductOrdering, Numbers

\* The five ways to come nearer.
Tried    == job'.tries = job.tries + 1
Moved    == job'.tries = job.tries /\ Distance(job'.pc) < Distance(job.pc)
Advanced == UNCHANGED <<job.tries, job.pc>> /\ job'.file = job.file + 1
Repeated == UNCHANGED <<job.tries, job.pc, job.file>> /\ job'.upload = job.upload + 1
Called   == UNCHANGED job /\ CallDistance(call'[Me]) < CallDistance(call[Me])

LEMMA WaysNearer ==
  ASSUME TypeOK, TypeOK', Tried \/ Moved \/ Advanced \/ Repeated \/ Called
  PROVE  Nearer
<1> DEFINE old == LeftOf(job, call[Me])
           new == LeftOf(job', call'[Me])
<1>0. job \in Job /\ job' \in Job /\ call[Me] \in Call /\ call'[Me] \in Call
  BY DEF TypeOK, DownloaderTypeOK
<1>1. old \in Numbers /\ new \in Numbers
  BY <1>0, LeftParts
<1> HIDE DEF old, new
<1>2. /\ old[1] = MaxTries - job.tries /\ old[2] = Distance(job.pc)
      /\ old[3] = MaxFiles - job.file /\ old[4] = Uploads - job.upload
      /\ old[5] = CallDistance(call[Me])
      /\ new[1] = MaxTries - job'.tries /\ new[2] = Distance(job'.pc)
      /\ new[3] = MaxFiles - job'.file /\ new[4] = Uploads - job'.upload
      /\ new[5] = CallDistance(call'[Me])
  BY <1>0, LeftParts DEF old, new
<1>3. Nearer <=> <<new, old>> \in Fewer
  BY DEF Nearer, Left, old, new
<1>4. CASE Tried
  <2>1. new[1] < old[1] /\ \A k \in 1 .. 1 - 1 : new[k] = old[k]
    BY <1>0, <1>4, <1>2 DEF Tried, Job
  <2>2. QED
    BY <1>1, <1>3, <2>1, LexLess
<1>5. CASE Moved
  <2>1. new[2] < old[2] /\ new[1] = old[1]
    BY <1>0, <1>5, <1>2 DEF Moved
  <2>2. \A k \in 1 .. 2 - 1 : new[k] = old[k]
    BY <2>1
  <2>3. QED
    BY <1>1, <1>3, <2>1, <2>2, LexLess
<1>6. CASE Advanced
  <2>1. new[3] < old[3] /\ new[1] = old[1] /\ new[2] = old[2]
    BY <1>0, <1>6, <1>2 DEF Advanced, Job, Files
  <2>2. \A k \in 1 .. 3 - 1 : new[k] = old[k]
    BY <2>1
  <2>3. QED
    BY <1>1, <1>3, <2>1, <2>2, LexLess
<1>7. CASE Repeated
  <2>1. new[4] < old[4] /\ new[1] = old[1] /\ new[2] = old[2] /\ new[3] = old[3]
    BY <1>0, <1>7, <1>2 DEF Repeated, Job
  <2>2. \A k \in 1 .. 4 - 1 : new[k] = old[k]
    BY <2>1
  <2>3. QED
    BY <1>1, <1>3, <2>1, <2>2, LexLess
<1>8. CASE Called
  <2>1. /\ new[5] < old[5]
        /\ new[1] = old[1] /\ new[2] = old[2] /\ new[3] = old[3] /\ new[4] = old[4]
    BY <1>0, <1>8, <1>2 DEF Called
  <2>2. \A k \in 1 .. 5 - 1 : new[k] = old[k]
    BY <2>1
  <2>3. QED
    BY <1>1, <1>3, <2>1, <2>2, LexLess
<1>9. QED
  BY <1>4, <1>5, <1>6, <1>7, <1>8

-----------------------------------------------------------------------------

\* Wherever an attempt may end in an error, it is nearer once it has.
LEMMA GivenUp ==
  ASSUME job \in Job, SameBut("queued") \/ SameBut("failed"),
         job.pc \notin {"done", "failed", "queued"}
  PROVE  Moved
  BY DEF SameBut, Moved, Distance, Job, Ready, Sending

LEMMA MovedTo ==
  ASSUME job \in Job, NEW pc \in JobPcs, JobTo(pc), Distance(pc) < Distance(job.pc)
  PROVE  Moved
  BY JobTypes DEF SameBut, Moved

LEMMA CallNearer ==
  ASSUME call \in [Callers -> Call], NEW c \in Callers, CallStep(c)
  PROVE  CallDistance(call'[c]) < CallDistance(call[c])
<1> USE DEF CallDistance, Busy, Outcomes, Pcs, CallAt
<1>1. CASE Ask(c)
  BY <1>1, CallTypes DEF Ask
<1>2. CASE Succeed(c)
  BY <1>2, CallTypes DEF Succeed
<1>3. CASE Throttle(c)
  BY <1>3, CallTypes DEF Throttle
<1>4. CASE Deny(c)
  BY <1>4, CallTypes DEF Deny
<1>5. CASE Break(c)
  <2>1. CASE call[c].cookies
    <3>1. call'[c].pc = "asking" /\ call'[c].cookies = FALSE
      <4>1. call' = [call EXCEPT ![c] = [[call[c] EXCEPT !.pc = "asking"] EXCEPT !.cookies = FALSE]]
        BY <1>5, <2>1 DEF Break
      <4>2. call[c] \in Call
        OBVIOUS
      <4>3. QED
        BY <4>1, <4>2 DEF Call
    <3>2. QED
      BY <1>5, <2>1, <3>1 DEF Break
  <2>2. CASE ~call[c].cookies
    BY <1>5, <2>2, CallTypes DEF Break
  <2>3. QED
    BY <2>1, <2>2
<1>6. CASE TimeOut(c)
  BY <1>6, CallTypes DEF TimeOut
<1>7. CASE RecordSuccess(c)
  BY <1>7, CallTypes DEF RecordSuccess
<1>8. CASE Increment(c)
  BY <1>8, CallTypes DEF Increment, AfterCount
<1>9. CASE Arm(c)
  BY <1>9, CallTypes DEF Arm, AfterCount
<1>10. CASE Trip(c)
  BY <1>10, CallTypes DEF Trip
<1>11. QED
  BY <1>1, <1>2, <1>3, <1>4, <1>5, <1>6, <1>7, <1>8, <1>9, <1>10 DEF CallStep

LEMMA CallBegins ==
  ASSUME TypeOK, NEW fetch \in BOOLEAN, Begin(Me, fetch)
  PROVE  CallDistance(call'[Me]) < CallDistance(call[Me])
  BY BeginTypes DEF TypeOK, DownloaderTypeOK, CallAt, CallDistance, Outcomes

LEMMA DownloadNearer ==
  ASSUME TypeOK, DownloadStep
  PROVE  Moved \/ Called
<1>0. job \in Job /\ call \in [Callers -> Call]
  BY DEF TypeOK, DownloaderTypeOK
<1>1. CASE Extract \/ Probe \/ ReExtract \/ StartPostVideos
  <2>1. UNCHANGED job /\ \E fetch \in BOOLEAN : Begin(Me, fetch)
    BY <1>1, <1>0 DEF Extract, Probe, ReExtract, StartPostVideos, JobAt, JobTo, Job
  <2>2. QED
    BY <2>1, CallBegins DEF Called
<1>2. CASE StartVideo
  BY <1>0, <1>2, MovedTo DEF StartVideo, JobAt, Distance, JobPcs, Ready
<1>3. CASE MyCall
  BY <1>0, <1>3, CallNearer DEF MyCall, Called
<1>4. CASE CheckSize
  <2>0. job.pc = "sizing"
    BY <1>4 DEF CheckSize, JobAt
  <2>1. CASE JobTo("failed")
    BY <1>0, <2>0, <2>1, MovedTo DEF Distance, JobPcs
  <2>2. ASSUME NEW over \in Admitted, job' = [job EXCEPT !.pc = "fetching", !.over = over]
        PROVE  Moved
    <3>1. job'.pc = "fetching" /\ job'.tries = job.tries
      BY <1>0, <2>2 DEF Job
    <3>2. QED
      BY <2>0, <3>1 DEF Distance, Moved
  <2>3. QED
    BY <1>4, <2>1, <2>2 DEF CheckSize
<1>5. CASE FetchPhotos
  <2>1. JobAt("fetching") /\ \E photos \in Photos : JobTo("post") \/ JobTo("compat") \/ Raise(photos)
    BY <1>5 DEF FetchPhotos
  <2>2. CASE JobTo("post") \/ JobTo("compat")
    BY <1>0, <2>1, <2>2, MovedTo DEF JobAt, Distance, JobPcs, Ready
  <2>3. QED
    BY <1>0, <2>1, <2>2, RaiseTypes, GivenUp DEF JobAt
<1>6. CASE FetchPost \/ DownloadDone
  <2>1. job.pc \in {"post", "videos"}
    BY <1>6 DEF FetchPost, DownloadDone, JobAt
  <2>2. CASE JobTo("compat") \/ (job.pc = "post" /\ JobTo("videos"))
    BY <1>0, <2>1, <2>2, MovedTo DEF Distance, JobPcs, Ready
  <2>3. CASE \E error : Raise(error)
    BY <1>0, <2>1, <2>3, RaiseTypes, GivenUp
  <2>4. QED
    BY <1>6, <2>2, <2>3 DEF FetchPost, DownloadDone, JobAt
<1>7. CASE CallFails
  BY <1>0, <1>7, RaiseTypes, GivenUp DEF CallFails
<1>8. CASE MakeCompatible
  <2>1. PICK files \in Files :
          job' = [job EXCEPT !.pc = "delivering", !.files = files, !.file = 1, !.upload = 1]
    BY <1>8 DEF MakeCompatible
  <2>2. job'.pc = "delivering" /\ job'.tries = job.tries
    BY <1>0, <2>1 DEF Job
  <2>3. QED
    BY <1>8, <2>2 DEF MakeCompatible, JobAt, Distance, Moved
<1>9. CASE PickOption
  <2>1. job.pc = "analyzing" /\ (JobTo("sizing") \/ JobTo("failed"))
    BY <1>9 DEF PickOption, JobAt
  <2>2. QED
    BY <1>0, <2>1, MovedTo DEF Distance, JobPcs, Ready
<1>10. QED
  BY <1>1, <1>2, <1>3, <1>4, <1>5, <1>6, <1>7, <1>8, <1>9 DEF DownloadStep

LEMMA DeliveryNearer ==
  ASSUME TypeOK, DeliveryStep
  PROVE  Moved \/ Advanced \/ Repeated
<1>0. job \in Job
  BY DEF TypeOK
<1>1. CASE Route
  <2>1. CASE JobTo("uploading") \/ JobTo("linking")
    BY <1>0, <1>1, <2>1, MovedTo DEF Route, JobAt, Distance, JobPcs, Sending
  <2>2. QED
    BY <1>0, <1>1, <2>1, RaiseTypes, GivenUp DEF Route, JobAt
<1>2. CASE Sent
  BY <1>0, <1>2, AfterFileTypes DEF Sent, JobAt, Advanced, Moved, Distance, Job, Files
<1>3. CASE NotSent
  <2>1. JobAt("uploading") /\ \E error \in UploadErrors : UploadFails(error)
    BY <1>3 DEF NotSent, UploadErrors
  <2>2. PICK error \in UploadErrors : UploadFails(error)
    BY <2>1
  <2>3. CASE job' = [job EXCEPT !.upload = @ + 1]
    BY <1>0, <2>3 DEF Repeated, Job
  <2>4. CASE Raise(error)
    BY <1>0, <2>1, <2>4, RaiseTypes, GivenUp DEF JobAt
  <2>5. QED
    BY <2>2, <2>3, <2>4 DEF UploadFails
<1>4. CASE SendText
  <2>1. job.pc \in {"captioning", "linking"} /\ (JobTo("recording") \/ \E error : Raise(error))
    BY <1>4 DEF SendText
  <2>2. CASE JobTo("recording")
    BY <1>0, <2>1, <2>2, MovedTo DEF Distance, JobPcs
  <2>3. QED
    BY <1>0, <2>1, <2>2, RaiseTypes, GivenUp
<1>5. CASE Record
  <2>1. PICK kept \in BOOLEAN :
          job' = [job EXCEPT !.pc = "saving", !.ledger = @ \/ kept, !.owed = job.files]
    BY <1>5 DEF Record
  <2>2. job'.pc = "saving" /\ job'.tries = job.tries
    BY <1>0, <2>1 DEF Job
  <2>3. QED
    BY <1>5, <2>2 DEF Record, JobAt, Distance, Moved
<1>6. CASE Save
  <2>1. CASE JobTo("done")
    BY <1>0, <1>6, <2>1, MovedTo DEF Save, JobAt, Distance, JobPcs
  <2>2. QED
    BY <1>0, <1>6, <2>1, RaiseTypes, GivenUp DEF Save, JobAt
<1>7. QED
  BY <1>1, <1>2, <1>3, <1>4, <1>5, <1>6 DEF DeliveryStep

LEMMA PickUpNearer ==
  ASSUME TypeOK, PickUp
  PROVE  Tried
<1>1. job \in Job
  BY DEF TypeOK
<1>2. PICK pc \in {"saving", "analyzing", "failed"} : job' = [job EXCEPT !.pc = pc, !.tries = @ + 1]
  BY DEF PickUp
<1>3. QED
  BY <1>1, <1>2 DEF Tried, Job

LEMMA WorkNearer == ASSUME TypeOK, TypeOK', Work PROVE Nearer
  BY PickUpNearer, DownloadNearer, DeliveryNearer, WaysNearer DEF Work

\* The clock, other callers and the child leave it alone; what cuts an attempt
\* off brings it nearer; a crash between attempts finds no call of the job's.
LEMMA RestNotFarther ==
  ASSUME TypeOK, TypeOK', Swept, [Next]_vars, ~Work
  PROVE  Nearer \/ UNCHANGED Left
<1>0. job \in Job /\ job' \in Job /\ call \in [Callers -> Call]
  BY DEF TypeOK, DownloaderTypeOK
<1>1. CASE UNCHANGED vars \/ ChildWrites \/ Tick
  BY <1>1 DEF vars, downloader, ChildWrites, Tick, Elapse, Left
<1>2. ASSUME NEW c \in Others, OtherCall(c) PROVE UNCHANGED Left
  <2>1. UNCHANGED job /\ call'[Me] = call[Me]
    BY <1>0, <1>2, CallFlow, BeginTypes, EndTypes DEF OtherCall, Others
  <2>2. QED
    BY <2>1 DEF Left
<1>3. CASE JobTimesOut
  BY <1>0, <1>3, JobTypes, GivenUp, WaysNearer
  DEF JobTimesOut, Working, Over, JobAt, JobPcs
<1>4. CASE Crash
  <2>1. CASE Working
    <3>1. JobTo("queued") \/ JobTo("failed")
      BY <1>4, <2>1 DEF Crash
    <3>2. QED
      BY <1>0, <2>1, <3>1, JobTypes, GivenUp, WaysNearer DEF Working, Over, JobAt, JobPcs
  <2>2. CASE ~Working
    <3>1. JobTo(job.pc) /\ job.pc \notin Calling
      BY <1>4, <2>2 DEF Crash, Working, Over, JobAt, Calling
    <3>2. job' = job
      BY <1>0, <3>1 DEF JobTo, Job
    <3>3. call[Me] = NoCall /\ call'[Me] = NoCall
      BY <1>4, <3>1 DEF Crash, Swept
    <3>4. QED
      BY <3>2, <3>3 DEF Left
  <2>3. QED
    BY <2>1, <2>2
<1>5. QED
  BY <1>1, <1>2, <1>3, <1>4 DEF Next, Work

\* Every step of the worker on the job brings it nearer to its end, and no step
\* of anyone takes it farther away.
WorkWindsDown == [][(Work => Nearer) /\ (Nearer \/ UNCHANGED Left)]_vars

(* Of PickUp, DownloadStep and DeliveryStep, whose fairness EveryJobEnds goes    *)
(* by: whatever fails, is refused, breaks, trips the breaker, times out or is   *)
(* restarted, no job is worked on for ever.                                    *)
THEOREM WorkIsFinite == Spec => WorkWindsDown
<1>1. Init => TypeOK /\ ChildDiesWithItsCall /\ Swept
  BY InitTypes DEF Init, DownloaderInit, ChildDiesWithItsCall, Swept, Sending
<1>2. TypeOK /\ ChildDiesWithItsCall /\ Swept /\ [Next]_vars => TypeOK' /\ ChildDiesWithItsCall' /\ Swept'
  BY TypeStep, DownloaderFlow, ChildStep, SweptStep DEF TypeOK
<1>3. TypeOK /\ TypeOK' /\ Swept /\ [Next]_vars => [(Work => Nearer) /\ (Nearer \/ UNCHANGED Left)]_vars
  BY WorkNearer, RestNotFarther
<1>4. QED
  BY <1>1, <1>2, <1>3, PTL DEF Spec, WorkWindsDown

-----------------------------------------------------------------------------

\* The one place where the worker can be stuck is the queue, with no try left.
TryIsLeft == JobAt("queued") => job.tries < MaxTries

LEMMA RaiseLeavesATry ==
  ASSUME job \in Job, NEW error, Raise(error)
  PROVE  TryIsLeft'
<1>1. CASE job.tries < MaxTries
  BY <1>1, RaiseTypes DEF SameBut, TryIsLeft, JobAt
<1>2. CASE ~(job.tries < MaxTries)
  BY <1>2, JobTypes DEF Raise, SameBut, TryIsLeft, JobAt, JobPcs
<1>3. QED
  BY <1>1, <1>2

LEMMA ElsewhereNoQueue ==
  ASSUME job \in Job, NEW pc \in JobPcs \ {"queued"}, JobTo(pc)
  PROVE  TryIsLeft'
  BY JobTypes DEF SameBut, TryIsLeft, JobAt

LEMMA TryIsLeftStep ==
  ASSUME TypeOK, TryIsLeft, [Next]_vars
  PROVE  TryIsLeft'
<1>0. job \in Job
  BY DEF TypeOK
<1>1. CASE \E error : Raise(error)
  BY <1>0, <1>1, RaiseLeavesATry
<1>2. CASE \E pc \in JobPcs \ {"queued"} : JobTo(pc)
  BY <1>0, <1>2, ElsewhereNoQueue
<1>3. CASE UNCHANGED job
  BY <1>3 DEF TryIsLeft, JobAt
<1>4. CASE job'.pc # "queued"
  BY <1>4 DEF TryIsLeft, JobAt
<1>5. PickUp => job'.pc # "queued"
  <2>1. SUFFICES ASSUME PickUp PROVE job'.pc # "queued"
    OBVIOUS
  <2>2. PICK pc \in {"saving", "analyzing", "failed"} : job' = [job EXCEPT !.pc = pc, !.tries = @ + 1]
    BY <2>1 DEF PickUp
  <2>3. QED
    BY <1>0, <2>2 DEF Job
<1>6. CASE DownloadStep
  <2>1. CASE Extract \/ Probe \/ ReExtract \/ StartPostVideos \/ MyCall
    BY <1>3, <2>1 DEF Extract, Probe, ReExtract, StartPostVideos, MyCall, JobTo
  <2>2. CASE PickOption \/ StartVideo \/ FetchPhotos \/ FetchPost \/ DownloadDone \/ CallFails
    BY <1>1, <1>2, <2>2 DEF PickOption, StartVideo, FetchPhotos, FetchPost, DownloadDone, CallFails, JobPcs, Ready
  <2>3. CASE CheckSize \/ MakeCompatible
    <3>1. \/ JobTo("failed")
          \/ \E over \in Admitted : job' = [job EXCEPT !.pc = "fetching", !.over = over]
          \/ \E files \in Files :
               job' = [job EXCEPT !.pc = "delivering", !.files = files, !.file = 1, !.upload = 1]
      BY <2>3 DEF CheckSize, MakeCompatible
    <3>2. JobTo("failed") \/ job'.pc # "queued"
      BY <1>0, <3>1 DEF Job
    <3>3. QED
      BY <1>2, <1>4, <3>2 DEF JobPcs
  <2>4. QED
    BY <1>6, <2>1, <2>2, <2>3 DEF DownloadStep
<1>7. CASE DeliveryStep
  <2>1. CASE Route \/ SendText \/ Save
    BY <1>1, <1>2, <2>1 DEF Route, SendText, Save, JobPcs, Sending
  <2>2. CASE Sent
    BY <1>0, <1>4, <2>2, AfterFileTypes DEF Sent, JobAt, Job, Files
  <2>3. CASE NotSent
    <3>1. job.pc = "uploading" /\ \E error \in UploadErrors : UploadFails(error)
      BY <2>3 DEF NotSent, JobAt, UploadErrors
    <3>2. (\E error : Raise(error)) \/ job' = [job EXCEPT !.upload = @ + 1]
      BY <3>1 DEF UploadFails
    <3>3. QED
      BY <1>0, <1>1, <1>4, <3>1, <3>2 DEF Job
  <2>4. CASE Record
    <3>1. \E kept \in BOOLEAN :
            job' = [job EXCEPT !.pc = "saving", !.ledger = @ \/ kept, !.owed = job.files]
      BY <2>4 DEF Record
    <3>2. QED
      BY <1>0, <1>4, <3>1 DEF Job
  <2>5. QED
    BY <1>7, <2>1, <2>2, <2>3, <2>4 DEF DeliveryStep
<1>8. CASE Crash
  <2>1. CASE Working
    <3>1. \/ JobTo("queued") /\ job.tries < MaxTries
          \/ JobTo("failed")
      BY <1>8, <2>1 DEF Crash
    <3>2. QED
      BY <1>0, <1>2, <3>1, JobTypes DEF SameBut, TryIsLeft, JobAt, JobPcs
  <2>2. CASE ~Working
    BY <1>0, <1>3, <1>8, <2>2 DEF Crash, JobTo, Job
  <2>3. QED
    BY <2>1, <2>2
<1>9. CASE JobTimesOut
  BY <1>2, <1>9 DEF JobTimesOut, JobPcs
<1>10. CASE ChildWrites \/ (\E c \in Others : OtherCall(c)) \/ Tick \/ UNCHANGED vars
  BY <1>3, <1>10 DEF ChildWrites, OtherCall, Tick, vars
<1>11. QED
  BY <1>4, <1>5, <1>6, <1>7, <1>8, <1>9, <1>10 DEF Next

(* A job that waits to be tried again may be: the last failed attempt of a job   *)
(* writes FAILED, whichever way it failed, and never leaves it to the queue.    *)
THEOREM QueuedIsNotStuck == Spec => []TryIsLeft
<1>1. Init => TryIsLeft
  BY DEF Init, TryIsLeft, JobAt
<1>2. TypeOK /\ TryIsLeft /\ [Next]_vars => TryIsLeft'
  BY TryIsLeftStep
<1>3. QED
  BY <1>1, <1>2, TypeCorrect, PTL DEF Spec
=============================================================================
