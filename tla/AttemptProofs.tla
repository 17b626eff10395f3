---------------------------- MODULE AttemptProofs ---------------------------
(***************************************************************************)
(* What one job's attempts promise, beside any number of other callers of   *)
(* yt-dlp, for any number of tries, uploads, files and failures.            *)
(***************************************************************************)
EXTENDS Attempt, TLAPS

USE DownloaderAssumption, AttemptAssumption

-----------------------------------------------------------------------------
(***************************************************************************)
(* The calls: every step of the worker does one of six things to them.      *)
(***************************************************************************)

Ended(c) ==
  /\ EndCall(c) /\ Cut(c)
  /\ UNCHANGED <<count, left, open, age, suspended>>

AllEnded ==
  /\ call' = [c \in Callers |-> NoCall] /\ child' = {} /\ suspended' = 0
  /\ unarmed' = (unarmed \/ (left = 0 /\ \E c \in Callers : CallAt(c, "counted")))
  /\ UNCHANGED <<count, left, open, age>>

DownloaderStep ==
  \/ UNCHANGED downloader
  \/ \E c \in Callers : \E fetch \in BOOLEAN : Begin(c, fetch)
  \/ \E c \in Callers : CallStep(c)
  \/ \E c \in Callers : Ended(c)
  \/ AllEnded
  \/ Elapse

Pcs == {"idle"} \cup Busy \cup Outcomes

LEMMA CallTypes ==
  ASSUME call \in [Callers -> Call], NEW c \in Callers, NEW pc \in Pcs, CallTo(c, pc)
  PROVE  /\ call' \in [Callers -> Call]
         /\ call'[c].pc = pc /\ call'[c].fetch = call[c].fetch /\ call'[c].cookies = call[c].cookies
         /\ \A o \in Callers \ {c} : call'[o] = call[o]
<1>1. \A k \in Call : /\ [k EXCEPT !.pc = pc] \in Call /\ [k EXCEPT !.pc = pc].pc = pc
                      /\ [k EXCEPT !.pc = pc].fetch = k.fetch /\ [k EXCEPT !.pc = pc].cookies = k.cookies
  BY DEF Call, Pcs
<1>2. call'[c] = [call[c] EXCEPT !.pc = pc] /\ \A o \in Callers \ {c} : call'[o] = call[o]
  BY DEF CallTo
<1>3. call' = [o \in Callers |-> call'[o]]
  BY DEF CallTo
<1>4. QED
  BY <1>1, <1>2, <1>3

LEMMA EndTypes ==
  ASSUME call \in [Callers -> Call], NEW c \in Callers, EndCall(c)
  PROVE  call' \in [Callers -> Call] /\ call'[c] = NoCall /\ \A o \in Callers \ {c} : call'[o] = call[o]
<1>1. NoCall \in Call
  BY DEF NoCall, Call
<1>2. QED
  BY <1>1 DEF EndCall

LEMMA BeginTypes ==
  ASSUME call \in [Callers -> Call], NEW c \in Callers, NEW fetch \in BOOLEAN, Begin(c, fetch)
  PROVE  /\ call' \in [Callers -> Call] /\ CallAt(c, "idle")
         /\ call'[c].pc = "asking" /\ call'[c].fetch = fetch
         /\ \A o \in Callers \ {c} : call'[o] = call[o]
<1>1. PICK cookies \in Auth :
        call' = [call EXCEPT ![c] = [pc |-> "asking", cookies |-> cookies, fetch |-> fetch]]
  BY DEF Begin
<1>2. [pc |-> "asking", cookies |-> cookies, fetch |-> fetch] \in Call
  BY DEF Call, Busy, Auth
<1>3. QED
  BY <1>1, <1>2 DEF Begin

\* The call that Break makes again.
LEMMA AgainTypes ==
  ASSUME call \in [Callers -> Call], NEW c \in Callers,
         call' = [call EXCEPT ![c].pc = "asking", ![c].cookies = FALSE]
  PROVE  /\ call' \in [Callers -> Call]
         /\ call'[c].pc = "asking" /\ call'[c].fetch = call[c].fetch
         /\ \A o \in Callers \ {c} : call'[o] = call[o]
<1> DEFINE again(k) == [[k EXCEPT !.pc = "asking"] EXCEPT !.cookies = FALSE]
<1>1. \A k \in Call : again(k) \in Call /\ again(k).pc = "asking" /\ again(k).fetch = k.fetch
  BY DEF Call, Busy
<1>2. call'[c] = again(call[c])
  OBVIOUS
<1>3. call' = [o \in Callers |-> call'[o]] /\ \A o \in Callers \ {c} : call'[o] = call[o]
  OBVIOUS
<1>4. call[c] \in Call
  OBVIOUS
<1> HIDE DEF again
<1>5. call'[c] \in Call /\ call'[c].pc = "asking" /\ call'[c].fetch = call[c].fetch
  BY <1>1, <1>2, <1>4
<1>6. QED
  BY <1>3, <1>5

LEMMA FaultTypes == ASSUME faults \in 0 .. MaxFaults, Fault \/ Fine PROVE faults' \in 0 .. MaxFaults
  BY DEF Fault, Fine

(* What a step of a call does to it: it goes on, or, with cookies, begins again. *)
LEMMA CallFlow ==
  ASSUME call \in [Callers -> Call], NEW c \in Callers, CallStep(c)
  PROVE  /\ call' \in [Callers -> Call]
         /\ \A o \in Callers \ {c} : call'[o] = call[o]
         /\ call'[c].fetch = call[c].fetch
         /\ call[c].pc \in Busy /\ call'[c].pc \in Busy \cup Outcomes
         /\ call[c].pc # "counted" /\ call'[c].pc = "counted" => Increment(c)
<1> USE DEF Busy, Outcomes, Pcs, CallAt
<1>1. CASE Ask(c)
  BY <1>1, CallTypes DEF Ask
<1>2. CASE Succeed(c)
  BY <1>2, CallTypes DEF Succeed
<1>3. CASE Throttle(c)
  BY <1>3, CallTypes DEF Throttle
<1>4. CASE Deny(c)
  BY <1>4, CallTypes DEF Deny
<1>5. CASE Break(c)
  BY <1>5, CallTypes, AgainTypes DEF Break
<1>6. CASE TimeOut(c)
  <2>1. CallAt(c, "running") /\ CallTo(c, "timeout")
    BY <1>6 DEF TimeOut
  <2>2. QED
    BY <2>1, CallTypes
<1>7. CASE RecordSuccess(c)
  BY <1>7, CallTypes DEF RecordSuccess
<1>8. CASE Increment(c)
  BY <1>8, CallTypes DEF Increment, AfterCount
<1>9. CASE Arm(c)
  BY <1>9, CallTypes DEF Arm, AfterCount
<1>10. CASE Trip(c)
  BY <1>10, CallTypes DEF Trip
<1>11. QED
  BY <1>1, <1>2, <1>3, <1>4, <1>5, <1>6, <1>7, <1>8, <1>9, <1>10 DEF CallStep

-----------------------------------------------------------------------------
(***************************************************************************)
(* Type correctness of the calls and of the breaker.                        *)
(***************************************************************************)

LEMMA BreakerTypes ==
  ASSUME DownloaderTypeOK, NEW c \in Callers, CallStep(c)
  PROVE  /\ child' \subseteq Callers /\ count' \in 0 .. Threshold /\ left' \in 0 .. Window
         /\ open' \in 0 .. Cooldown /\ suspended' \in 0 .. Suspension /\ faults' \in 0 .. MaxFaults
         /\ age' \in 0 .. Window /\ unarmed' \in BOOLEAN
<1> USE DEF DownloaderTypeOK, breaker
<1>1. CASE Ask(c)
  BY <1>1, FaultTypes DEF Ask
<1>2. CASE Succeed(c) \/ Throttle(c) \/ Deny(c) \/ TimeOut(c)
  BY <1>2 DEF Succeed, Throttle, Deny, TimeOut
<1>3. CASE Break(c)
  BY <1>3 DEF Break
<1>4. CASE RecordSuccess(c)
  <2>1. CASE Fine /\ count' = 0 /\ left' = 0 /\ age' = 0 /\ unarmed' = FALSE
    <3>1. unarmed' \in BOOLEAN
      BY <2>1, Zenon
    <3>2. QED
      BY <1>4, <2>1, <3>1, FaultTypes DEF RecordSuccess
  <2>2. CASE Fault /\ UNCHANGED <<count, left, age, unarmed>>
    BY <1>4, <2>2, FaultTypes DEF RecordSuccess
  <2>3. QED
    BY <1>4, <2>1, <2>2 DEF RecordSuccess
<1>5. CASE Increment(c)
  BY <1>5, FaultTypes DEF Increment, Counted
<1>6. CASE Arm(c)
  <2>1. unarmed' \in BOOLEAN
    BY <1>6 DEF Arm
  <2>2. QED
    BY <1>6, <2>1, FaultTypes DEF Arm
<1>7. CASE Trip(c)
  BY <1>7, FaultTypes DEF Trip
<1>8. QED
  BY <1>1, <1>2, <1>3, <1>4, <1>5, <1>6, <1>7 DEF CallStep

LEMMA DownloaderTypes ==
  ASSUME DownloaderTypeOK, DownloaderStep, faults' \in 0 .. MaxFaults
  PROVE  DownloaderTypeOK'
<1> USE DEF DownloaderTypeOK
<1>1. CASE UNCHANGED downloader
  BY <1>1 DEF downloader, breaker
<1>2. ASSUME NEW c \in Callers, NEW fetch \in BOOLEAN, Begin(c, fetch) PROVE DownloaderTypeOK'
  BY <1>2, BeginTypes DEF Begin, breaker
<1>3. ASSUME NEW c \in Callers, CallStep(c) PROVE DownloaderTypeOK'
  BY <1>3, CallFlow, BreakerTypes
<1>4. ASSUME NEW c \in Callers, Ended(c) PROVE DownloaderTypeOK'
  <2>1. unarmed' \in BOOLEAN /\ child' \subseteq Callers
    BY <1>4 DEF Ended, Cut, EndCall
  <2>2. QED
    BY <1>4, <2>1, EndTypes DEF Ended
<1>5. CASE AllEnded
  <2>1. unarmed' \in BOOLEAN /\ NoCall \in Call
    BY <1>5 DEF AllEnded, NoCall, Call
  <2>2. QED
    BY <1>5, <2>1 DEF AllEnded
<1>6. CASE Elapse
  BY <1>6 DEF Elapse, Earlier
<1>7. QED
  BY <1>1, <1>2, <1>3, <1>4, <1>5, <1>6 DEF DownloaderStep

-----------------------------------------------------------------------------
(***************************************************************************)
(* The steps of the worker, by what they do to the calls.                   *)
(***************************************************************************)

Plain ==
  \/ PickUp \/ FetchPhotos \/ MakeCompatible
  \/ DeliveryStep \/ ChildWrites

Answered == PickOption \/ CheckSize \/ FetchPost \/ DownloadDone \/ CallFails
Opening  == Extract \/ Probe \/ ReExtract \/ StartVideo \/ StartPostVideos

LEMMA NextSplit ==
  [Next]_vars => \/ UNCHANGED vars \/ Plain \/ Answered \/ Opening \/ MyCall
                 \/ (\E c \in Others : OtherCall(c)) \/ JobTimesOut \/ Crash \/ Tick
  BY DEF Next, DownloadStep, Plain, Answered, Opening

LEMMA PlainFrame == Plain => UNCHANGED downloader /\ (Fine \/ Fault)
<1> USE DEF Quietly, Untold, Fine
<1>1. PickUp \/ FetchPhotos \/ MakeCompatible \/ ChildWrites => UNCHANGED downloader /\ (Fine \/ Fault)
  BY DEF PickUp, FetchPhotos, MakeCompatible, ChildWrites, downloader, breaker
<1>2. DeliveryStep => UNCHANGED downloader /\ (Fine \/ Fault)
  BY DEF DeliveryStep, Route, Sent, NotSent, SendText, Record, Save
<1>3. QED
  BY <1>1, <1>2 DEF Plain

LEMMA AnsweredFrame ==
  Answered => EndCall(Me) /\ UNCHANGED <<breaker, suspended>> /\ Fine /\ call[Me].pc # "counted"
  BY DEF Answered, PickOption, CheckSize, FetchPost, DownloadDone, CallFails, CallAt, Outcomes, Fine

LEMMA OpeningFrame ==
  ASSUME job \in Job, Opening
  PROVE  Fine /\ \E fetch \in BOOLEAN : Begin(Me, fetch) /\ (fetch => job'.pc = "videos")
<1>1. CASE Extract
  BY <1>1 DEF Extract, Begin, Fine
<1>2. CASE Probe \/ ReExtract
  BY <1>2 DEF Probe, ReExtract, Begin, Fine
<1>3. CASE StartVideo
  <2>1. Fine /\ Begin(Me, TRUE)
    BY <1>3 DEF StartVideo, Begin, Fine
  <2>2. job'.pc = "videos"
    BY <1>3 DEF StartVideo, JobTo, Job
  <2>3. QED
    BY <2>1, <2>2
<1>4. CASE StartPostVideos
  <2>1. Fine /\ Begin(Me, TRUE)
    BY <1>4 DEF StartPostVideos, Begin, Fine
  <2>2. job'.pc = "videos"
    BY <1>4 DEF StartPostVideos, JobAt
  <2>3. QED
    BY <2>1, <2>2
<1>5. QED
  BY <1>1, <1>2, <1>3, <1>4 DEF Opening

LEMMA DownloaderFlow ==
  ASSUME DownloaderTypeOK, job \in Job, [Next]_vars
  PROVE  DownloaderStep /\ faults' \in 0 .. MaxFaults
<1> USE DEF DownloaderStep, DownloaderTypeOK
<1>1. CASE UNCHANGED vars
  BY <1>1 DEF vars
<1>2. CASE Plain
  BY <1>2, PlainFrame, FaultTypes
<1>3. CASE Answered
  <2>1. Ended(Me)
    BY <1>3, AnsweredFrame DEF Ended, Cut, CallAt, breaker
  <2>2. QED
    BY <1>3, <2>1, AnsweredFrame, FaultTypes
<1>4. CASE Opening
  BY <1>4, OpeningFrame, FaultTypes
<1>5. CASE MyCall
  BY <1>5, BreakerTypes DEF MyCall
<1>6. ASSUME NEW c \in Others, OtherCall(c) PROVE DownloaderStep /\ faults' \in 0 .. MaxFaults
  <2>1. c \in Callers
    BY DEF Others
  <2>2. CASE \E fetch \in BOOLEAN : Begin(c, fetch)
    BY <2>1, <2>2 DEF Begin
  <2>3. CASE CallStep(c)
    BY <2>1, <2>3, BreakerTypes
  <2>4. CASE call[c].pc \in Outcomes /\ EndCall(c) /\ UNCHANGED <<breaker, suspended, faults>>
    <3>1. Ended(c)
      BY <2>4 DEF Ended, Cut, CallAt, Outcomes, breaker
    <3>2. QED
      BY <2>1, <2>4, <3>1
  <2>5. QED
    BY <1>6, <2>2, <2>3, <2>4 DEF OtherCall
<1>7. CASE JobTimesOut
  BY <1>7, FaultTypes DEF JobTimesOut, Ended
<1>8. CASE Crash
  BY <1>8, FaultTypes DEF Crash, AllEnded
<1>9. CASE Tick
  BY <1>9 DEF Tick, Elapse
<1>10. QED
  BY <1>1, <1>2, <1>3, <1>4, <1>5, <1>6, <1>7, <1>8, <1>9, NextSplit

-----------------------------------------------------------------------------
(***************************************************************************)
(* What holds of the calls: children die with them, and a window is one.    *)
(***************************************************************************)

\* A count has its expiry, or the caller that will set it is at its next command.
CountExpires ==
  /\ count = 0 => left = 0 /\ age = 0
  /\ (\E c \in Callers : CallAt(c, "counted")) => age = 0
  /\ count > 0 /\ ~unarmed => \/ left > 0 /\ age + left <= Window
                              \/ left = 0 /\ age = 0 /\ \E c \in Callers : CallAt(c, "counted")

LEMMA ChildStep ==
  ASSUME DownloaderTypeOK, ChildDiesWithItsCall, DownloaderStep
  PROVE  ChildDiesWithItsCall'
<1> USE DEF DownloaderTypeOK, ChildDiesWithItsCall, CallAt
<1>1. CASE UNCHANGED downloader
  BY <1>1 DEF downloader
<1>2. ASSUME NEW c \in Callers, NEW fetch \in BOOLEAN, Begin(c, fetch) PROVE ChildDiesWithItsCall'
  BY <1>2, BeginTypes DEF Begin
<1>3. ASSUME NEW c \in Callers, CallStep(c) PROVE ChildDiesWithItsCall'
  <2>1. \A o \in Callers \ {c} : call'[o] = call[o]
    BY <1>3, CallFlow
  <2>2. child' = child \ {c} \/ (child' = child /\ c \notin child) \/ Ask(c)
    BY <1>3 DEF CallStep, Succeed, Throttle, Deny, Break, TimeOut, RecordSuccess, Increment, Arm, Trip
  <2>3. CASE Ask(c)
    <3>1. CASE CallTo(c, "upstream") /\ UNCHANGED child
      BY <2>1, <2>3, <3>1 DEF Ask
    <3>2. CASE CallTo(c, "running") /\ child' = IF call[c].fetch THEN child \cup {c} ELSE child
      <4>1. call'[c].pc = "running" /\ call'[c].fetch = call[c].fetch
        BY <3>2, CallTypes DEF Pcs, Busy
      <4>2. CASE call[c].fetch /\ child' = child \cup {c}
        BY <2>1, <4>1, <4>2
      <4>3. CASE child' = child
        BY <2>1, <2>3, <4>3 DEF Ask
      <4>4. QED
        BY <3>2, <4>2, <4>3
    <3>3. QED
      BY <2>3, <3>1, <3>2 DEF Ask
  <2>4. QED
    BY <2>1, <2>2, <2>3
<1>4. ASSUME NEW c \in Callers, Ended(c) PROVE ChildDiesWithItsCall'
  BY <1>4, EndTypes DEF Ended, EndCall
<1>5. CASE AllEnded
  BY <1>5 DEF AllEnded
<1>6. CASE Elapse
  BY <1>6 DEF Elapse
<1>7. QED
  BY <1>1, <1>2, <1>3, <1>4, <1>5, <1>6 DEF DownloaderStep

CountedCaller == \E c \in Callers : CallAt(c, "counted")

(* A step of a call that leaves the breaker alone, and is not at the EXPIRE. *)
LEMMA CountKept ==
  ASSUME DownloaderTypeOK, CountExpires, UNCHANGED breaker, CountedCaller' <=> CountedCaller
  PROVE  CountExpires'
  BY DEF CountExpires, CountedCaller, breaker, CallAt

LEMMA CallCountStep ==
  ASSUME DownloaderTypeOK, CountExpires, NEW c \in Callers, CallStep(c)
  PROVE  CountExpires'
<1> USE DEF DownloaderTypeOK, CallAt
<1>1. \A o \in Callers \ {c} : call'[o] = call[o]
  BY CallFlow
<1>2. ASSUME UNCHANGED breaker, call[c].pc # "counted", call'[c].pc # "counted" PROVE CountExpires'
  BY <1>1, <1>2, CountKept DEF CountedCaller
<1>3. CASE Ask(c) \/ Succeed(c) \/ Throttle(c) \/ Deny(c) \/ Break(c) \/ TimeOut(c)
  <2>1. UNCHANGED breaker /\ call[c].pc # "counted"
    BY <1>3 DEF Ask, Succeed, Throttle, Deny, Break, TimeOut
  <2>2. ~Increment(c)
    BY <1>3 DEF Ask, Succeed, Throttle, Deny, Break, TimeOut, Increment
  <2>3. QED
    BY <1>2, <2>1, <2>2, CallFlow
<1>4. CASE RecordSuccess(c)
  <2>1. call[c].pc # "counted" /\ call'[c].pc # "counted"
    BY <1>4, CallTypes DEF RecordSuccess, Pcs, Outcomes
  <2>2. CountedCaller' <=> CountedCaller
    BY <1>1, <2>1 DEF CountedCaller
  <2>3. QED
    BY <1>4, <2>2 DEF RecordSuccess, CountExpires, CountedCaller
<1>5. CASE Increment(c)
  <2>1. CASE Fine /\ count' = Counted /\ CallTo(c, IF count = 0 THEN "counted" ELSE AfterCount(Counted))
    <3>1. UNCHANGED <<left, age, unarmed>> /\ call[c].pc # "counted" /\ count' > 0
      BY <1>5, <2>1 DEF Increment, Counted
    <3>2. CASE count = 0
      <4>1. call'[c].pc = "counted"
        BY <2>1, <3>2, CallTypes DEF Pcs, Busy
      <4>2. QED
        BY <3>1, <3>2, <4>1 DEF CountExpires
    <3>3. CASE count # 0
      <4>1. call'[c].pc # "counted"
        BY <2>1, <3>3, CallTypes DEF Pcs, Busy, Outcomes, AfterCount
      <4>2. CountedCaller' <=> CountedCaller
        BY <1>1, <3>1, <4>1 DEF CountedCaller
      <4>3. QED
        BY <3>1, <3>3, <4>2 DEF CountExpires, CountedCaller
    <3>4. QED
      BY <3>2, <3>3
  <2>2. CASE Fault /\ UNCHANGED count /\ CallTo(c, "upstream")
    <3>1. call'[c].pc = "upstream"
      BY <2>2, CallTypes DEF Pcs, Outcomes
    <3>2. UNCHANGED breaker /\ call[c].pc # "counted"
      BY <1>5, <2>2 DEF Increment, breaker
    <3>3. QED
      BY <1>2, <3>1, <3>2
  <2>3. QED
    BY <1>5, <2>1, <2>2 DEF Increment
<1>6. CASE Arm(c)
  <2>1. CallAt(c, "counted") /\ age = 0 /\ UNCHANGED <<count, age>>
    BY <1>6 DEF Arm, CountExpires
  <2>2. CASE Fine /\ left' = (IF count > 0 THEN Window ELSE 0) /\ UNCHANGED unarmed
    BY <2>1, <2>2 DEF CountExpires
  <2>3. CASE Fault /\ unarmed' = (unarmed \/ left = 0) /\ UNCHANGED left
    BY <2>1, <2>3 DEF CountExpires
  <2>4. QED
    BY <1>6, <2>2, <2>3 DEF Arm
<1>7. CASE Trip(c)
  <2>1. call[c].pc # "counted" /\ call'[c].pc # "counted"
    BY <1>7, CallTypes DEF Trip, Pcs, Outcomes
  <2>2. CountedCaller' <=> CountedCaller
    BY <1>1, <2>1 DEF CountedCaller
  <2>3. QED
    BY <1>7, <2>2 DEF Trip, CountExpires, CountedCaller
<1>8. QED
  BY <1>3, <1>4, <1>5, <1>6, <1>7 DEF CallStep

LEMMA CountStep ==
  ASSUME DownloaderTypeOK, CountExpires, DownloaderStep
  PROVE  CountExpires'
<1> USE DEF DownloaderTypeOK, CallAt
<1>1. CASE UNCHANGED downloader
  BY <1>1 DEF downloader, breaker, CountExpires
<1>2. ASSUME NEW c \in Callers, NEW fetch \in BOOLEAN, Begin(c, fetch) PROVE CountExpires'
  <2>1. CountedCaller' <=> CountedCaller
    BY <1>2, BeginTypes DEF CountedCaller
  <2>2. QED
    BY <1>2, <2>1, CountKept DEF Begin
<1>3. ASSUME NEW c \in Callers, Ended(c) PROVE CountExpires'
  <2>1. /\ call'[c].pc = "idle" /\ \A o \in Callers \ {c} : call'[o] = call[o]
        /\ UNCHANGED <<count, left, age>> /\ unarmed' = (unarmed \/ (CallAt(c, "counted") /\ left = 0))
    BY <1>3, EndTypes DEF Ended, Cut, NoCall
  <2>2. QED
    BY <2>1 DEF CountExpires
<1>4. CASE AllEnded
  BY <1>4 DEF AllEnded, CountExpires, NoCall
<1>5. CASE Elapse
  <2>1. ~CountedCaller /\ ~CountedCaller'
    BY <1>5 DEF Elapse, CountedCaller
  <2>2. QED
    BY <1>5, <2>1 DEF Elapse, CountExpires, CountedCaller, Earlier
<1>6. QED
  BY <1>1, <1>2, <1>3, <1>4, <1>5, CallCountStep DEF DownloaderStep

(* Whoever comes to open the breaker has counted within one window. *)
LEMMA TripStep ==
  ASSUME DownloaderTypeOK, CountExpires, DownloaderStep,
         NEW c \in Callers, call[c].pc # "tripping", call'[c].pc = "tripping"
  PROVE  age < Window \/ unarmed
<1> USE DEF DownloaderTypeOK, CallAt
<1>1. PICK o \in Callers : CallStep(o)
  <2>1. ~UNCHANGED downloader
    BY DEF downloader
  <2>2. \A o \in Callers : \A fetch \in BOOLEAN : ~Begin(o, fetch)
    <3>1. ASSUME NEW o \in Callers, NEW fetch \in BOOLEAN, Begin(o, fetch) PROVE FALSE
      BY <3>1, BeginTypes
    <3>2. QED
      BY <3>1
  <2>3. \A o \in Callers : ~Ended(o)
    <3>1. ASSUME NEW o \in Callers, Ended(o) PROVE FALSE
      BY <3>1, EndTypes DEF Ended, NoCall
    <3>2. QED
      BY <3>1
  <2>4. ~AllEnded /\ ~Elapse
    BY DEF AllEnded, Elapse, NoCall
  <2>5. QED
    BY <2>1, <2>2, <2>3, <2>4 DEF DownloaderStep
<1>2. o = c
  BY <1>1, CallFlow
<1>3. Increment(c) \/ Arm(c)
  <2>1. ASSUME NEW pc \in Pcs \ {"tripping"}, CallTo(c, pc) PROVE FALSE
    BY <2>1, CallTypes
  <2>2. ~Break(c)
    BY <2>1, AgainTypes DEF Break, Pcs, Outcomes
  <2>3. ~Ask(c) /\ ~Succeed(c) /\ ~Throttle(c) /\ ~Deny(c) /\ ~TimeOut(c) /\ ~RecordSuccess(c) /\ ~Trip(c)
    BY <2>1 DEF Ask, Succeed, Throttle, Deny, TimeOut, RecordSuccess, Trip, Pcs, Busy, Outcomes
  <2>4. QED
    BY <1>1, <1>2, <2>2, <2>3 DEF CallStep
<1>4. CASE Increment(c)
  <2>1. count # 0
    <3>1. CallTo(c, "counted") => call'[c].pc = "counted"
      BY CallTypes DEF Pcs, Busy
    <3>2. CallTo(c, "upstream") => call'[c].pc = "upstream"
      BY CallTypes DEF Pcs, Outcomes
    <3>3. QED
      BY <1>4, <3>1, <3>2 DEF Increment
  <2>2. QED
    BY <2>1 DEF CountExpires
<1>5. CASE Arm(c)
  BY <1>5 DEF Arm, CountExpires
<1>6. QED
  BY <1>3, <1>4, <1>5

-----------------------------------------------------------------------------
(***************************************************************************)
(* Type correctness of the job.                                             *)
(***************************************************************************)

JobPcs == {"queued", "recording", "saving", "done", "failed"} \cup Ready \cup Sending

\* What of a job its pc says nothing about.
SameBut(pc) ==
  /\ job' \in Job /\ job'.pc = pc
  /\ job'.tries = job.tries /\ job'.ledger = job.ledger /\ job'.over = job.over
  /\ job'.files = job.files /\ job'.file = job.file /\ job'.upload = job.upload
  /\ job'.owed = job.owed

LEMMA JobTypes == ASSUME job \in Job, NEW pc \in JobPcs, JobTo(pc) PROVE SameBut(pc)
  BY DEF Job, JobTo, JobPcs, SameBut

LEMMA RaiseTypes ==
  ASSUME job \in Job, NEW error, Raise(error)
  PROVE  SameBut("queued") \/ SameBut("failed")
<1>1. CASE JobTo("queued")
  BY <1>1, JobTypes DEF JobPcs
<1>2. CASE JobTo("failed")
  BY <1>2, JobTypes DEF JobPcs
<1>3. QED
  BY <1>1, <1>2 DEF Raise

LEMMA JobEffects ==
  ASSUME NEW j \in Job
  PROVE  /\ \A pc \in JobPcs : [j EXCEPT !.pc = pc] \in Job
         /\ \A n \in 0 .. MaxTries : [j EXCEPT !.tries = n] \in Job
         /\ \A b \in BOOLEAN : [j EXCEPT !.over = b] \in Job
         /\ \A b \in BOOLEAN : [j EXCEPT !.ledger = b] \in Job
         /\ \A f \in Files : /\ [j EXCEPT !.file = f] \in Job /\ [j EXCEPT !.files = f] \in Job
                             /\ [j EXCEPT !.owed = f] \in Job
         /\ \A u \in 1 .. Uploads : [j EXCEPT !.upload = u] \in Job
  BY DEF Job, JobPcs

LEMMA AdmittedTypes == Admitted \subseteq BOOLEAN
  BY DEF Admitted

LEMMA ArrivesTypes ==
  ASSUME chat \in [Files \cup {Link} -> 0 .. 2], NEW f \in Files \cup {Link}, Arrives(f)
  PROVE  /\ chat' \in [Files \cup {Link} -> 0 .. 2]
         /\ chat'[f] > 0 /\ (chat[f] = 0 => chat'[f] = 1)
         /\ \A o \in (Files \cup {Link}) \ {f} : chat'[o] = chat[o]
  BY DEF Arrives

LEMMA AfterFileTypes ==
  ASSUME job \in Job, AfterFile
  PROVE  /\ job' \in Job /\ UNCHANGED <<job.tries, job.ledger, job.over, job.files, job.owed>>
         /\ job.file < job.files => job'.pc = job.pc /\ job'.file = job.file + 1
         /\ job.file >= job.files =>
              job'.pc = (IF job.files > 1 THEN "captioning" ELSE "recording") /\ job'.file = job.file
<1>1. CASE job.file < job.files
  <2>1. job' = [[job EXCEPT !.file = job.file + 1] EXCEPT !.upload = 1]
    BY <1>1 DEF AfterFile
  <2>2. job.file + 1 \in Files /\ 1 \in 1 .. Uploads
    BY <1>1 DEF Job, Files
  <2>3. [job EXCEPT !.file = job.file + 1] \in Job
    BY <2>2, JobEffects
  <2>4. job' \in Job
    BY <2>1, <2>2, <2>3, JobEffects
  <2>5. /\ job'.file = job.file + 1 /\ job'.pc = job.pc /\ job'.tries = job.tries
        /\ job'.ledger = job.ledger /\ job'.over = job.over /\ job'.files = job.files
        /\ job'.owed = job.owed
    BY <2>1 DEF Job
  <2>6. job.file \in Nat /\ job.files \in Nat
    BY DEF Job, Files
  <2>7. QED
    BY <1>1, <2>4, <2>5, <2>6
<1>2. CASE ~(job.file < job.files)
  <2> DEFINE pc == IF job.files > 1 THEN "captioning" ELSE "recording"
  <2>1. JobTo(pc) /\ pc \in JobPcs
    BY <1>2 DEF AfterFile, JobTo, JobPcs, Sending
  <2>2. SameBut(pc)
    BY <2>1, JobTypes
  <2>3. QED
    BY <1>2, <2>2 DEF SameBut
<1>3. QED
  BY <1>1, <1>2

\* A send that did not go through: repeated in place, or the end of the attempt.
LEMMA UploadTypes ==
  ASSUME job \in Job, NEW error, UploadFails(error)
  PROVE  \/ SameBut("queued") \/ SameBut("failed")
         \/ /\ job' \in Job /\ job'.pc = job.pc /\ job'.file = job.file
            /\ UNCHANGED <<job.tries, job.ledger, job.over, job.files, job.owed>>
<1>1. CASE job.upload < Uploads /\ job' = [job EXCEPT !.upload = @ + 1]
  <2>1. job.upload + 1 \in 1 .. Uploads
    BY <1>1 DEF Job
  <2>2. job' \in Job
    BY <1>1, <2>1, JobEffects
  <2>3. QED
    BY <1>1, <2>2 DEF Job
<1>2. CASE Raise(error)
  BY <1>2, RaiseTypes
<1>3. QED
  BY <1>1, <1>2 DEF UploadFails

LEMMA JobStepTypes == ASSUME TypeOK, [Next]_vars PROVE job' \in Job
<1> USE DEF TypeOK
<1>1. CASE PickUp
  <2>1. PICK pc \in {"saving", "analyzing", "failed"} : job' = [[job EXCEPT !.pc = pc] EXCEPT !.tries = job.tries + 1]
    BY <1>1 DEF PickUp
  <2>2. job.tries + 1 \in 0 .. MaxTries /\ pc \in JobPcs
    BY <1>1 DEF PickUp, Job, JobPcs, Ready
  <2>3. QED
    BY <2>1, <2>2, JobEffects
<1>2. CASE CheckSize
  <2>1. CASE JobTo("failed")
    BY <2>1, JobTypes DEF SameBut, JobPcs
  <2>2. ASSUME NEW over \in Admitted, job' = [[job EXCEPT !.pc = "fetching"] EXCEPT !.over = over] PROVE job' \in Job
    BY <2>2, JobEffects, AdmittedTypes DEF JobPcs, Ready
  <2>3. QED
    BY <1>2, <2>1, <2>2 DEF CheckSize
<1>3. CASE FetchPhotos
  BY <1>3, JobTypes, RaiseTypes DEF FetchPhotos, SameBut, JobPcs, Ready
<1>4. CASE PickOption \/ FetchPost \/ DownloadDone \/ CallFails
  BY <1>4, JobTypes, RaiseTypes DEF PickOption, FetchPost, DownloadDone, CallFails, SameBut, JobPcs, Ready
<1>5. CASE Opening
  BY <1>5, JobTypes DEF Opening, Extract, Probe, ReExtract, StartVideo, StartPostVideos, SameBut, JobPcs, Ready
<1>6. CASE MakeCompatible
  <2>1. PICK files \in Files :
          job' = [[[[job EXCEPT !.pc = "delivering"] EXCEPT !.files = files] EXCEPT !.file = 1] EXCEPT !.upload = 1]
    BY <1>6 DEF MakeCompatible
  <2>2. 1 \in Files /\ 1 \in 1 .. Uploads /\ "delivering" \in JobPcs
    BY DEF Files, JobPcs, Ready
  <2>3. QED
    BY <2>1, <2>2, JobEffects
<1>7. CASE Route
  BY <1>7, JobTypes, RaiseTypes DEF Route, SameBut, JobPcs, Sending
<1>8. CASE Sent
  BY <1>8, AfterFileTypes DEF Sent
<1>9. CASE NotSent
  BY <1>9, UploadTypes DEF NotSent, SameBut
<1>10. CASE SendText
  BY <1>10, JobTypes, RaiseTypes DEF SendText, SameBut, JobPcs
<1>11. CASE Record
  <2>1. PICK kept \in BOOLEAN :
          job' = [[[job EXCEPT !.pc = "saving"] EXCEPT !.ledger = job.ledger \/ kept] EXCEPT !.owed = job.files]
    BY <1>11 DEF Record
  <2>2. (job.ledger \/ kept) \in BOOLEAN /\ job.files \in Files /\ "saving" \in JobPcs
    BY DEF Job, JobPcs
  <2>3. QED
    BY <2>1, <2>2, JobEffects
<1>12. CASE Save
  BY <1>12, JobTypes, RaiseTypes DEF Save, SameBut, JobPcs
<1>13. CASE JobTimesOut
  BY <1>13, JobTypes DEF JobTimesOut, SameBut, JobPcs
<1>14. CASE Crash
  BY <1>14, JobTypes DEF Crash, SameBut, JobPcs, Job
<1>15. CASE UNCHANGED vars \/ ChildWrites \/ MyCall \/ (\E c \in Others : OtherCall(c)) \/ Tick
  BY <1>15 DEF vars, ChildWrites, MyCall, OtherCall, Tick
<1>16. QED
  BY <1>1, <1>2, <1>3, <1>4, <1>5, <1>6, <1>7, <1>8, <1>9, <1>10, <1>11, <1>12, <1>13, <1>14, <1>15,
     NextSplit DEF Plain, Answered, DeliveryStep

LEMMA RestTypes ==
  ASSUME TypeOK, [Next]_vars
  PROVE  /\ dir' \subseteq File /\ chat' \in [Files \cup {Link} -> 0 .. 2]
         /\ fellback' \in BOOLEAN /\ excuses' \subseteq {"unheard", "half", "ledger", "crash"}
<1> USE DEF TypeOK, File
<1> DEFINE Rest == /\ dir' \subseteq File /\ chat' \in [Files \cup {Link} -> 0 .. 2]
                   /\ fellback' \in BOOLEAN /\ excuses' \subseteq {"unheard", "half", "ledger", "crash"}
<1>1. job.file \in Files \cup {Link} /\ Link \in Files \cup {Link} /\ Half \subseteq {"half"}
  BY DEF Job, Half
<1>2. CASE PickUp
  <2>1. fellback' \in BOOLEAN
    BY <1>2, Zenon DEF PickUp
  <2>2. excuses' \subseteq {"unheard", "half", "ledger", "crash"}
    BY <1>2 DEF PickUp
  <2>3. QED
    BY <1>2, <2>1, <2>2 DEF PickUp
<1>3. CASE FetchPhotos \/ MakeCompatible \/ ChildWrites
  BY <1>3 DEF FetchPhotos, MakeCompatible, ChildWrites, Quietly, Untold
<1>4. CASE Answered \/ Opening
  BY <1>4 DEF Answered, Opening, PickOption, CheckSize, ResetDir, FetchPost, DownloadDone, CallFails, Extract,
     Probe, ReExtract, StartVideo, StartPostVideos
<1>5. CASE MyCall
  <2>1. fellback' \in BOOLEAN
    BY <1>5 DEF MyCall
  <2>2. QED
    BY <1>5, <2>1 DEF MyCall
<1>6. CASE DeliveryStep
  <2>1. CASE Route
    BY <2>1 DEF Route, Quietly
  <2>2. CASE Sent
    BY <1>1, <2>2, ArrivesTypes DEF Sent, Quietly
  <2>3. CASE NotSent
    BY <1>1, <2>3, ArrivesTypes DEF NotSent
  <2>4. CASE SendText
    BY <1>1, <2>4, ArrivesTypes DEF SendText
  <2>5. CASE Record
    BY <2>5 DEF Record
  <2>6. CASE Save
    BY <2>6 DEF Save
  <2>7. QED
    BY <1>6, <2>1, <2>2, <2>3, <2>4, <2>5, <2>6 DEF DeliveryStep
<1>7. CASE JobTimesOut \/ Crash
  BY <1>7 DEF JobTimesOut, Crash
<1>8. CASE UNCHANGED vars \/ (\E c \in Others : OtherCall(c)) \/ Tick
  BY <1>8 DEF vars, OtherCall, Tick
<1>9. QED
  BY <1>2, <1>3, <1>4, <1>5, <1>6, <1>7, <1>8, NextSplit DEF Plain

LEMMA TypeStep == TypeOK /\ [Next]_vars => TypeOK'
  BY JobStepTypes, RestTypes, DownloaderFlow, DownloaderTypes DEF TypeOK

LEMMA InitTypes == Init => TypeOK
<1> SUFFICES ASSUME Init PROVE TypeOK
  OBVIOUS
<1>1. DownloaderTypeOK
  <2>1. NoCall \in Call
    BY DEF NoCall, Call
  <2>2. call \in [Callers -> Call]
    BY <2>1 DEF Init, DownloaderInit
  <2>3. unarmed \in BOOLEAN
    BY Zenon DEF Init, DownloaderInit
  <2>4. QED
    BY <2>2, <2>3 DEF Init, DownloaderInit, DownloaderTypeOK
<1>2. job \in Job
  BY DEF Init, Job, Files
<1>3. fellback \in BOOLEAN
  BY Zenon DEF Init
<1>4. QED
  BY <1>1, <1>2, <1>3 DEF Init, TypeOK

(* Every variable keeps its type. *)
THEOREM TypeCorrect == Spec => []TypeOK
  BY InitTypes, TypeStep, PTL DEF Spec

(* A child of yt-dlp does not outlive its call, however the call, the job or the *)
(* worker ends.                                                                 *)
THEOREM ChildrenDie == Spec => []ChildDiesWithItsCall
<1>1. Init => TypeOK /\ ChildDiesWithItsCall
  BY InitTypes DEF Init, DownloaderInit, ChildDiesWithItsCall
<1>2. TypeOK /\ ChildDiesWithItsCall /\ [Next]_vars => TypeOK' /\ ChildDiesWithItsCall'
  BY TypeStep, DownloaderFlow, ChildStep DEF TypeOK
<1>3. QED
  BY <1>1, <1>2, PTL DEF Spec

(* The breaker opens for failures of one window only, or after a lost EXPIRE, *)
(* whatever the number of callers, the threshold and the window.              *)
THEOREM TripsAreEarned == Spec => TripIsEarned
<1>1. Init => TypeOK /\ CountExpires
  BY InitTypes DEF Init, DownloaderInit, CountExpires, CallAt, NoCall
<1>2. TypeOK /\ CountExpires /\ [Next]_vars => TypeOK' /\ CountExpires'
  BY TypeStep, DownloaderFlow, CountStep DEF TypeOK
<1>3. TypeOK /\ CountExpires /\ [Next]_vars =>
        [\A c \in Callers : call[c].pc # "tripping" /\ call'[c].pc = "tripping"
           => age < Window \/ unarmed]_<<call, breaker>>
  BY DownloaderFlow, TripStep DEF TypeOK
<1>4. QED
  BY <1>1, <1>2, <1>3, PTL DEF Spec, TripIsEarned

-----------------------------------------------------------------------------
(***************************************************************************)
(* Strays. The directory is swept before the download and written to only by *)
(* the child of the job's own call, so that what an earlier call has left    *)
(* was left by one that this attempt made again without cookies.             *)
(***************************************************************************)

Calling == {"analyzing", "sizing", "post", "videos"}

Swept ==
  /\ job.pc \in {"fetching", "post"} => dir = {}
  /\ job.pc \in {"analyzing", "sizing", "post"} => ~call[Me].fetch
  /\ job.pc \notin Calling => call[Me] = NoCall
  /\ job.pc \in {"videos", "compat", "delivering", "recording"} \cup Sending /\ "stray" \in dir => fellback

(* A step that is not one of the job's calls leaves its call alone, or ends it. *)
LEMMA MyCallKept ==
  ASSUME TypeOK, NEW c \in Others, OtherCall(c)
  PROVE  call'[Me] = call[Me]
<1>1. c \in Callers /\ Me \in Callers \ {c}
  BY DEF Others
<1>2. ASSUME NEW fetch \in BOOLEAN, Begin(c, fetch) PROVE call'[Me] = call[Me]
  BY <1>1, <1>2, BeginTypes DEF TypeOK, DownloaderTypeOK
<1>3. CallStep(c) => call'[Me] = call[Me]
  BY <1>1, CallFlow DEF TypeOK, DownloaderTypeOK
<1>4. EndCall(c) => call'[Me] = call[Me]
  BY <1>1, EndTypes DEF TypeOK, DownloaderTypeOK
<1>5. QED
  BY <1>2, <1>3, <1>4 DEF OtherCall

LEMMA SweptStep ==
  ASSUME TypeOK, ChildDiesWithItsCall, Swept, [Next]_vars
  PROVE  Swept'
<1> USE DEF Swept, Calling
<1>0. job \in Job /\ call \in [Callers -> Call] /\ NoCall.fetch = FALSE /\ NoCall.pc = "idle"
  BY DEF TypeOK, DownloaderTypeOK, NoCall
<1>1. CASE UNCHANGED vars
  BY <1>1 DEF vars, downloader
<1>2. CASE PickUp
  <2>1. job'.pc \in {"saving", "analyzing", "failed"} /\ job.pc = "queued"
    BY <1>0, <1>2 DEF PickUp, JobAt, Job
  <2>2. UNCHANGED <<call, dir>>
    BY <1>2 DEF PickUp, downloader
  <2>3. QED
    BY <1>0, <2>1, <2>2 DEF Sending
<1>3. CASE FetchPhotos
  <2>1. job.pc = "fetching" /\ dir = {} /\ UNCHANGED <<call, fellback>>
    BY <1>3 DEF FetchPhotos, JobAt, Untold, downloader
  <2>2. \/ job'.pc \in {"queued", "failed"}
        \/ job'.pc = "post" /\ dir' = dir
        \/ job'.pc = "compat" /\ dir' = dir \cup {"media"}
    BY <1>0, <1>3, JobTypes, RaiseTypes DEF FetchPhotos, Photos, SameBut, JobPcs, Ready
  <2>3. QED
    BY <1>0, <2>1, <2>2 DEF Sending
<1>4. CASE MakeCompatible
  <2>1. job.pc = "compat" /\ job'.pc = "delivering"
    BY <1>0, <1>4 DEF MakeCompatible, JobAt, Job
  <2>2. QED
    BY <1>4, <2>1 DEF MakeCompatible, Quietly, downloader
<1>5. CASE DeliveryStep
  <2>1. /\ UNCHANGED <<call, dir, fellback>>
        /\ job.pc \in {"delivering", "recording", "saving"} \cup Sending
    BY <1>5 DEF DeliveryStep, Route, Sent, NotSent, SendText, Record, Save, Quietly, downloader, JobAt, Sending
  <2>2. \/ job'.pc \in {"queued", "failed", "saving", "done"}
        \/ job.pc # "saving" /\ job'.pc \in {"recording"} \cup Sending
    <3>1. CASE Route
      BY <1>0, <3>1, JobTypes, RaiseTypes DEF Route, SameBut, JobPcs, Sending, JobAt
    <3>2. CASE Sent
      BY <1>0, <3>2, AfterFileTypes DEF Sent, JobAt, Sending, Job, Files
    <3>3. CASE NotSent
      BY <1>0, <3>3, UploadTypes DEF NotSent, JobAt, SameBut, Sending
    <3>4. CASE SendText
      BY <1>0, <3>4, JobTypes, RaiseTypes DEF SendText, SameBut, JobPcs, JobAt
    <3>5. CASE Record
      BY <1>0, <3>5 DEF Record, Job
    <3>6. CASE Save
      BY <1>0, <3>6, JobTypes, RaiseTypes DEF Save, SameBut, JobPcs
    <3>7. QED
      BY <1>5, <3>1, <3>2, <3>3, <3>4, <3>5, <3>6 DEF DeliveryStep
  <2>3. QED
    BY <2>1, <2>2 DEF Sending
<1>6. CASE ChildWrites
  <2>1. CallAt(Me, "running")
    BY <1>6 DEF ChildWrites, ChildDiesWithItsCall
  <2>2. call[Me].fetch
    BY <1>6 DEF ChildWrites, ChildDiesWithItsCall
  <2>3. job.pc = "videos"
    BY <1>0, <2>1, <2>2 DEF CallAt
  <2>4. QED
    BY <1>6, <2>3 DEF ChildWrites, downloader
<1>7. CASE Answered
  <2>1. call'[Me] = NoCall
    BY <1>0, <1>7, AnsweredFrame, EndTypes
  <2>2. CASE CheckSize
    <3>1. (job'.pc = "fetching" /\ dir' = {}) \/ job'.pc = "failed"
      BY <1>0, <2>2 DEF CheckSize, ResetDir, JobTo, Job
    <3>2. QED
      BY <1>0, <2>1, <3>1 DEF Sending
  <2>7. CASE PickOption
    <3>1. job'.pc \in {"sizing", "failed"}
      BY <1>0, <2>7, JobTypes DEF PickOption, SameBut, JobPcs, Ready
    <3>2. QED
      BY <1>0, <2>1, <3>1 DEF Sending
  <2>3. CASE FetchPost
    <3>1. job.pc = "post" /\ dir = {} /\ dir' \subseteq {"media"}
      BY <2>3 DEF FetchPost, JobAt
    <3>2. job'.pc \in {"videos", "compat", "queued", "failed"}
      BY <1>0, <2>3, JobTypes, RaiseTypes DEF FetchPost, SameBut, JobPcs, Ready
    <3>3. QED
      BY <1>0, <2>1, <3>1, <3>2
  <2>4. CASE DownloadDone
    <3>1. job.pc = "videos" /\ dir' \subseteq (dir \cap {"stray"}) \cup {"media"} /\ fellback' = fellback
      BY <2>4 DEF DownloadDone, JobAt
    <3>2. job'.pc \in {"compat", "queued", "failed"}
      BY <1>0, <2>4, JobTypes, RaiseTypes DEF DownloadDone, SameBut, JobPcs, Ready
    <3>3. QED
      BY <1>0, <2>1, <3>1, <3>2
  <2>5. CASE CallFails
    <3>1. job'.pc \in {"queued", "failed"}
      BY <1>0, <2>5, RaiseTypes DEF CallFails, SameBut
    <3>2. QED
      BY <2>1, <3>1 DEF Sending
  <2>6. QED
    BY <1>7, <2>2, <2>3, <2>4, <2>5, <2>7 DEF Answered
<1>8. CASE Opening
  <2>1. CASE Extract \/ Probe \/ ReExtract
    <3>1. Begin(Me, FALSE) /\ UNCHANGED <<job, dir, fellback>> /\ job.pc \in {"analyzing", "sizing", "post"}
      BY <2>1 DEF Extract, Probe, ReExtract, JobAt
    <3>2. call'[Me].fetch = FALSE
      BY <1>0, <3>1, BeginTypes
    <3>3. QED
      BY <3>1, <3>2 DEF Sending
  <2>2. CASE StartVideo
    <3>1. job'.pc = "videos" /\ job.pc = "fetching" /\ dir = {} /\ dir' = dir
      BY <1>0, <2>2 DEF StartVideo, JobTo, JobAt, Job
    <3>2. QED
      BY <3>1
  <2>3. CASE StartPostVideos
    BY <2>3 DEF StartPostVideos, JobAt
  <2>4. QED
    BY <1>8, <2>1, <2>2, <2>3 DEF Opening
<1>9. CASE MyCall
  <2>1. call[Me].pc \in Busy /\ call'[Me].fetch = call[Me].fetch /\ job' = job
    BY <1>0, <1>9, CallFlow DEF MyCall
  <2>2. job.pc \in Calling
    BY <1>0, <2>1 DEF Busy
  <2>3. \/ dir' = dir /\ (fellback => fellback')
        \/ call[Me].fetch /\ fellback'
    BY <1>9 DEF MyCall
  <2>4. QED
    BY <2>1, <2>2, <2>3
<1>10. CASE \E c \in Others : OtherCall(c)
  <2>1. call'[Me] = call[Me]
    BY <1>10, MyCallKept
  <2>2. QED
    BY <1>10, <2>1 DEF OtherCall
<1>11. CASE JobTimesOut
  <2>1. call'[Me] = NoCall /\ job'.pc = "failed"
    BY <1>0, <1>11, EndTypes DEF JobTimesOut, JobTo, Job
  <2>2. QED
    BY <2>1 DEF Sending
<1>12. CASE Crash
  <2>1. call'[Me] = NoCall /\ UNCHANGED <<dir, fellback>>
    BY <1>12 DEF Crash
  <2>2. job'.pc \in {"queued", "failed"} \/ (job'.pc = job.pc /\ job.pc \in {"done", "failed", "queued"})
    <3>1. CASE Working
      <4>1. JobTo("queued") \/ JobTo("failed")
        BY <1>12, <3>1 DEF Crash
      <4>2. QED
        BY <1>0, <4>1, JobTypes DEF SameBut, JobPcs
    <3>2. CASE ~Working
      <4>1. JobTo(job.pc)
        BY <1>12, <3>2 DEF Crash
      <4>2. job'.pc = job.pc
        BY <1>0, <4>1 DEF JobTo, Job
      <4>3. QED
        BY <3>2, <4>2 DEF Working, Over, JobAt
    <3>3. QED
      BY <3>1, <3>2
  <2>3. QED
    BY <2>1, <2>2 DEF Sending
<1>13. CASE Tick
  BY <1>13 DEF Tick, Elapse
<1>14. QED
  BY <1>1, <1>2, <1>3, <1>4, <1>5, <1>6, <1>7, <1>8, <1>9, <1>10, <1>11, <1>12, <1>13, NextSplit DEF Plain

(* What is sent was fetched by this attempt's last call, or by the call with *)
(* cookies that this attempt made again.                                    *)
THEOREM StraysExcused == Spec => []StraysAreExcused
<1>1. Init => TypeOK /\ ChildDiesWithItsCall /\ Swept
  BY InitTypes DEF Init, DownloaderInit, ChildDiesWithItsCall, Swept, Sending
<1>2. TypeOK /\ ChildDiesWithItsCall /\ Swept /\ [Next]_vars => TypeOK' /\ ChildDiesWithItsCall' /\ Swept'
  BY TypeStep, DownloaderFlow, ChildStep, SweptStep DEF TypeOK
<1>3. Swept => StraysAreExcused
  BY DEF Swept, StraysAreExcused
<1>4. QED
  BY <1>1, <1>2, <1>3, PTL DEF Spec

-----------------------------------------------------------------------------
(***************************************************************************)
(* What reached the user: all of it when the job is DONE, and none of it     *)
(* twice unless the attempts could not know.                                *)
(***************************************************************************)

Everything == Files \cup {Link}
AllOf(n)   == \A f \in 1 .. n : chat[f] > 0
Whole(n)   == chat[Link] > 0 \/ AllOf(n)
NothingSent == \A f \in Everything : chat[f] = 0

Complete ==
  /\ job.pc = "delivering" => job.file = 1
  /\ job.pc = "uploading" => AllOf(job.file - 1)
  /\ job.pc = "captioning" => AllOf(job.files)
  /\ job.pc = "recording" => Whole(job.files)
  /\ job.pc \in {"saving", "done"} \/ job.ledger => Whole(job.owed)

Once ==
  excuses = {} =>
    /\ \A f \in Everything : chat[f] <= 1
    /\ job.pc \in Ready \cup {"linking"} => NothingSent
    /\ job.pc = "uploading" => chat[Link] = 0 /\ \A f \in Files : f >= job.file => chat[f] = 0
    /\ job.pc = "queued" => NothingSent \/ job.ledger
    /\ job.pc = "saving" => job.ledger

Sound == TypeOK /\ Complete /\ Once

(* Steps outside the delivery: what they keep, and where they leave the job. *)

LEMMA OutsideDelivery ==
  ASSUME TypeOK, [Next]_vars, ~DeliveryStep, ~PickUp, ~Crash
  PROVE  /\ UNCHANGED <<chat, excuses>>
         /\ UNCHANGED <<job.ledger, job.owed>>
         /\ \/ job'.pc = job.pc /\ UNCHANGED <<job.file, job.files>>
            \/ /\ job.pc \in Ready /\ job'.pc \in Ready \cup {"queued", "failed"}
               /\ job'.pc = "delivering" => job'.file = 1
            \/ job'.pc = "failed"
<1> DEFINE Kept == UNCHANGED <<job.ledger, job.owed, job.file, job.files>>
<1>0. job \in Job
  BY DEF TypeOK
<1> USE DEF Ready
<1>1. CASE UNCHANGED vars \/ ChildWrites \/ MyCall \/ (\E c \in Others : OtherCall(c)) \/ Tick
  BY <1>1 DEF vars, ChildWrites, MyCall, OtherCall, Tick
<1>2. CASE CheckSize
  <2>1. job.pc = "sizing" /\ UNCHANGED <<chat, excuses>>
    BY <1>2 DEF CheckSize, JobAt
  <2>2. CASE JobTo("failed")
    BY <1>0, <2>1, <2>2, JobTypes DEF JobPcs, SameBut
  <2>3. ASSUME NEW over, job' = [job EXCEPT !.pc = "fetching", !.over = over]
        PROVE  job'.pc = "fetching" /\ UNCHANGED <<job.ledger, job.owed>>
    BY <1>0, <2>3 DEF Job
  <2>4. QED
    BY <1>2, <2>1, <2>2, <2>3 DEF CheckSize
<1>3. CASE FetchPhotos
  BY <1>0, <1>3, JobTypes, RaiseTypes DEF FetchPhotos, SameBut, JobPcs, JobAt, Untold
<1>4. CASE PickOption \/ FetchPost \/ DownloadDone
  BY <1>0, <1>4, JobTypes, RaiseTypes DEF PickOption, FetchPost, DownloadDone, SameBut, JobPcs, JobAt
<1>5. CASE CallFails
  BY <1>0, <1>5, RaiseTypes DEF CallFails, SameBut
<1>6. CASE Opening
  BY <1>0, <1>6, JobTypes DEF Opening, Extract, Probe, ReExtract, StartVideo, StartPostVideos, SameBut, JobPcs, JobAt
<1>7. CASE MakeCompatible
  <2>1. job.pc = "compat" /\ UNCHANGED <<chat, excuses>>
    BY <1>7 DEF MakeCompatible, JobAt
  <2>2. job'.pc = "delivering" /\ job'.file = 1 /\ UNCHANGED <<job.ledger, job.owed>>
    BY <1>0, <1>7 DEF MakeCompatible, Job
  <2>3. QED
    BY <2>1, <2>2
<1>8. CASE JobTimesOut
  BY <1>0, <1>8, JobTypes DEF JobTimesOut, SameBut, JobPcs
<1>9. QED
  BY <1>1, <1>2, <1>3, <1>4, <1>5, <1>6, <1>7, <1>8, NextSplit DEF Plain, Answered

LEMMA SetFacts ==
  ASSUME job \in Job
  PROVE  /\ job.file \in Everything /\ job.file # Link /\ job.file \in Nat /\ job.files \in Nat
         /\ Link \in Everything /\ Link \notin Files
         /\ \A n \in Files : \A f \in 1 .. n : f \in Everything /\ f # Link
         /\ \A f \in 1 .. job.file - 1 : f \in Files
         /\ \A f \in 1 .. job.files : f \in Files
         /\ \A f \in 1 .. job.owed : f \in Files
  BY DEF Job, Everything, Files, Link

\* Nothing is taken back.
LEMMA ChatGrows ==
  ASSUME TypeOK, NEW f \in Everything, Arrives(f)
  PROVE  /\ \A o \in Everything : chat[o] > 0 => chat'[o] > 0
         /\ chat'[f] > 0
         /\ chat[f] = 0 => chat'[f] = 1
         /\ \A o \in Everything \ {f} : chat'[o] = chat[o]
<1>1. chat \in [Everything -> 0 .. 2]
  BY DEF TypeOK, Everything
<1>2. QED
  BY <1>1, ArrivesTypes DEF Everything

\* Half says whether anything was sent.
LEMMA HalfTells == ASSUME TypeOK PROVE Half = {"half"} \/ NothingSent
<1>1. chat \in [Everything -> 0 .. 2] /\ DOMAIN chat = Everything
  BY DEF TypeOK, Everything
<1>2. CASE \E f \in Everything : chat[f] > 0
  BY <1>1, <1>2 DEF Half
<1>3. CASE \A f \in Everything : ~(chat[f] > 0)
  BY <1>1, <1>3 DEF NothingSent
<1>4. QED
  BY <1>2, <1>3

LEMMA PickUpSound == ASSUME Sound, PickUp PROVE Complete' /\ Once'
<1> USE DEF Sound, Complete, Once, Whole, AllOf, NothingSent
<1>1. /\ job \in Job /\ job.pc = "queued" /\ UNCHANGED chat
      /\ UNCHANGED <<job.ledger, job.owed>>
      /\ \/ job.ledger /\ job'.pc = "saving" /\ UNCHANGED excuses
         \/ job'.pc \in {"analyzing", "failed"} /\ (job.ledger => excuses' # {}) /\ excuses \subseteq excuses'
  BY DEF PickUp, JobAt, Job, TypeOK
<1>2. Complete'
  BY <1>1 DEF Sending
<1>3. Once'
  BY <1>1 DEF Ready
<1>4. QED
  BY <1>2, <1>3

LEMMA CrashSound == ASSUME Sound, Crash PROVE Complete' /\ Once'
<1> USE DEF Sound, Complete, Once, Whole, AllOf, NothingSent
<1>1. job \in Job /\ UNCHANGED chat
  BY DEF TypeOK, Crash
<1>2. /\ UNCHANGED <<job.ledger, job.owed>> /\ excuses \subseteq excuses'
      /\ job.pc \in Sending \cup {"recording"} => excuses' # {}
      /\ \/ job'.pc \in {"queued", "failed"} /\ job.pc \notin {"done", "failed", "queued"}
         \/ job'.pc = job.pc /\ job.pc \in {"done", "failed", "queued"}
  <2>1. CASE Working
    <3>1. (JobTo("queued") \/ JobTo("failed")) /\ job.pc \notin {"done", "failed", "queued"}
      BY <2>1 DEF Crash, Working, Over, JobAt
    <3>2. QED
      BY <1>1, <3>1, JobTypes DEF Crash, SameBut, JobPcs
  <2>2. CASE ~Working
    <3>1. JobTo(job.pc) /\ job.pc \in {"done", "failed", "queued"}
      BY <2>2 DEF Crash, Working, Over, JobAt
    <3>2. QED
      BY <1>1, <3>1, JobTypes DEF Crash, SameBut, JobPcs
  <2>3. QED
    BY <2>1, <2>2
<1>3. Complete'
  BY <1>1, <1>2
<1>4. job.pc \in {"done", "failed", "queued"} \cup Ready \cup Sending \cup {"recording", "saving"}
  BY <1>1 DEF Job
<1>5. "linking" \in Sending /\ "linking" \notin Ready
  BY DEF Sending, Ready
<1>6. ASSUME excuses' = {} PROVE Once'
  <2>1. excuses = {} /\ job.pc \notin Sending \cup {"recording"}
    BY <1>2, <1>6
  <2>2. QED
    BY <1>1, <1>2, <1>4, <2>1 DEF Ready
<1>7. QED
  BY <1>3, <1>6

LEMMA OutsideSound ==
  ASSUME Sound, [Next]_vars, ~DeliveryStep, ~PickUp, ~Crash
  PROVE  Complete' /\ Once'
<1> USE DEF Sound, Complete, Once, Whole, AllOf, NothingSent, Ready
<1>1. /\ UNCHANGED <<chat, excuses>>
      /\ UNCHANGED <<job.ledger, job.owed>>
      /\ \/ job'.pc = job.pc /\ UNCHANGED <<job.file, job.files>>
         \/ /\ job.pc \in Ready /\ job'.pc \in Ready \cup {"queued", "failed"}
            /\ job'.pc = "delivering" => job'.file = 1
         \/ job'.pc = "failed"
  BY OutsideDelivery
<1>2. QED
  BY <1>1

LEMMA RouteSound == ASSUME Sound, Route PROVE Complete' /\ Once'
<1> USE DEF Sound, Complete, Once, Whole, AllOf, NothingSent
<1>1. /\ job \in Job /\ job.pc = "delivering" /\ UNCHANGED <<chat, excuses>>
      /\ UNCHANGED <<job.ledger, job.owed>>
      /\ job'.pc \in {"uploading", "linking", "queued", "failed"}
      /\ job'.pc = "uploading" => job'.file = 1
  <2>0. job \in Job /\ job.pc = "delivering" /\ job.file = 1 /\ UNCHANGED <<chat, excuses>>
    BY DEF Route, JobAt, TypeOK, Quietly
  <2>1. ASSUME NEW pc \in {"uploading", "linking"}, JobTo(pc) PROVE SameBut(pc)
    BY <2>0, <2>1, JobTypes DEF JobPcs, Sending
  <2>2. CASE JobTo("uploading") \/ JobTo("linking")
    BY <2>0, <2>1, <2>2 DEF SameBut
  <2>3. CASE Raise("storage")
    BY <2>0, <2>3, RaiseTypes DEF SameBut
  <2>4. QED
    BY <2>2, <2>3 DEF Route
<1>2. Complete'
  BY <1>1
<1>3. Once'
  BY <1>1, SetFacts DEF Ready, Everything
<1>4. QED
  BY <1>2, <1>3

LEMMA SentSound == ASSUME Sound, Sent PROVE Complete' /\ Once'
<1> USE DEF Sound
<1>1. /\ TypeOK /\ job \in Job /\ job.pc = "uploading" /\ UNCHANGED excuses
      /\ Arrives(job.file) /\ AfterFile
  BY DEF Sent, TypeOK, JobAt
<1>2. /\ \A o \in Everything : chat[o] > 0 => chat'[o] > 0
      /\ chat'[job.file] > 0
      /\ chat[job.file] = 0 => chat'[job.file] = 1
      /\ \A o \in Everything \ {job.file} : chat'[o] = chat[o]
  BY <1>1, ChatGrows, SetFacts
<1>3. /\ UNCHANGED <<job.ledger, job.files, job.owed>>
      /\ \/ job'.pc = "uploading" /\ job'.file = job.file + 1
         \/ job.file >= job.files /\ job'.pc \in {"captioning", "recording"}
  BY <1>1, AfterFileTypes, SetFacts
<1>4. \A f \in 1 .. job.file : chat'[f] > 0
  <2>1. \A f \in 1 .. job.file - 1 : chat'[f] > 0
    BY <1>1, <1>2, SetFacts DEF Complete, AllOf, Everything
  <2>2. QED
    BY <1>1, <1>2, <2>1, SetFacts
<1>5. job.ledger => (chat'[Link] > 0 \/ \A f \in 1 .. job.owed : chat'[f] > 0)
  BY <1>1, <1>2, SetFacts DEF Complete, Whole, AllOf, Everything
<1>6. Complete'
  BY <1>1, <1>3, <1>4, <1>5, SetFacts DEF Complete, Whole, AllOf
<1>7. ASSUME excuses = {} PROVE Once'
  <2>1. /\ \A f \in Everything : chat[f] <= 1
        /\ chat[Link] = 0 /\ \A f \in Files : f >= job.file => chat[f] = 0
    BY <1>1, <1>7 DEF Once
  <2>2. chat[job.file] = 0
    BY <1>1, <2>1, SetFacts DEF Everything
  <2>3. \A f \in Everything : chat'[f] <= 1
    BY <1>2, <2>1, <2>2
  <2>4. job'.pc = "uploading" => chat'[Link] = 0 /\ \A f \in Files : f >= job'.file => chat'[f] = 0
    <3>1. Files \subseteq Nat /\ Files \subseteq Everything
      BY DEF Files, Everything
    <3>2. chat'[Link] = 0
      BY <1>1, <1>2, <2>1, SetFacts
    <3>3. job'.pc = "uploading" => job'.file = job.file + 1 /\ job.file \in Nat
      BY <1>1, <1>3, SetFacts
    <3>4. \A f \in Files : f >= job.file + 1 => f \in Everything \ {job.file} /\ chat[f] = 0
      BY <1>1, <2>1, <3>1, SetFacts
    <3>5. QED
      BY <1>2, <3>2, <3>3, <3>4
  <2>5. QED
    BY <1>3, <2>3, <2>4 DEF Once, Ready
<1>8. QED
  BY <1>1, <1>6, <1>7 DEF Once

\* An attempt that failed in the middle: what was sent stays, and is told.
LEMMA FailedSound ==
  ASSUME Sound, SameBut("queued") \/ SameBut("failed"),
         \A o \in Everything : chat[o] > 0 => chat'[o] > 0,
         excuses' # {} \/ (UNCHANGED <<chat, excuses>> /\ NothingSent)
  PROVE  Complete' /\ Once'
<1> USE DEF Sound
<1>1. job \in Job /\ TypeOK /\ job'.pc \in {"queued", "failed"} /\ UNCHANGED <<job.ledger, job.owed>>
  BY DEF TypeOK, SameBut
<1>2. Complete'
  BY <1>1, SetFacts DEF Complete, Whole, AllOf, Everything
<1>3. Once'
  BY <1>1 DEF Once, NothingSent, Ready
<1>4. QED
  BY <1>2, <1>3

LEMMA NotSentSound == ASSUME Sound, NotSent PROVE Complete' /\ Once'
<1> USE DEF Sound
<1>1. job \in Job /\ TypeOK /\ job.pc = "uploading"
  BY DEF NotSent, TypeOK, JobAt
<1>2. /\ \A o \in Everything : chat[o] > 0 => chat'[o] > 0
      /\ excuses' # {} \/ (UNCHANGED <<chat, excuses>> /\ NothingSent)
  <2>1. CASE UNCHANGED chat /\ excuses' = excuses \cup Half
    BY <1>1, <2>1, HalfTells
  <2>2. CASE Arrives(job.file) /\ excuses' = excuses \cup {"unheard"} \cup Half
    BY <1>1, <2>2, ChatGrows, SetFacts
  <2>3. QED
    BY <2>1, <2>2 DEF NotSent
<1>3. PICK error : UploadFails(error)
  BY DEF NotSent
<1>4. CASE SameBut("queued") \/ SameBut("failed")
  BY <1>2, <1>4, FailedSound
<1>5. CASE /\ job'.pc = job.pc /\ job'.file = job.file
           /\ UNCHANGED <<job.ledger, job.files, job.owed>>
  <2>1. Complete'
    BY <1>1, <1>2, <1>5, SetFacts DEF Complete, Whole, AllOf, Everything
  <2>2. Once'
    BY <1>1, <1>2, <1>5, SetFacts DEF Once, NothingSent, Ready, Everything
  <2>3. QED
    BY <2>1, <2>2
<1>6. QED
  BY <1>1, <1>3, <1>4, <1>5, UploadTypes

LEMMA SendTextSound == ASSUME Sound, SendText PROVE Complete' /\ Once'
<1> USE DEF Sound
<1>1. job \in Job /\ TypeOK /\ job.pc \in {"captioning", "linking"}
  BY DEF SendText, TypeOK
<1> DEFINE LinkArrives == IF JobAt("linking") THEN Arrives(Link) ELSE UNCHANGED chat
<1>2. ASSUME LinkArrives PROVE /\ \A o \in Everything : chat[o] > 0 => chat'[o] > 0
                               /\ JobAt("linking") => chat'[Link] > 0
                               /\ JobAt("linking") /\ chat[Link] = 0 => chat'[Link] = 1
                               /\ \A o \in Everything \ {Link} : chat'[o] = chat[o]
                               /\ ~JobAt("linking") => UNCHANGED chat
  <2>1. CASE JobAt("linking")
    BY <1>1, <1>2, <2>1, ChatGrows, SetFacts
  <2>2. CASE ~JobAt("linking")
    BY <1>2, <2>2
  <2>3. QED
    BY <2>1, <2>2
<1>3. CASE JobTo("recording") /\ LinkArrives /\ UNCHANGED excuses
  <2>1. SameBut("recording")
    BY <1>1, <1>3, JobTypes DEF JobPcs
  <2>2. Complete'
    BY <1>1, <1>2, <1>3, <2>1, SetFacts DEF Complete, Whole, AllOf, SameBut, JobAt, Everything
  <2>3. Once'
    BY <1>1, <1>2, <1>3, <2>1, SetFacts DEF Once, NothingSent, Ready, SameBut, JobAt
  <2>4. QED
    BY <2>2, <2>3
<1>4. CASE (\E error \in UploadErrors : Raise(error)) /\ excuses' = excuses \cup Half /\ UNCHANGED chat
  BY <1>1, <1>4, HalfTells, RaiseTypes, FailedSound
<1>5. CASE Raise("transient") /\ LinkArrives /\ excuses' = excuses \cup {"unheard"} \cup Half
  <2>1. excuses' # {}
    BY <1>5
  <2>2. SameBut("queued") \/ SameBut("failed")
    BY <1>1, <1>5, RaiseTypes
  <2>3. QED
    BY <1>2, <1>5, <2>1, <2>2, FailedSound
<1>6. QED
  BY <1>3, <1>4, <1>5 DEF SendText

LEMMA RecordSound == ASSUME Sound, Record PROVE Complete' /\ Once'
<1> USE DEF Sound
<1>1. job \in Job /\ job.pc = "recording" /\ UNCHANGED chat
  BY DEF Record, TypeOK, JobAt
<1>2. PICK kept \in BOOLEAN :
        /\ job' = [job EXCEPT !.pc = "saving", !.ledger = job.ledger \/ kept, !.owed = job.files]
        /\ excuses' = IF kept THEN excuses ELSE excuses \cup {"ledger"}
  BY DEF Record
<1>3. job'.pc = "saving" /\ job'.owed = job.files
  BY <1>1, <1>2 DEF Job
<1>4. job'.ledger = (job.ledger \/ kept)
  BY <1>1, <1>2 DEF Job
<1>5. Complete'
  BY <1>1, <1>3 DEF Complete, Whole, AllOf
<1>6. Once'
  <2>1. CASE kept
    BY <1>1, <1>2, <1>3, <1>4, <2>1 DEF Once, Ready
  <2>2. CASE ~kept
    BY <1>2, <2>2 DEF Once
  <2>3. QED
    BY <2>1, <2>2
<1>7. QED
  BY <1>5, <1>6

LEMMA SaveSound == ASSUME Sound, Save PROVE Complete' /\ Once'
<1> USE DEF Sound
<1>1. job \in Job /\ job.pc = "saving" /\ UNCHANGED <<chat, excuses>>
  BY DEF Save, TypeOK, JobAt
<1>2. SameBut("done") \/ SameBut("queued") \/ SameBut("failed")
  <2>1. CASE JobTo("done")
    BY <1>1, <2>1, JobTypes DEF JobPcs
  <2>2. CASE Raise("transient")
    BY <1>1, <2>2, RaiseTypes
  <2>3. QED
    BY <2>1, <2>2 DEF Save
<1>3. Complete'
  BY <1>1, <1>2 DEF Complete, Whole, AllOf, SameBut
<1>4. Once'
  BY <1>1, <1>2 DEF Once, NothingSent, Ready, SameBut
<1>5. QED
  BY <1>3, <1>4

LEMMA SoundStep == Sound /\ [Next]_vars => Sound'
<1> SUFFICES ASSUME Sound, [Next]_vars PROVE Sound'
  OBVIOUS
<1>1. TypeOK'
  BY TypeStep DEF Sound
<1>2. Complete' /\ Once'
  BY PickUpSound, CrashSound, OutsideSound, RouteSound, SentSound, NotSentSound, SendTextSound,
     RecordSound, SaveSound DEF DeliveryStep
<1>3. QED
  BY <1>1, <1>2 DEF Sound

LEMMA SoundHolds == Spec => []Sound
<1>1. Init => Sound
  <2> SUFFICES ASSUME Init PROVE Sound
    OBVIOUS
  <2>1. NothingSent /\ job.pc = "queued" /\ ~job.ledger
    BY DEF Init, NothingSent, Everything
  <2>2. Complete
    BY <2>1 DEF Complete
  <2>3. Once
    BY <2>1 DEF Once, NothingSent, Ready
  <2>4. QED
    BY <2>2, <2>3, InitTypes DEF Sound
<1>2. QED
  BY <1>1, SoundStep, PTL DEF Spec

(* DONE is only written of an attempt all of whose files, or their link, arrived. *)
THEOREM DoneIsWhole == Spec => []DoneMeansAllSent
<1>1. Sound => DoneMeansAllSent
  BY DEF Sound, Complete, Whole, AllOf, DoneMeansAllSent, JobAt
<1>2. QED
  BY <1>1, SoundHolds, PTL

(* Nothing is sent twice unless an attempt could not know that it had arrived. *)
THEOREM CopiesAreExcused == Spec => []SecondCopyIsExcused
<1>1. Sound => SecondCopyIsExcused
  <2> SUFFICES ASSUME Sound, excuses = {} PROVE ~(\E f \in DOMAIN chat : chat[f] > 1)
    BY DEF SecondCopyIsExcused
  <2>1. DOMAIN chat = Everything /\ \A f \in Everything : chat[f] \in 0 .. 2 /\ chat[f] <= 1
    BY DEF Sound, TypeOK, Everything, Once
  <2>2. QED
    BY <2>1
<1>2. QED
  BY <1>1, SoundHolds, PTL

-----------------------------------------------------------------------------
(***************************************************************************)
(* Attempt implements Parcel.                                               *)
(***************************************************************************)

\* Without an excuse, the chat shows how far the one attempt has come.
Neat ==
  /\ job.pc = "uploading" => job.file <= job.files
  /\ excuses = {} =>
       /\ job.pc = "uploading" =>
            chat[Link] = 0 /\ \A f \in Files : chat[f] = IF f < job.file THEN 1 ELSE 0
       /\ job.pc \in {"captioning", "recording"} => Promise!Exactly(job.files)
       /\ job.pc \in {"saving", "done"} \/ job.ledger => Promise!Exactly(job.owed)
       /\ job.ledger => job.pc \in {"queued", "saving", "done", "failed"}

\* What becomes of the user's view in a step that sends nothing.
Quiet == UNCHANGED <<chat, job.owed>> /\ excuses \subseteq excuses'

(* The attempt stays away from the delivery, or leaves it unfinished. *)
LEMMA NeatAway ==
  ASSUME Sound, Neat, job' \in Job, job'.pc \in Ready \cup {"linking", "queued", "failed"},
         excuses \subseteq excuses', UNCHANGED <<job.ledger, job.owed>>,
         excuses' # {} \/ UNCHANGED chat,
         excuses' # {} \/ ~job.ledger \/ job'.pc \in {"queued", "failed"}
  PROVE  Neat'
<1>1. job'.pc \notin {"uploading", "captioning", "recording", "saving", "done"}
  BY DEF Ready
<1>2. ASSUME excuses' = {}, job'.ledger
      PROVE  Promise!Exactly(job.owed)' /\ job'.pc \in {"queued", "saving", "done", "failed"}
  <2>1. Promise!Exactly(job.owed) /\ UNCHANGED chat
    BY <1>2 DEF Neat
  <2>2. QED
    BY <1>2, <2>1 DEF Promise!Exactly
<1>3. QED
  BY <1>1, <1>2 DEF Neat

LEMMA LedgerAway ==
  ASSUME Sound, Neat, job.pc \in Ready \cup Sending \cup {"recording"}
  PROVE  excuses # {} \/ ~job.ledger
  BY DEF Neat, Ready, Sending

LEMMA OutsideNeat ==
  ASSUME Sound, Sound', Neat, [Next]_vars, ~DeliveryStep, ~PickUp, ~Crash PROVE Neat'
<1>1. /\ UNCHANGED <<chat, excuses>> /\ UNCHANGED <<job.ledger, job.owed>>
      /\ \/ job'.pc = job.pc /\ UNCHANGED <<job.file, job.files>>
         \/ job.pc \in Ready /\ job'.pc \in Ready \cup {"queued", "failed"}
         \/ job'.pc = "failed"
      /\ job' \in Job
  BY OutsideDelivery DEF Sound, TypeOK
<1>2. CASE job'.pc = job.pc /\ UNCHANGED <<job.file, job.files>>
  BY <1>1, <1>2 DEF Neat, Promise!Exactly
<1>3. CASE job.pc \in Ready /\ job'.pc \in Ready \cup {"queued", "failed"}
  BY <1>1, <1>3, LedgerAway, NeatAway
<1>4. CASE job'.pc = "failed"
  BY <1>1, <1>4, NeatAway
<1>5. QED
  BY <1>1, <1>2, <1>3, <1>4

LEMMA PickUpNeat == ASSUME Sound, Sound', Neat, PickUp PROVE Neat'
<1>1. /\ job \in Job /\ job' \in Job /\ job.pc = "queued" /\ UNCHANGED chat
      /\ UNCHANGED <<job.ledger, job.owed>> /\ excuses \subseteq excuses'
      /\ \/ job.ledger /\ job'.pc = "saving" /\ UNCHANGED excuses
         \/ job'.pc \in {"analyzing", "failed"} /\ (job.ledger => excuses' # {})
  BY DEF Sound, PickUp, JobAt, Job, TypeOK
<1>2. CASE job.ledger /\ job'.pc = "saving" /\ UNCHANGED excuses
  BY <1>1, <1>2 DEF Neat, Promise!Exactly
<1>3. CASE job'.pc \in {"analyzing", "failed"} /\ (job.ledger => excuses' # {})
  BY <1>1, <1>3, NeatAway DEF Ready
<1>4. QED
  BY <1>1, <1>2, <1>3

LEMMA CrashEffect ==
  ASSUME TypeOK, Crash
  PROVE  /\ UNCHANGED chat /\ UNCHANGED <<job.ledger, job.owed, job.file, job.files>>
         /\ excuses \subseteq excuses'
         /\ \/ job'.pc \in {"queued", "failed"} /\ ~Over /\ job.pc # "queued"
            \/ job'.pc = job.pc /\ (Over \/ job.pc = "queued") /\ UNCHANGED excuses
<1>1. job \in Job /\ UNCHANGED chat /\ excuses \subseteq excuses'
  BY DEF TypeOK, Crash
<1>2. CASE Working
  <2>1. JobTo("queued") \/ JobTo("failed")
    BY <1>2 DEF Crash
  <2>2. QED
    BY <1>1, <1>2, <2>1, JobTypes DEF SameBut, JobPcs, Working, JobAt
<1>3. CASE ~Working
  <2>1. JobTo(job.pc) /\ job.pc \in {"done", "failed", "queued"}
    BY <1>3 DEF Crash, Working, Over, JobAt
  <2>2. UNCHANGED excuses
    BY <2>1 DEF Crash, Sending
  <2>3. QED
    BY <1>1, <2>1, <2>2, JobTypes DEF SameBut, JobPcs, Over
<1>4. QED
  BY <1>2, <1>3

LEMMA CrashNeat == ASSUME Sound, Sound', Neat, Crash PROVE Neat'
<1>1. job' \in Job
  BY DEF Sound, TypeOK
<1>2. CASE job'.pc \in {"queued", "failed"}
  BY <1>1, <1>2, CrashEffect, NeatAway DEF Sound
<1>3. CASE job'.pc = job.pc /\ UNCHANGED excuses
  BY <1>3, CrashEffect DEF Sound, Neat, Promise!Exactly
<1>4. QED
  BY <1>2, <1>3, CrashEffect DEF Sound

LEMMA RouteNeat == ASSUME Sound, Sound', Neat, Route PROVE Neat'
<1>1. /\ job \in Job /\ job' \in Job /\ job.pc = "delivering" /\ job.file = 1
      /\ UNCHANGED <<chat, excuses>>
  BY DEF Sound, Complete, Route, JobAt, TypeOK, Quietly
<1>2. CASE JobTo("uploading")
  <2>1. SameBut("uploading")
    BY <1>1, <1>2, JobTypes DEF JobPcs, Sending
  <2>2. job.files \in Nat /\ job.files >= 1
    BY <1>1 DEF Job, Files
  <2>3. excuses = {} => NothingSent /\ ~job.ledger
    BY <1>1, LedgerAway DEF Sound, Once, Ready
  <2>4. \A f \in Files : ~(f < 1) /\ f \in Everything
    BY DEF Files, Everything
  <2>5. QED
    BY <1>1, <2>1, <2>2, <2>3, <2>4 DEF Neat, SameBut, NothingSent, Everything
<1>3. CASE JobTo("linking") \/ Raise("storage")
  <2>1. SameBut("linking") \/ SameBut("queued") \/ SameBut("failed")
    BY <1>1, <1>3, JobTypes, RaiseTypes DEF JobPcs, Sending
  <2>2. QED
    BY <1>1, <2>1, LedgerAway, NeatAway DEF SameBut, Ready
<1>4. QED
  BY <1>2, <1>3 DEF Route

LEMMA SentNeat == ASSUME Sound, Sound', Neat, Sent PROVE Neat'
<1>1. /\ TypeOK /\ job \in Job /\ job' \in Job /\ job.pc = "uploading" /\ UNCHANGED excuses
      /\ Arrives(job.file) /\ AfterFile
      /\ job.file \in Nat /\ job.files \in Nat /\ job.file <= job.files
      /\ job'.file \in Nat
  BY DEF Sound, Sent, TypeOK, JobAt, Neat, Job, Files
<1>2. /\ UNCHANGED <<job.ledger, job.files, job.owed>>
      /\ \/ job.file < job.files /\ job'.pc = "uploading" /\ job'.file = job.file + 1
         \/ job.file = job.files /\ job'.pc \in {"captioning", "recording"}
  BY <1>1, AfterFileTypes
<1>3. ASSUME excuses = {}
      PROVE  /\ ~job.ledger /\ chat'[Link] = 0
             /\ \A f \in Files : chat'[f] = IF f <= job.file THEN 1 ELSE 0
  <2>1. /\ chat[Link] = 0 /\ ~job.ledger
        /\ \A f \in Files : chat[f] = IF f < job.file THEN 1 ELSE 0
    BY <1>1, <1>3, LedgerAway DEF Neat, Sending
  <2>2. /\ \A o \in Everything \ {job.file} : chat'[o] = chat[o]
        /\ chat[job.file] = 0 => chat'[job.file] = 1
    BY <1>1, ChatGrows, SetFacts
  <2>3. job.file \in Files /\ Files \subseteq Nat /\ Files \subseteq Everything
    BY <1>1 DEF Job, Files, Everything
  <2>4. chat'[job.file] = 1 /\ chat'[Link] = 0
    <3>1. chat[job.file] = 0 /\ ~(job.file < job.file)
      BY <1>1, <2>1, <2>3
    <3>2. Link \in Everything \ {job.file}
      BY <1>1, SetFacts
    <3>3. QED
      BY <2>1, <2>2, <3>1, <3>2
  <2>5. ASSUME NEW f \in Files PROVE chat'[f] = IF f <= job.file THEN 1 ELSE 0
    <3>1. CASE f = job.file
      BY <1>1, <2>4, <3>1
    <3>2. CASE f # job.file
      BY <1>1, <2>1, <2>2, <2>3, <3>2
    <3>3. QED
      BY <3>1, <3>2
  <2>6. QED
    BY <2>1, <2>4, <2>5
<1>4. CASE job.file < job.files /\ job'.pc = "uploading" /\ job'.file = job.file + 1
  <2>1. \A f \in Files : f \in Nat /\ (f < job.file + 1 <=> f <= job.file)
    BY <1>1 DEF Files
  <2>2. QED
    BY <1>1, <1>2, <1>3, <1>4, <2>1 DEF Neat
<1>5. CASE job.file = job.files /\ job'.pc \in {"captioning", "recording"}
  BY <1>1, <1>2, <1>3, <1>5 DEF Neat, Promise!Exactly, Promise!Files, Files
<1>6. QED
  BY <1>2, <1>4, <1>5

LEMMA NotSentNeat == ASSUME Sound, Sound', Neat, NotSent PROVE Neat'
<1>1. job \in Job /\ job' \in Job /\ TypeOK /\ job.pc = "uploading" /\ excuses \subseteq excuses'
  BY DEF Sound, NotSent, TypeOK, JobAt
<1>2. excuses' # {} \/ UNCHANGED chat
  BY DEF NotSent
<1>3. PICK error : UploadFails(error)
  BY DEF NotSent
<1>4. CASE SameBut("queued") \/ SameBut("failed")
  BY <1>1, <1>2, <1>4, NeatAway DEF SameBut
<1>5. CASE /\ job'.pc = job.pc /\ job'.file = job.file
           /\ UNCHANGED <<job.ledger, job.files, job.owed>>
  <2>1. excuses' = {} => excuses = {} /\ ~job.ledger
    BY <1>1, LedgerAway DEF Sending
  <2>2. QED
    BY <1>1, <1>2, <1>5, <2>1 DEF Neat
<1>6. QED
  BY <1>1, <1>3, <1>4, <1>5, UploadTypes

LEMMA SendTextNeat == ASSUME Sound, Sound', Neat, SendText PROVE Neat'
<1>1. job \in Job /\ job' \in Job /\ TypeOK /\ job.pc \in {"captioning", "linking"}
  BY DEF Sound, SendText, TypeOK
<1>2. CASE /\ JobTo("recording") /\ UNCHANGED excuses
           /\ IF JobAt("linking") THEN Arrives(Link) ELSE UNCHANGED chat
  <2>1. SameBut("recording")
    BY <1>1, <1>2, JobTypes DEF JobPcs
  <2>2. excuses = {} => ~job.ledger
    BY <1>1, LedgerAway DEF Sending
  <2>3. ASSUME excuses = {} PROVE Promise!Exactly(job.files)'
    <3>1. CASE job.pc = "captioning"
      BY <1>2, <2>1, <2>3, <3>1 DEF Neat, Promise!Exactly, SameBut, JobAt
    <3>2. CASE job.pc = "linking"
      <4>1. NothingSent /\ Arrives(Link)
        BY <1>2, <2>3, <3>2 DEF Sound, Once, JobAt
      <4>2. chat'[Link] = 1 /\ \A o \in Everything \ {Link} : chat'[o] = chat[o]
        BY <1>1, <4>1, ChatGrows, SetFacts DEF NothingSent
      <4>3. \A f \in Files : chat'[f] = 0
        BY <4>1, <4>2, SetFacts DEF NothingSent, Everything, Files, Link
      <4>4. QED
        BY <4>2, <4>3 DEF Promise!Exactly, Promise!Files, Files
    <3>3. QED
      BY <1>1, <3>1, <3>2
  <2>4. QED
    BY <1>2, <2>1, <2>2, <2>3 DEF Neat, SameBut
<1>3. CASE (\E error : Raise(error)) /\ excuses \subseteq excuses' /\ (excuses' # {} \/ UNCHANGED chat)
  BY <1>1, <1>3, RaiseTypes, NeatAway DEF SameBut
<1>4. QED
  BY <1>2, <1>3 DEF SendText

LEMMA RecordNeat == ASSUME Sound, Sound', Neat, Record PROVE Neat'
<1>1. job \in Job /\ job.pc = "recording" /\ UNCHANGED chat /\ excuses \subseteq excuses'
  BY DEF Sound, Record, TypeOK, JobAt
<1>2. job'.pc = "saving" /\ job'.owed = job.files
  BY <1>1 DEF Record, Job
<1>3. excuses' = {} => Promise!Exactly(job.files)
  BY <1>1 DEF Neat
<1>4. QED
  BY <1>1, <1>2, <1>3 DEF Neat, Promise!Exactly

LEMMA SaveNeat == ASSUME Sound, Sound', Neat, Save PROVE Neat'
<1>1. job \in Job /\ job' \in Job /\ job.pc = "saving" /\ UNCHANGED <<chat, excuses>>
  BY DEF Sound, Save, TypeOK, JobAt
<1>2. CASE JobTo("done")
  <2>1. SameBut("done")
    BY <1>1, <1>2, JobTypes DEF JobPcs
  <2>2. QED
    BY <1>1, <2>1 DEF Neat, Promise!Exactly, SameBut
<1>3. CASE Raise("transient")
  BY <1>1, <1>3, RaiseTypes, NeatAway DEF SameBut
<1>4. QED
  BY <1>2, <1>3 DEF Save

LEMMA NeatStep == ASSUME Sound, Sound', Neat, [Next]_vars PROVE Neat'
  BY PickUpNeat, CrashNeat, OutsideNeat, RouteNeat, SentNeat, NotSentNeat, SendTextNeat,
     RecordNeat, SaveNeat DEF DeliveryStep

\* Over, the job does nothing any more.
LEMMA OverStays ==
  ASSUME TypeOK, [Next]_vars, Over
  PROVE  UNCHANGED <<chat, job, excuses>> \/ (UNCHANGED <<chat, excuses>> /\ job' = [job EXCEPT !.pc = job.pc])
  BY DEF Over, Next, PickUp, DownloadStep, Extract, PickOption, Probe, CheckSize, FetchPhotos, ReExtract, FetchPost,
         StartVideo, StartPostVideos, MyCall, DownloadDone, CallFails, MakeCompatible, DeliveryStep,
         Route, Sent, NotSent, SendText, Record, Save, ChildWrites, OtherCall, JobTimesOut, Crash,
         Tick, Working, JobAt, JobTo, Sending, vars

\* A step that sends nothing and ends nothing well.
LEMMA QuietRefines ==
  ASSUME ~Over, Quiet, job'.pc # "done" PROVE Promise!Falter
<1>1. (IF Over THEN job.pc ELSE "open") = "open"
  OBVIOUS
<1>2. (IF Over THEN job.pc ELSE "open")' \in {"open", "failed"}
  BY DEF Over
<1>3. (excuses # {})' \in {excuses # {}, TRUE}
  BY DEF Quiet
<1>4. QED
  BY <1>1, <1>2, <1>3 DEF Promise!Falter, Quiet

LEMMA OutsideRefines ==
  ASSUME Sound, [Next]_vars, ~Over, ~DeliveryStep, ~PickUp, ~Crash PROVE Promise!Falter
<1>1. Quiet /\ job'.pc # "done"
  BY OutsideDelivery DEF Sound, Quiet, Over, Ready
<1>2. QED
  BY <1>1, QuietRefines

LEMMA PickUpRefines == ASSUME Sound, PickUp PROVE Promise!Falter
<1>1. /\ ~Over /\ UNCHANGED chat /\ job'.pc # "done" /\ job'.owed = job.owed
      /\ excuses \subseteq excuses'
  BY DEF Sound, PickUp, JobAt, Job, TypeOK, Over
<1>2. QED
  BY <1>1, QuietRefines DEF Quiet

LEMMA RouteRefines == ASSUME Sound, Route PROVE Promise!Falter
<1>1. job \in Job /\ ~Over /\ UNCHANGED <<chat, excuses>>
  BY DEF Sound, Route, JobAt, TypeOK, Quietly, Over
<1>2. SameBut("uploading") \/ SameBut("linking") \/ SameBut("queued") \/ SameBut("failed")
  BY <1>1, JobTypes, RaiseTypes DEF Route, JobPcs, Sending
<1>3. QED
  BY <1>1, <1>2, QuietRefines DEF Quiet, SameBut

\* A file, or the link, arrives: in turn, or after something that excuses it.
LEMMA ArrivesRefines ==
  ASSUME NEW f \in Everything, Arrives(f), ~Over, job'.owed = job.owed,
         excuses = {} => Promise!InTurn(f),
         \/ ~Over' /\ UNCHANGED excuses
         \/ job'.pc # "done" /\ excuses' # {}
  PROVE  \E g \in Files \cup {Link} : Promise!Arrive(g)
<1>1. (IF Over THEN job.pc ELSE "open") = "open"
  OBVIOUS
<1>2. \/ (IF Over THEN job.pc ELSE "open")' = "open" /\ (excuses # {})' = (excuses # {})
      \/ (IF Over THEN job.pc ELSE "open")' \in {"open", "failed"} /\ (excuses # {})' = TRUE
  BY DEF Over
<1>3. Promise!Arrive(f)
  BY <1>1, <1>2 DEF Promise!Arrive, Arrives
<1>4. QED
  BY <1>3 DEF Everything

LEMMA InTurn ==
  ASSUME Sound, Neat, job.pc = "uploading", excuses = {} PROVE Promise!InTurn(job.file)
<1>1. chat[Link] = 0 /\ \A f \in Files : chat[f] = IF f < job.file THEN 1 ELSE 0
  BY DEF Neat
<1>2. job.file \in Files /\ job.file # Link /\ Files \subseteq Nat
  BY DEF Sound, TypeOK, Job, Files, Link
<1>3. QED
  BY <1>1, <1>2 DEF Promise!InTurn, Promise!Files, Files

LEMMA SentRefines == ASSUME Sound, Neat, Sent PROVE \E g \in Files \cup {Link} : Promise!Arrive(g)
<1>1. /\ job \in Job /\ job.pc = "uploading" /\ UNCHANGED excuses
      /\ Arrives(job.file) /\ AfterFile /\ job.file \in Everything
  BY DEF Sound, Sent, TypeOK, JobAt, Everything, Job
<1>2. job'.owed = job.owed /\ ~Over /\ ~Over'
  BY <1>1, AfterFileTypes DEF Over, Job, Files
<1>3. QED
  BY <1>1, <1>2, InTurn, ArrivesRefines

LEMMA NotSentRefines ==
  ASSUME Sound, Neat, NotSent
  PROVE  Promise!Falter \/ \E g \in Files \cup {Link} : Promise!Arrive(g)
<1>1. /\ job \in Job /\ job.pc = "uploading" /\ job.file \in Everything /\ ~Over
  BY DEF Sound, NotSent, TypeOK, JobAt, Everything, Job, Over
<1>2. PICK error : UploadFails(error)
  BY DEF NotSent
<1>3. job'.owed = job.owed /\ job'.pc # "done"
  BY <1>1, <1>2, UploadTypes DEF SameBut
<1>4. CASE UNCHANGED chat /\ excuses \subseteq excuses'
  BY <1>1, <1>3, <1>4, QuietRefines DEF Quiet
<1>5. CASE Arrives(job.file) /\ excuses' # {}
  BY <1>1, <1>3, <1>5, InTurn, ArrivesRefines
<1>6. QED
  BY <1>4, <1>5 DEF NotSent

LEMMA SendTextRefines ==
  ASSUME Sound, Neat, SendText
  PROVE  Promise!Falter \/ \E g \in Files \cup {Link} : Promise!Arrive(g)
<1>1. job \in Job /\ job.pc \in {"captioning", "linking"} /\ ~Over /\ Link \in Everything
  BY DEF Sound, SendText, TypeOK, Over, Everything
<1>2. SameBut("recording") \/ SameBut("queued") \/ SameBut("failed")
  BY <1>1, JobTypes, RaiseTypes DEF SendText, JobPcs
<1>3. job'.owed = job.owed /\ job'.pc # "done"
  BY <1>2 DEF SameBut
<1>4. CASE UNCHANGED chat /\ excuses \subseteq excuses'
  BY <1>1, <1>3, <1>4, QuietRefines DEF Quiet
<1>5. CASE /\ job.pc = "linking" /\ Arrives(Link)
           /\ (SameBut("recording") /\ UNCHANGED excuses) \/ excuses' # {}
  <2>1. excuses = {} => Promise!InTurn(Link)
    BY <1>5 DEF Sound, Once, NothingSent, Everything, Promise!InTurn, Promise!Files, Files
  <2>2. SameBut("recording") => ~Over'
    BY DEF SameBut, Over
  <2>3. QED
    BY <1>1, <1>3, <1>5, <2>1, <2>2, ArrivesRefines
<1>6. JobTo("recording") => SameBut("recording")
  BY <1>1, JobTypes DEF JobPcs
<1>7. QED
  BY <1>1, <1>4, <1>5, <1>6 DEF SendText, JobAt

LEMMA RecordRefines == ASSUME Sound, Neat, Record PROVE \E n \in Promise!Files : Promise!Settle(n)
<1>1. /\ job \in Job /\ job.pc = "recording" /\ UNCHANGED chat /\ excuses \subseteq excuses'
      /\ job.files \in Promise!Files
  BY DEF Sound, Record, TypeOK, JobAt, Job, Promise!Files, Files
<1>2. job'.pc = "saving" /\ job'.owed = job.files
  BY <1>1 DEF Record, Job
<1>3. Promise!Delivered(job.files)
  BY <1>1 DEF Neat, Sound, Complete, Whole, AllOf, Promise!Delivered, Promise!Whole
<1>4. ~Over /\ ~Over'
  BY <1>1, <1>2 DEF Over
<1>5. (excuses # {})' \in {excuses # {}, TRUE}
  BY <1>1
<1>6. Promise!Settle(job.files)
  BY <1>1, <1>2, <1>3, <1>4, <1>5 DEF Promise!Settle
<1>7. QED
  BY <1>1, <1>6

LEMMA SaveRefines == ASSUME Sound, Neat, Save PROVE Promise!Falter \/ Promise!Finish
<1>1. job \in Job /\ job.pc = "saving" /\ UNCHANGED <<chat, excuses>> /\ ~Over
  BY DEF Sound, Save, TypeOK, JobAt, Over
<1>2. CASE JobTo("done")
  <2>1. SameBut("done")
    BY <1>1, <1>2, JobTypes DEF JobPcs
  <2>2. Promise!Delivered(job.owed)
    BY <1>1 DEF Neat, Sound, Complete, Whole, AllOf, Promise!Delivered, Promise!Whole
  <2>3. (IF Over THEN job.pc ELSE "open")' = "done"
    BY <2>1 DEF SameBut, Over
  <2>4. Promise!Finish
    BY <1>1, <2>1, <2>2, <2>3 DEF Promise!Finish, SameBut
  <2>5. QED
    BY <2>4
<1>3. CASE Raise("transient")
  <2>1. Quiet /\ job'.pc # "done"
    BY <1>1, <1>3, RaiseTypes DEF SameBut, Quiet
  <2>2. QED
    BY <1>1, <2>1, QuietRefines
<1>4. QED
  BY <1>2, <1>3 DEF Save

LEMMA CrashRefines == ASSUME Sound, ~Over, Crash PROVE Promise!Falter
<1>1. Quiet /\ job'.pc # "done"
  BY CrashEffect DEF Sound, Quiet, Over
<1>2. QED
  BY <1>1, QuietRefines

LEMMA ParcelStep == ASSUME Sound, Neat, [Next]_vars PROVE [Promise!Next]_(Promise!vars)
<1>1. CASE Over
  <2>1. job'.pc = job.pc /\ job'.owed = job.owed /\ UNCHANGED <<chat, excuses>>
    BY <1>1, OverStays DEF Sound, TypeOK, Job
  <2>2. Over' <=> Over
    BY <2>1 DEF Over
  <2>3. QED
    BY <2>1, <2>2 DEF Promise!vars
<1>2. CASE ~Over
  <2>1. \/ Promise!Falter \/ Promise!Finish
        \/ \E n \in Promise!Files : Promise!Settle(n)
        \/ \E g \in Files \cup {Link} : Promise!Arrive(g)
    BY <1>2, OutsideRefines, PickUpRefines, CrashRefines, RouteRefines, SentRefines,
       NotSentRefines, SendTextRefines, RecordRefines, SaveRefines DEF DeliveryStep
  <2>2. Promise!Files = Files
    BY DEF Promise!Files, Files
  <2>3. QED
    BY <2>1, <2>2 DEF Promise!Next
<1>3. QED
  BY <1>1, <1>2

(* Attempt implements Parcel: whatever is tried, given up, timed out, cut off *)
(* and tried again, the chat shows each file once and in order until an       *)
(* attempt could not know or tell, DONE is said of all of them, and after the *)
(* end nothing arrives.                                                      *)
THEOREM ParcelsArrive == Spec => ImplementsParcel
<1>1. Init => Neat
  BY DEF Init, Neat
<1>2. Init => Promise!Init
  BY DEF Init, Promise!Init, Promise!Files, Files, Over
<1>3. Sound /\ Neat /\ [Next]_vars => [Promise!Next]_(Promise!vars)
  BY ParcelStep
<1>4. Sound /\ Sound' /\ Neat /\ [Next]_vars => Neat'
  BY NeatStep
<1>5. Spec => []Neat
  BY <1>1, <1>4, SoundHolds, PTL DEF Spec
<1>6. QED
  BY <1>2, <1>3, <1>5, SoundHolds, PTL DEF Spec, ImplementsParcel, Promise!Spec

-----------------------------------------------------------------------------
(***************************************************************************)
(* The estimate. Of an ordinary set of formats, of whatever heights and       *)
(* sizes, the helper finds in the same round the same video as the format    *)
(* selector, and the same sound.                                            *)
(***************************************************************************)

LEMMA FirstRound ==
  ASSUME NEW S \in SUBSET Rounds, S # {}
  PROVE  First(S) \in S /\ \A j \in S : First(S) <= j
<1>1. \E i \in S : \A j \in S : i <= j
  <2>1. Rounds = {1, 2, 3, 4}
    BY DEF Rounds
  <2>2. CASE 1 \in S
    BY <2>1, <2>2
  <2>3. CASE 1 \notin S /\ 2 \in S
    BY <2>1, <2>3
  <2>4. CASE 1 \notin S /\ 2 \notin S /\ 3 \in S
    BY <2>1, <2>4
  <2>5. CASE 1 \notin S /\ 2 \notin S /\ 3 \notin S
    <3>1. S = {4}
      BY <2>1, <2>5
    <3>2. QED
      BY <3>1
  <2>6. QED
    BY <2>2, <2>3, <2>4, <2>5
<1>2. QED
  BY <1>1 DEF First

LEMMA EstimateIsExact ==
  ASSUME NEW fs \in SUBSET Formats, NEW h \in Heights, Ordinary(fs, h)
  PROVE  Estimate(fs, h) = Fetched(fs, h)
<1> DEFINE known  == {f \in fs : f.size > 0}
           videos == {f \in known : Video(f) /\ f.height <= h}
           rounds == {i \in Rounds : \E f \in videos : Round(i, f)}
           sounds == {f \in known : ~Video(f)}
           m4a    == {f \in sounds : f.sound = "m4a"}
           silent == {f \in fs : Video(f) /\ Silent(f) /\ f.height <= h}
           heard(i) == {f \in fs : ~Video(f) /\ ~Silent(f) /\ (i < 4 => f.sound = "m4a")}
           tried  == {i \in Rounds : heard(i) # {} /\ \E f \in silent : Round(i, f)}
<1>1. known = fs /\ m4a # {}
  BY DEF Ordinary
<1>2. silent = videos
  BY <1>1 DEF Ordinary
<1>3. \A i \in Rounds : heard(i) # {}
  <2>1. PICK f \in fs : ~Video(f) /\ f.sound = "m4a"
    BY DEF Ordinary
  <2>2. ~Silent(f)
    BY <2>1 DEF Silent
  <2>3. QED
    BY <2>1, <2>2
<1>4. tried = rounds
  BY <1>2, <1>3
<1>5. PICK i \in {2, 3} : i \in rounds
  BY <1>1 DEF Ordinary, Rounds, Round
<1>6. First(rounds) \in Rounds /\ First(rounds) <= 3
  <2>1. rounds \in SUBSET Rounds /\ rounds # {}
    BY <1>5
  <2>2. First(rounds) \in rounds /\ First(rounds) <= i
    BY <1>5, <2>1, FirstRound
  <2>3. QED
    BY <1>5, <2>2 DEF Rounds
<1>7. heard(First(rounds)) = m4a
  <2>1. \A f \in fs : f.sound = "m4a" => ~Silent(f)
    BY DEF Silent
  <2>2. First(rounds) < 4
    BY <1>6 DEF Rounds
  <2>3. QED
    BY <1>1, <2>1, <2>2
<1>8. Estimate(fs, h) = BestVideo({f \in videos : Round(First(rounds), f)}) + Size(m4a)
  BY <1>1, <1>5 DEF Estimate
<1>9. Fetched(fs, h) = Size(Tallest({f \in silent : Round(First(tried), f)})) + Size(heard(First(tried)))
  BY <1>4, <1>5 DEF Fetched
<1>10. QED
  BY <1>2, <1>4, <1>7, <1>8, <1>9 DEF BestVideo

LEMMA OverKept ==
  ASSUME TypeOK, [Next]_vars, ~CheckSize
  PROVE  job'.over = job.over
<1>0. job \in Job
  BY DEF TypeOK
<1>1. CASE PickUp
  BY <1>0, <1>1 DEF PickUp, Job
<1>2. CASE PickOption \/ FetchPhotos \/ FetchPost \/ DownloadDone \/ CallFails
  BY <1>0, <1>2, JobTypes, RaiseTypes DEF PickOption, FetchPhotos, FetchPost, DownloadDone, CallFails, SameBut, JobPcs, Ready
<1>3. CASE Opening
  BY <1>0, <1>3, JobTypes DEF Opening, Extract, Probe, ReExtract, StartVideo, StartPostVideos, SameBut, JobPcs, Ready
<1>4. CASE MakeCompatible
  BY <1>0, <1>4 DEF MakeCompatible, Job
<1>5. CASE Route \/ SendText \/ Save
  BY <1>0, <1>5, JobTypes, RaiseTypes DEF Route, SendText, Save, SameBut, JobPcs, Sending
<1>6. CASE Sent \/ NotSent
  BY <1>0, <1>6, AfterFileTypes, UploadTypes DEF Sent, NotSent, SameBut
<1>7. CASE Record
  BY <1>0, <1>7 DEF Record, Job
<1>8. CASE JobTimesOut \/ Crash
  BY <1>0, <1>8, JobTypes DEF JobTimesOut, Crash, SameBut, JobPcs, Job
<1>9. CASE UNCHANGED vars \/ ChildWrites \/ MyCall \/ (\E c \in Others : OtherCall(c)) \/ Tick
  BY <1>9 DEF vars, ChildWrites, MyCall, OtherCall, Tick
<1>10. QED
  BY <1>1, <1>2, <1>3, <1>4, <1>5, <1>6, <1>7, <1>8, <1>9, NextSplit DEF Plain, Answered, DeliveryStep

(* Of an ordinary video nothing over the cap is fetched, for any set of formats. *)
THEOREM OversizeRefused == Spec => []OversizeIsNeverFetched
<1>1. \A over \in Admitted : over = FALSE
  <2> DEFINE choices == {c \in (SUBSET Formats) \X Heights : WithinCap(c[1], c[2])}
  <2>1. ASSUME NEW c \in choices PROVE (Ordinary(c[1], c[2]) /\ ~Fits(Fetched(c[1], c[2]))) = FALSE
    <3>1. c[1] \in SUBSET Formats /\ c[2] \in Heights /\ Fits(Estimate(c[1], c[2]))
      BY DEF WithinCap
    <3>2. CASE Ordinary(c[1], c[2])
      BY <3>1, <3>2, EstimateIsExact
    <3>3. CASE ~Ordinary(c[1], c[2])
      BY <3>3
    <3>4. QED
      BY <3>2, <3>3
  <2>2. Admitted = {Ordinary(c[1], c[2]) /\ ~Fits(Fetched(c[1], c[2])) : c \in choices}
    BY DEF Admitted
  <2> HIDE DEF choices
  <2>3. QED
    BY <2>1, <2>2
<1>2. ASSUME TypeOK, ~job.over, [Next]_vars PROVE ~job'.over
  <2>1. CASE CheckSize
    <3>1. CASE JobTo("failed")
      BY <1>2, <3>1, JobTypes DEF TypeOK, SameBut, JobPcs
    <3>2. ASSUME NEW over \in Admitted, job' = [job EXCEPT !.pc = "fetching", !.over = over] PROVE ~job'.over
      <4>1. over = FALSE
        BY <1>1
      <4>2. job'.over = over
        BY <1>2, <3>2 DEF TypeOK, Job
      <4>3. QED
        BY <4>1, <4>2
    <3>3. QED
      BY <2>1, <3>1, <3>2 DEF CheckSize
  <2>2. CASE ~CheckSize
    <3>1. job'.over = job.over
      BY <1>2, <2>2, OverKept
    <3>2. QED
      BY <1>2, <3>1
  <2>3. QED
    BY <2>1, <2>2
<1>3. Init => TypeOK /\ OversizeIsNeverFetched
  BY InitTypes DEF Init, OversizeIsNeverFetched
<1>4. TypeOK /\ OversizeIsNeverFetched /\ [Next]_vars => TypeOK' /\ OversizeIsNeverFetched'
  BY <1>2, TypeStep DEF OversizeIsNeverFetched
<1>5. QED
  BY <1>3, <1>4, PTL DEF Spec
=============================================================================
