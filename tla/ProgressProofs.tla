--------------------------- MODULE ProgressProofs ---------------------------
(***************************************************************************)
(* What Progress promises about the placeholder, proved for any number of   *)
(* tries, any number of failures and any ages that keep OrderAssumption.    *)
(***************************************************************************)
EXTENDS Progress, TLAPS

USE ConstantsAssumption

-----------------------------------------------------------------------------
(***************************************************************************)
(* Type correctness.                                                       *)
(***************************************************************************)

LEMMA CaptionTypes ==
  /\ \A s \in Working \cup Terminal : Text(s) \in Caption
  /\ \A l \in Levels : Percent(l) \in Caption
  /\ Stale \in Screens /\ Refused \in Screens /\ Gone \in Screens
  /\ \A c \in Caption : c \in Screens
  BY DEF Caption, Screens, Text, Percent, Working, Terminal

LEMMA EntryTypes ==
  /\ Fresh \in Entry /\ Out \in Entry /\ Poll \in Loop
  /\ Fresh.in = TRUE /\ Out.in = FALSE /\ Poll.pc = "poll" /\ Poll.caption = NoCaption
  BY DEF Fresh, Out, Poll, Entry, Loop, NoCaption, Text

LEMMA InitTypeOK == Init => TypeOK
<1> SUFFICES ASSUME Init PROVE TypeOK
  OBVIOUS
<1>1. entry \in Entry /\ loop \in Loop
  BY EntryTypes DEF Init
<1>2. hash \in Hash /\ job \in Job /\ shown \in Screens
  BY CaptionTypes DEF Init, Hash, Job, Checking, Working
<1>3. QED
  BY <1>1, <1>2 DEF Init, TypeOK

LEMMA JobTypes ==
  ASSUME job \in Job, NEW pc \in Checking \cup Sending \cup {"cancelled", "failing", "over"}, JobTo(pc)
  PROVE  job' \in Job /\ job'.pc = pc /\ job'.ledger = job.ledger /\ job'.tries = job.tries
  BY DEF Job, JobTo

LEMMA PutTypes ==
  ASSUME TypeOK, NEW caption \in Caption, Put(caption)
  PROVE  /\ hash' \in Hash /\ event' \in BOOLEAN /\ faults' \in Nat
         /\ hash'.caption = caption /\ hash'.left = HashTTL
  BY DEF TypeOK, Put, Hash, Fault, Fine

LEMMA ReportTypes ==
  ASSUME TypeOK, NEW caption \in Caption, Report(caption)
  PROVE  /\ hash' \in Hash /\ event' \in BOOLEAN /\ faults' \in Nat /\ meta' = meta
         /\ hash' = hash \/ (hash'.caption = caption /\ hash'.left = HashTTL)
<1>1. CASE Put(caption)
  BY <1>1, PutTypes DEF Report
<1>2. CASE Fault /\ UNCHANGED <<hash, event>>
  BY <1>2 DEF Report, Fault, TypeOK
<1>3. QED
  BY <1>1, <1>2 DEF Report

LEMMA HandlerTypes == ASSUME TypeOK, HandlerStep PROVE TypeOK'
<1> USE DEF TypeOK, bot, redis, outcome, history
<1>1. CASE Enqueue
  BY <1>1 DEF Enqueue, Job, Checking
<1>2. CASE Refuse
  <2>1. CASE Fine /\ shown' = Refused /\ UNCHANGED stranded
    BY <1>2, <2>1, CaptionTypes DEF Refuse, Fine
  <2>2. CASE Fault /\ stranded' = TRUE /\ UNCHANGED shown
    BY <1>2, <2>2 DEF Refuse, Fault
  <2>3. QED
    BY <1>2, <2>1, <2>2 DEF Refuse
<1>3. CASE Start
  <2>1. Text("analyzing") \in Caption
    BY CaptionTypes DEF Working
  <2>2. CASE meta' = MetaTTL /\ Put(Text("analyzing")) /\ UNCHANGED stranded
    BY <1>3, <2>1, <2>2, PutTypes DEF Start, Spoils, Reads
  <2>3. CASE Fault /\ meta' = MetaTTL /\ UNCHANGED <<hash, event, stranded>>
    BY <1>3, <2>3 DEF Start, Spoils, Reads, Fault
  <2>4. CASE Fault /\ stranded' = TRUE /\ UNCHANGED redis
    BY <1>3, <2>4 DEF Start, Spoils, Reads, Fault
  <2>5. QED
    BY <1>3, <2>2, <2>3, <2>4 DEF Start
<1>4. CASE Tap
  BY <1>4 DEF Tap
<1>5. CASE RequestCancel
  <2>1. CASE Fine /\ flag' = TRUE /\ accepted' = (job.pc \in Checking /\ ~job.ledger)
    <3>1. accepted' \in BOOLEAN
      BY <2>1
    <3>2. flag' \in BOOLEAN /\ faults' \in Nat
      BY <2>1, Zenon DEF Fine
    <3>3. QED
      BY <1>5, <3>1, <3>2 DEF RequestCancel
  <2>2. CASE Fault /\ UNCHANGED <<flag, accepted>>
    BY <1>5, <2>2 DEF RequestCancel, Fault
  <2>3. QED
    BY <1>5, <2>1, <2>2 DEF RequestCancel
<1>6. CASE ReportCancel
  <2>1. Text("cancelled") \in Caption
    BY CaptionTypes DEF Terminal
  <2>2. QED
    BY <1>6, <2>1, ReportTypes DEF ReportCancel, Spoils, Reads
<1>7. QED
  BY <1>1, <1>2, <1>3, <1>4, <1>5, <1>6 DEF HandlerStep

LEMMA JobStepTypes == ASSUME TypeOK, JobStep PROVE TypeOK'
<1> USE DEF TypeOK, bot, redis, outcome, history, Chat
<1> DEFINE Pc == Checking \cup Sending \cup {"cancelled", "failing", "over"}
<1>1. CASE PickUp
  <2>1. PICK found \in BOOLEAN :
          /\ job' = [job EXCEPT !.tries = @ + 1, !.pc = IF found THEN "saving" ELSE "analyzing"]
          /\ unsure' = (unsure \/ (job.ledger /\ ~found))
          /\ IF job.ledger /\ ~found THEN Fault ELSE Fine
    BY <1>1 DEF PickUp
  <2>2. unsure' \in BOOLEAN
    BY <2>1
  <2>3. faults' \in Nat
    BY <2>1 DEF Fault, Fine
  <2>4. job' \in Job
    <3>1. \A j \in Job : \A pc \in {"saving", "analyzing"} : \A n \in Nat :
            [[j EXCEPT !.tries = n] EXCEPT !.pc = pc] \in Job
      BY DEF Job, Checking, Sending
    <3>2. job.tries + 1 \in Nat
      BY DEF Job
    <3>3. job' = [[job EXCEPT !.tries = job.tries + 1] EXCEPT !.pc = IF found THEN "saving" ELSE "analyzing"]
      BY <2>1
    <3>5. QED
      BY <3>1, <3>2, <3>3
  <2>5. QED
    BY <1>1, <2>2, <2>3, <2>4 DEF PickUp
<1>2. CASE EmitProgress
  <2>1. ASSUME NEW from, NEW to \in Checking \cup Sending, NEW stage \in Working, Emit(from, to, stage)
        PROVE TypeOK'
    <3>1. Text(stage) \in Caption
      BY CaptionTypes
    <3>2. job' \in Job
      BY <2>1, JobTypes DEF Emit
    <3>3. QED
      BY <2>1, <3>1, <3>2, ReportTypes DEF Emit
  <2>2. QED
    BY <1>2, <2>1 DEF EmitProgress, Checking, Sending, Working
<1>3. CASE CheckCancel
  <2> DEFINE next == IF JobAt("check1") THEN "announcing" ELSE "fetching"
  <2>1. CASE Fine /\ JobTo(IF flag THEN "cancelled" ELSE next) /\ UNCHANGED accepted
    <3>1. job' \in Job
      BY <2>1, JobTypes DEF Checking, Sending
    <3>2. QED
      BY <1>3, <2>1, <3>1 DEF CheckCancel, Fine
  <2>2. CASE Fault /\ flag /\ JobTo(next) /\ accepted' = FALSE
    <3>1. job' \in Job
      BY <2>2, JobTypes DEF Checking, Sending
    <3>2. accepted' \in BOOLEAN
      BY <2>2, Zenon
    <3>3. QED
      BY <1>3, <2>2, <3>1, <3>2 DEF CheckCancel, Fault
  <2>3. QED
    BY <1>3, <2>1, <2>2 DEF CheckCancel
<1>4. CASE HandleCancellation
  <2>1. job' \in Job
    BY <1>4, JobTypes DEF HandleCancellation
  <2>2. CASE Fine /\ flag' = FALSE
    <3>1. flag' \in BOOLEAN
      BY <2>2, Zenon
    <3>2. QED
      BY <1>4, <2>1, <2>2, <3>1 DEF HandleCancellation, Fine
  <2>3. CASE Fault /\ UNCHANGED flag
    BY <1>4, <2>1, <2>3 DEF HandleCancellation, Fault
  <2>4. QED
    BY <1>4, <2>2, <2>3 DEF HandleCancellation
<1>5. CASE Downloaded
  BY <1>5, JobTypes DEF Downloaded, Sending
<1>6. CASE DownloadTimesOut
  BY <1>6, JobTypes DEF DownloadTimesOut
<1>7. CASE Deliver
  <2>1. PICK kept \in BOOLEAN :
          /\ job' = [job EXCEPT !.pc = "saving", !.ledger = job.ledger \/ kept]
          /\ unsure' = (unsure \/ ~kept)
          /\ IF kept THEN Fine ELSE Fault
    BY <1>7 DEF Deliver
  <2>2. unsure' \in BOOLEAN /\ faults' \in Nat
    BY <2>1 DEF Fault, Fine
  <2>3. job' \in Job
    <3>1. (job.ledger \/ kept) \in BOOLEAN
      OBVIOUS
    <3>2. \A j \in Job : \A b \in BOOLEAN : [j EXCEPT !.pc = "saving", !.ledger = b] \in Job
      BY DEF Job, Sending
    <3>3. QED
      BY <2>1, <3>1, <3>2
  <2>4. QED
    BY <1>7, <2>2, <2>3 DEF Deliver
<1>8. CASE AttemptFails
  <2>1. job' \in Job
    BY <1>8, JobTypes DEF AttemptFails, RetryOrFail, Checking
  <2>2. delivered' \in BOOLEAN /\ unsure' \in BOOLEAN
    BY <1>8 DEF AttemptFails
  <2>3. QED
    BY <1>8, <2>1, <2>2 DEF AttemptFails
<1>9. CASE SaveRaises
  <2>1. job' \in Job /\ unsure' \in BOOLEAN
    BY <1>9, JobTypes DEF SaveRaises, Checking
  <2>2. QED
    BY <1>9, <2>1 DEF SaveRaises, Fault
<1>10. CASE PersistDone
  BY <1>10, JobTypes DEF PersistDone, Sending
<1>11. CASE Finish
  <2>1. Text("done") \in Caption /\ job' \in Job
    BY <1>11, CaptionTypes, JobTypes DEF Finish, Terminal
  <2>2. QED
    BY <1>11, <2>1, ReportTypes DEF Finish
<1>12. CASE Fail
  <2>1. Text("failed") \in Caption /\ job' \in Job
    BY <1>12, CaptionTypes, JobTypes DEF Fail, Terminal
  <2>2. QED
    BY <1>12, <2>1, ReportTypes DEF Fail
<1>13. CASE Crash
  <2>1. job' \in Job
    BY <1>13, JobTypes DEF Crash, Checking
  <2>2. QED
    BY <1>13, <2>1 DEF Crash, Fault
<1>14. CASE JobTimesOut
  BY <1>14, JobTypes DEF JobTimesOut, Fault
<1>15. QED
  BY <1>1, <1>2, <1>3, <1>4, <1>5, <1>6, <1>7, <1>8, <1>9, <1>10, <1>11, <1>12, <1>13, <1>14
  DEF JobStep

LEMMA HookTypes == ASSUME TypeOK, HookStarts \/ HookWrites PROVE TypeOK'
<1> USE DEF TypeOK, bot, redis, outcome, history, Chat
<1>1. CASE HookStarts
  BY <1>1 DEF HookStarts
<1>2. CASE HookWrites
  <2>1. PICK l \in Levels : Report(Percent(l))
    BY <1>2 DEF HookWrites
  <2>2. Percent(l) \in Caption
    BY CaptionTypes
  <2>3. spoiled' \in BOOLEAN
    BY <1>2 DEF HookWrites, Spoils, Reads
  <2>4. QED
    BY <1>2, <2>1, <2>2, <2>3, ReportTypes DEF HookWrites
<1>3. QED
  BY <1>1, <1>2

LEMMA EntryEffects ==
  ASSUME NEW e \in Entry
  PROVE  /\ \A b \in BOOLEAN : [e EXCEPT !.in = b] \in Entry
         /\ \A b \in BOOLEAN : [e EXCEPT !.warned = b] \in Entry
         /\ [e EXCEPT !.ended = TRUE] \in Entry
         /\ \A n \in Nat : [e EXCEPT !.silent = n] \in Entry
         /\ \A n \in Nat, b \in BOOLEAN : [e EXCEPT !.silent = n, !.warned = b] \in Entry
         /\ \A c \in Caption : [e EXCEPT !.last = c] \in Entry
  BY DEF Entry

LEMMA EditTypes ==
  ASSUME TypeOK, NEW caption \in Screens, NEW result, Edit(caption, result)
  PROVE  shown' \in Screens /\ shown' \in {shown, caption} /\ faults' \in Nat
  BY DEF TypeOK, Edit, Fault, Fine

LEMMA DeleteTypes ==
  ASSUME TypeOK, Delete
  PROVE  shown' \in Screens /\ shown' \in {shown, Gone} /\ stranded' \in BOOLEAN /\ faults' \in Nat
<1>1. CASE Fine /\ shown' = Gone /\ UNCHANGED stranded
  BY <1>1, CaptionTypes DEF TypeOK, Fine
<1>2. CASE Fault /\ UNCHANGED shown /\ stranded' = TRUE
  BY <1>2 DEF TypeOK, Fault
<1>3. QED
  BY <1>1, <1>2 DEF Delete

LEMMA DropsTypes == ASSUME TypeOK, Drops PROVE entry' \in Entry /\ entry'.in = FALSE
<1>1. [entry EXCEPT !.in = FALSE] \in Entry /\ [entry EXCEPT !.in = FALSE].in = FALSE
  BY DEF TypeOK, Entry
<1>2. QED
  BY <1>1, EntryTypes DEF Drops

LEMMA ReadTypes == ASSUME TypeOK, ReadProgress PROVE TypeOK'
<1> USE DEF TypeOK, Worker, redis, outcome, history
<1> DEFINE known == IF entry.in THEN entry ELSE Fresh
<1>1. known \in Entry
  BY EntryTypes
<1>2. hash.caption \in Caption \cup {NoCaption}
  BY DEF Hash
<1>3. CASE Fine /\ loop' = Poll /\ UNCHANGED entry
  BY <1>3, EntryTypes DEF ReadProgress, Fine
<1>4. CASE Fault /\ loop' = Poll /\ UNCHANGED entry
  BY <1>4, EntryTypes DEF ReadProgress, Fault
<1>5. CASE /\ Fine
           /\ entry' = [known EXCEPT !.silent = 0, !.warned = FALSE]
           /\ loop' = [pc |-> "edit", caption |-> hash.caption] \/ loop' = Poll
  <2>1. entry' \in Entry
    BY <1>1, <1>5, EntryEffects
  <2>2. loop' \in Loop
    BY <1>2, <1>5, EntryTypes DEF Loop
  <2>3. QED
    BY <1>5, <2>1, <2>2 DEF ReadProgress, Fine
<1>6. QED
  BY <1>3, <1>4, <1>5 DEF ReadProgress

LEMMA FinalizeTypes ==
  ASSUME TypeOK, NEW caption, Finalize(caption)
  PROVE  entry' \in Entry /\ loop' \in Loop /\ tomb' \in Nat
<1>1. [pc |-> "hold", caption |-> NoCaption] \in Loop /\ [entry EXCEPT !.ended = TRUE] \in Entry
  BY EntryEffects DEF TypeOK, Loop
<1>2. QED
  BY <1>1, EntryTypes DEF Finalize, TypeOK

(* An edit shows a caption the updater read, which is one of the worker's or the bot's. *)
EditedIsCaption == loop.pc = "edit" => loop.caption \in Caption
HashHasCaption  == hash.left > 0 => hash.caption \in Caption

LEMMA ApplyTypes == ASSUME TypeOK, EditedIsCaption, ApplyCaption PROVE TypeOK'
<1> USE DEF TypeOK, Worker, redis, outcome, history
<1>1. PICK result \in Results(loop.caption) :
        /\ Edit(loop.caption, result)
        /\ \/ Finalize(loop.caption)
           \/ /\ loop' = Poll
              /\ \/ Forget
                 \/ /\ entry' = IF result = "edited" THEN [entry EXCEPT !.last = loop.caption] ELSE entry
                    /\ UNCHANGED tomb
  BY DEF ApplyCaption
<1>2. loop.caption \in Caption /\ loop.caption \in Screens
  BY CaptionTypes DEF ApplyCaption, EditedIsCaption
<1>3. shown' \in Screens /\ faults' \in Nat
  BY <1>1, <1>2, EditTypes
<1>4. entry' \in Entry /\ loop' \in Loop /\ tomb' \in Nat
  <2>1. CASE Finalize(loop.caption)
    BY <2>1, FinalizeTypes
  <2>2. CASE loop' = Poll /\ Forget
    BY <2>2, EntryTypes DEF Forget
  <2>3. CASE /\ loop' = Poll /\ UNCHANGED tomb
             /\ entry' = IF result = "edited" THEN [entry EXCEPT !.last = loop.caption] ELSE entry
    <3>1. [entry EXCEPT !.last = loop.caption] \in Entry
      BY <1>2, EntryEffects
    <3>2. QED
      BY <2>3, <3>1, EntryTypes
  <2>4. QED
    BY <1>1, <2>1, <2>2, <2>3
<1>5. spoiled' \in BOOLEAN /\ stranded' \in BOOLEAN
  BY DEF ApplyCaption
<1>6. QED
  BY <1>3, <1>4, <1>5 DEF ApplyCaption

LEMMA LoopTypes == ASSUME TypeOK, EditedIsCaption, LoopStep PROVE TypeOK'
<1>1. CASE TakeEvent
  <2>1. [loop EXCEPT !.pc = "read"] \in Loop
    BY DEF TypeOK, Loop
  <2>2. event' = FALSE /\ loop' \in Loop
    BY <1>1, <2>1 DEF TypeOK, TakeEvent
  <2>3. UNCHANGED <<Worker, entry, tomb, dog, up, hash, meta, shown, faults, history>>
    BY <1>1 DEF TakeEvent
  <2>4. UNCHANGED <<intake, press, job, hook, flag, delivered, unsure, accepted, spoiled, stranded>>
    BY <2>3 DEF Worker, outcome, history
  <2>5. event' \in BOOLEAN
    BY <2>2
  <2>6. QED
    BY <2>2, <2>3, <2>4, <2>5 DEF TypeOK
<1>2. CASE DeletePlaceholder
  <2>1. entry' \in Entry /\ loop' \in Loop /\ tomb' \in Nat
    BY <1>2, EntryTypes DEF DeletePlaceholder, Forget
  <2>2. QED
    BY <1>2, <2>1, DeleteTypes DEF TypeOK, DeletePlaceholder, Worker, redis, outcome
<1>3. QED
  BY <1>1, <1>2, ReadTypes, ApplyTypes DEF LoopStep

LEMMA DogTypes == ASSUME TypeOK, DogStep PROVE TypeOK'
<1> USE DEF TypeOK, Worker, redis, outcome, history
<1>1. CASE WatchdogTick
  BY <1>1 DEF WatchdogTick
<1>2. CASE WatchdogWarns
  <2>1. PICK result \in Results(Stale) :
          /\ Edit(Stale, result)
          /\ IF result = "gone" THEN Drops /\ tomb' = Tombstone
             ELSE entry' = [entry EXCEPT !.warned = TRUE] /\ UNCHANGED tomb
    BY <1>2 DEF WatchdogWarns
  <2>2. shown' \in Screens /\ faults' \in Nat
    BY <2>1, CaptionTypes, EditTypes
  <2>3. entry' \in Entry /\ tomb' \in Nat
    BY <2>1, DropsTypes, EntryEffects
  <2>4. QED
    BY <1>2, <2>2, <2>3 DEF WatchdogWarns
<1>3. CASE WatchdogDrops
  <2>1. entry' \in Entry /\ tomb' \in Nat
    BY <1>3, DropsTypes DEF WatchdogDrops
  <2>2. shown' \in Screens /\ stranded' \in BOOLEAN /\ faults' \in Nat
    BY <1>3, DeleteTypes DEF WatchdogDrops
  <2>3. QED
    BY <1>3, <2>1, <2>2 DEF WatchdogDrops
<1>4. QED
  BY <1>1, <1>2, <1>3 DEF DogStep

LEMMA ClockTypes == ASSUME TypeOK, Tick PROVE TypeOK'
<1> USE DEF TypeOK, Worker, outcome, history
<1>1. \A n \in Nat : Down(n) \in Nat
  BY DEF Down
<1>2. entry' \in Entry
  <2>1. entry.silent \in Nat /\ entry.silent + 1 \in Nat
    BY DEF Entry
  <2>2. \E n \in Nat : entry' = [entry EXCEPT !.silent = n]
    BY <2>1 DEF Tick
  <2>3. QED
    BY <2>2, EntryEffects
<1>3. hash' \in Hash
  BY <1>1 DEF Tick, Hash
<1>4. QED
  BY <1>1, <1>2, <1>3 DEF Tick

LEMMA RestartTypes ==
  ASSUME TypeOK, EventLost \/ FlagExpires \/ BotStops \/ BotStarts PROVE TypeOK'
<1> USE DEF TypeOK, Worker, Chat, bot, redis, outcome, history
<1>1. CASE EventLost
  <2>1. event' \in BOOLEAN
    BY <1>1, Zenon DEF EventLost
  <2>2. QED
    BY <1>1, <2>1 DEF EventLost, Fault
<1>2. CASE FlagExpires
  <2>1. flag' = FALSE /\ accepted' = FALSE /\ UNCHANGED <<Chat, job, hook, redis, faults, outcome, spoiled, stranded>>
    BY <1>2 DEF FlagExpires
  <2>2. flag' \in BOOLEAN /\ accepted' \in BOOLEAN
    BY <2>1
  <2>3. UNCHANGED <<intake, press, job, hook, delivered, unsure, spoiled, stranded, faults>>
    BY <2>1
  <2>4. UNCHANGED <<entry, tomb, loop, dog, up, hash, meta, event, shown>>
    BY <2>1
  <2>5. QED
    BY <2>2, <2>3, <2>4
<1>3. CASE BotStops
  <2>1. stranded' \in BOOLEAN /\ entry' \in Entry /\ loop' \in Loop
    BY <1>3, EntryTypes DEF BotStops
  <2>2. event' \in BOOLEAN /\ up' \in BOOLEAN
    BY <1>3, Zenon DEF BotStops
  <2>3. QED
    BY <1>3, <2>1, <2>2 DEF BotStops, Fault
<1>4. CASE BotStarts
  <2>1. entry' \in Entry /\ spoiled' \in BOOLEAN /\ stranded' \in BOOLEAN
    BY <1>4, EntryTypes DEF BotStarts, Spoils, Reads
  <2>2. faults' \in Nat
    BY <1>4 DEF BotStarts, Fault, Fine
  <2>3. QED
    BY <1>4, <2>1, <2>2 DEF BotStarts
<1>5. QED
  BY <1>1, <1>2, <1>3, <1>4

-----------------------------------------------------------------------------
(***************************************************************************)
(* What each process leaves alone, and how captions travel: from a report    *)
(* into the hash, from the hash to the loop, from the loop to the screen.    *)
(***************************************************************************)

HookStep  == HookStarts \/ HookWrites
OtherStep == EventLost \/ FlagExpires \/ BotStops \/ BotStarts \/ Tick

LEMMA NextSplit ==
  [Next]_vars => \/ UNCHANGED vars \/ HandlerStep \/ JobStep \/ HookStep
                 \/ LoopStep \/ DogStep \/ OtherStep
  BY DEF Next, HookStep, OtherStep

LEMMA JobFrame == JobStep => UNCHANGED <<intake, press, entry, tomb, loop, dog, up, shown, spoiled>>
  BY DEF JobStep, Chat, bot, history, PickUp, EmitProgress, Emit, CheckCancel, HandleCancellation,
         Downloaded, DownloadTimesOut, Deliver, AttemptFails, SaveRaises, PersistDone, Finish, Fail,
         Crash, JobTimesOut

LEMMA HandlerFrame ==
  HandlerStep => /\ UNCHANGED <<entry, tomb, loop, dog, up, hook, delivered, unsure>>
                 /\ Enqueue \/ UNCHANGED job
                 /\ Start \/ ReportCancel \/ UNCHANGED <<hash, spoiled>>
                 /\ RequestCancel \/ UNCHANGED <<flag, accepted>>
                 /\ Refuse \/ UNCHANGED shown
  BY DEF HandlerStep, bot, redis, outcome, history, Enqueue, Refuse, Start, Tap, RequestCancel, ReportCancel

LEMMA HookFrame ==
  HookStep => UNCHANGED <<intake, press, entry, tomb, loop, dog, up, shown, job, flag,
                          delivered, unsure, accepted>>
  BY DEF HookStep, HookStarts, HookWrites, Chat, bot, outcome, history

LEMMA UpdaterFrame ==
  LoopStep \/ DogStep => /\ UNCHANGED <<intake, press, job, hook, flag, hash, delivered, unsure, accepted>>
                         /\ ApplyCaption \/ UNCHANGED spoiled
  BY DEF LoopStep, DogStep, Worker, redis, outcome, history, TakeEvent, ReadProgress, ApplyCaption,
         DeletePlaceholder, WatchdogTick, WatchdogWarns, WatchdogDrops

LEMMA OtherFrame ==
  OtherStep => /\ UNCHANGED <<job, shown, delivered, unsure>>
               /\ Tick \/ UNCHANGED hash
               /\ FlagExpires \/ UNCHANGED <<flag, accepted>>
               /\ BotStarts \/ UNCHANGED spoiled
               /\ BotStops \/ UNCHANGED <<intake, press, loop, dog>>
  BY DEF OtherStep, EventLost, FlagExpires, BotStops, BotStarts, Tick, Worker, Chat, bot, redis,
         outcome, history

(* A job that is still being queued was never picked up. *)
NewIsUnqueued == intake = "enqueue" => job.pc = "new"

Forms == TypeOK /\ HashHasCaption /\ EditedIsCaption /\ NewIsUnqueued

(* The hash changes by a report of the worker, of its hook or of the bot, and by its expiry. *)
LEMMA HashFlow ==
  ASSUME TypeOK, [Next]_vars
  PROVE  \/ hash' = hash
         \/ /\ hash'.left = HashTTL
            /\ \/ Start /\ hash'.caption = Text("analyzing")
               \/ ReportCancel /\ hash'.caption = Text("cancelled")
               \/ HookWrites /\ \E l \in Levels : hash'.caption = Percent(l)
               \/ EmitProgress /\ \E s \in Working : hash'.caption = Text(s)
               \/ Finish /\ hash'.caption = Text("done")
               \/ Fail /\ hash'.caption = Text("failed")
         \/ Tick /\ \/ hash'.left > 0 /\ hash.left > 0 /\ hash'.caption = hash.caption
                    \/ hash'.left = 0 /\ hash'.caption = NoCaption
<1>1. \A s \in Working \cup Terminal : Text(s) \in Caption
  BY CaptionTypes
<1>2. CASE HandlerStep
  <2>1. CASE Start
    <3>1. Text("analyzing") \in Caption
      BY <1>1 DEF Working
    <3>2. Put(Text("analyzing")) \/ UNCHANGED hash
      BY <2>1 DEF Start, redis
    <3>3. QED
      BY <2>1, <3>1, <3>2, PutTypes
  <2>2. CASE ReportCancel
    <3>1. Text("cancelled") \in Caption
      BY <1>1 DEF Terminal
    <3>2. QED
      BY <2>2, <3>1, ReportTypes DEF ReportCancel
  <2>3. QED
    BY <1>2, <2>1, <2>2, HandlerFrame
<1>3. CASE JobStep
  <2>1. ASSUME NEW from, NEW to, NEW stage \in Working, Emit(from, to, stage)
        PROVE hash' = hash \/ (hash'.caption = Text(stage) /\ hash'.left = HashTTL)
    BY <1>1, <2>1, ReportTypes DEF Emit
  <2>2. CASE EmitProgress
    BY <2>1, <2>2 DEF EmitProgress, Working
  <2>3. CASE Finish
    <3>1. Text("done") \in Caption
      BY <1>1 DEF Terminal
    <3>2. QED
      BY <2>3, <3>1, ReportTypes DEF Finish
  <2>4. CASE Fail
    <3>1. Text("failed") \in Caption
      BY <1>1 DEF Terminal
    <3>2. QED
      BY <2>4, <3>1, ReportTypes DEF Fail
  <2>5. ASSUME ~EmitProgress, ~Finish, ~Fail PROVE hash' = hash
    BY <1>3, <2>5 DEF JobStep, redis, PickUp, CheckCancel, HandleCancellation, Downloaded,
       DownloadTimesOut, Deliver, AttemptFails, SaveRaises, PersistDone, Crash, JobTimesOut
  <2>6. QED
    BY <2>2, <2>3, <2>4, <2>5
<1>4. CASE HookStep
  <2>1. CASE HookWrites
    <3>1. PICK l \in Levels : Report(Percent(l))
      BY <2>1 DEF HookWrites
    <3>2. Percent(l) \in Caption
      BY CaptionTypes
    <3>3. QED
      BY <2>1, <3>1, <3>2, ReportTypes
  <2>2. QED
    BY <1>4, <2>1 DEF HookStep, HookStarts, redis
<1>5. CASE Tick
  BY <1>5 DEF Tick, Down, TypeOK, Hash
<1>6. QED
  BY <1>2, <1>3, <1>4, <1>5, NextSplit, UpdaterFrame, OtherFrame DEF vars, redis

(* The loop reads the hash, and the screen shows what the loop read. *)
LEMMA ScreenFlow ==
  ASSUME [Next]_vars
  PROVE  /\ loop'.caption \in {loop.caption, NoCaption, hash.caption}
         /\ loop'.pc = "edit" => loop' = loop \/ (hash.left > 0 /\ loop'.caption = hash.caption)
         /\ \/ shown' \in {shown, Stale, Refused, Gone}
            \/ ApplyCaption /\ loop.pc = "edit" /\ shown' = loop.caption
<1>1. CASE HandlerStep
  <2>1. CASE Refuse
    BY <1>1, <2>1, HandlerFrame DEF Refuse
  <2>2. QED
    BY <1>1, <2>1, HandlerFrame
<1>2. CASE LoopStep
  <2>1. CASE TakeEvent
    BY <2>1 DEF TakeEvent
  <2>2. CASE ReadProgress
    BY <2>2 DEF ReadProgress, Poll
  <2>3. CASE ApplyCaption
    BY <2>3 DEF ApplyCaption, Edit, Finalize, Poll
  <2>4. CASE DeletePlaceholder
    BY <2>4 DEF DeletePlaceholder, Delete, Poll
  <2>5. QED
    BY <1>2, <2>1, <2>2, <2>3, <2>4 DEF LoopStep
<1>3. CASE DogStep
  BY <1>3 DEF DogStep, WatchdogTick, WatchdogWarns, WatchdogDrops, Edit, Delete
<1>4. CASE OtherStep
  <2>1. CASE BotStops
    BY <2>1 DEF BotStops, Poll
  <2>2. QED
    BY <1>4, <2>1, OtherFrame
<1>5. QED
  BY <1>1, <1>2, <1>3, <1>4, NextSplit, JobFrame, HookFrame DEF vars, bot

LEMMA InitForms == Init => Forms
<1> SUFFICES ASSUME Init PROVE Forms
  OBVIOUS
<1>1. HashHasCaption /\ NewIsUnqueued
  BY DEF Init, HashHasCaption, NewIsUnqueued
<1>2. EditedIsCaption
  BY EntryTypes DEF Init, EditedIsCaption
<1>3. QED
  BY <1>1, <1>2, InitTypeOK DEF Forms

LEMMA FormsStep == Forms /\ [Next]_vars => Forms'
<1> SUFFICES ASSUME Forms, [Next]_vars PROVE Forms'
  OBVIOUS
<1> USE DEF Forms
<1>1. TypeOK'
  <2>1. CASE UNCHANGED vars
    BY <2>1 DEF vars, bot, redis, outcome, history, TypeOK
  <2>2. QED
    BY <2>1, NextSplit, HandlerTypes, JobStepTypes, HookTypes, LoopTypes, DogTypes, RestartTypes,
       ClockTypes DEF HookStep, OtherStep
<1>2. HashHasCaption'
  <2>1. /\ \A s \in Working \cup Terminal : Text(s) \in Caption
        /\ \A l \in Levels : Percent(l) \in Caption
        /\ "analyzing" \in Working /\ {"done", "failed", "cancelled"} \subseteq Terminal
    BY CaptionTypes DEF Working, Terminal
  <2>2. QED
    BY <2>1, HashFlow DEF HashHasCaption
<1>3. EditedIsCaption'
  BY ScreenFlow DEF EditedIsCaption, HashHasCaption
<1>4. NewIsUnqueued'
  <2>1. CASE JobStep
    <3>1. job.pc # "new"
      BY <2>1 DEF JobStep, PickUp, EmitProgress, Emit, CheckCancel, HandleCancellation, Downloaded,
         DownloadTimesOut, Deliver, AttemptFails, SaveRaises, PersistDone, Finish, Fail, Crash,
         JobTimesOut, JobAt
    <3>2. QED
      BY <2>1, <3>1, JobFrame DEF NewIsUnqueued
  <2>2. CASE HandlerStep
    BY <2>2 DEF HandlerStep, Enqueue, Refuse, Start, Tap, RequestCancel, ReportCancel, NewIsUnqueued
  <2>3. CASE BotStops
    BY <2>3 DEF BotStops, NewIsUnqueued
  <2>4. QED
    BY <2>1, <2>2, <2>3, NextSplit, HookFrame, UpdaterFrame, OtherFrame
    DEF vars, NewIsUnqueued
<1>5. QED
  BY <1>1, <1>2, <1>3, <1>4

(* Every variable keeps its type, whatever fails. *)
THEOREM TypeCorrect == Spec => []TypeOK
<1>1. Spec => []Forms
  BY InitForms, FormsStep, PTL DEF Spec
<1>2. Forms => TypeOK
  BY DEF Forms
<1>3. QED
  BY <1>1, <1>2, PTL

-----------------------------------------------------------------------------
(***************************************************************************)
(* What the attempts do to the promises, whatever the captions.             *)
(***************************************************************************)

Stages == {hash.caption.stage, loop.caption.stage, shown.stage}

\* Without a delivery there is no entry in the ledger and no way to DONE.
DoneIsEarned ==
  ~delivered => /\ "done" \notin Stages
                /\ job.pc \notin {"saving", "finishing"} /\ ~job.ledger

\* A delivery that is known keeps the job away from a second one, and from failing.
KnownDelivery ==
  delivered /\ ~unsure => job.ledger /\ job.pc \in {"saving", "finishing", "queued", "over"}

\* A failure is final for the worker, is written one way, and is not of a known delivery.
FailureIsFinal ==
  /\ "failed" \in Stages => job.pc = "over" /\ (delivered => unsure)
  /\ hash.caption.stage = "done" => job.pc = "over"
  /\ hash.caption.stage = "failed" => hash.caption = Text("failed")
  /\ loop.caption.stage = "failed" => loop.caption = Text("failed")
  /\ shown.stage = "failed" => shown = Text("failed")

\* An accepted cancel lies before the last boundary of the attempt, with its flag set.
CancelHolds ==
  accepted => /\ job.pc \in Checking \cup {"cancelled", "failing", "over"} /\ ~job.ledger
              /\ job.pc # "over" => flag

Truth == Forms /\ DoneIsEarned /\ KnownDelivery /\ FailureIsFinal /\ CancelHolds

(* An attempt that is over stays over, and what is known of a delivery is not forgotten. *)
LEMMA AttemptFlow ==
  ASSUME Forms, [Next]_vars
  PROVE  /\ job.pc = "over" => job' = job /\ UNCHANGED <<delivered, unsure>> /\ ~JobStep
         /\ delivered => delivered'
         /\ unsure => unsure'
         /\ job'.ledger => job.ledger \/ delivered'
         /\ job'.pc \in {"saving", "finishing"} =>
              job.pc \in {"saving", "finishing"} \/ delivered' \/ job.ledger
<1> USE DEF Forms, TypeOK
<1>1. CASE JobStep
  <2> USE DEF JobAt, JobTo, Job, outcome, history
  <2>1. job.pc # "over"
    BY <1>1 DEF JobStep, PickUp, EmitProgress, Emit, CheckCancel, HandleCancellation, Downloaded,
       DownloadTimesOut, Deliver, AttemptFails, SaveRaises, PersistDone, Finish, Fail, Crash,
       JobTimesOut
  <2>2. CASE PickUp
    BY <2>1, <2>2 DEF PickUp
  <2>3. CASE EmitProgress
    BY <2>1, <2>3 DEF EmitProgress, Emit
  <2>4. CASE CheckCancel
    BY <2>1, <2>4 DEF CheckCancel
  <2>5. CASE Deliver
    BY <2>1, <2>5 DEF Deliver
  <2>6. CASE AttemptFails
    BY <2>1, <2>6 DEF AttemptFails, RetryOrFail
  <2>7. CASE SaveRaises
    BY <2>1, <2>7 DEF SaveRaises
  <2>8. CASE HandleCancellation \/ Downloaded \/ DownloadTimesOut
    BY <2>1, <2>8 DEF HandleCancellation, Downloaded, DownloadTimesOut
  <2>9. CASE PersistDone \/ Finish \/ Fail
    BY <2>1, <2>9 DEF PersistDone, Finish, Fail
  <2>10. CASE Crash \/ JobTimesOut
    BY <2>1, <2>10 DEF Crash, JobTimesOut
  <2>11. QED
    BY <1>1, <2>2, <2>3, <2>4, <2>5, <2>6, <2>7, <2>8, <2>9, <2>10 DEF JobStep
<1>2. CASE ~JobStep
  <2>1. UNCHANGED <<delivered, unsure>>
    BY <1>2, NextSplit, HandlerFrame, HookFrame, UpdaterFrame, OtherFrame DEF vars, history, outcome
  <2>2. Enqueue \/ UNCHANGED job
    BY <1>2, NextSplit, HandlerFrame, HookFrame, UpdaterFrame, OtherFrame DEF vars
  <2>3. CASE Enqueue
    <3>1. job.pc = "new" /\ job'.pc = "queued" /\ job'.ledger = job.ledger
      BY <2>3 DEF Enqueue, NewIsUnqueued, Job
    <3>2. QED
      BY <1>2, <2>1, <3>1
  <2>4. QED
    BY <1>2, <2>1, <2>2, <2>3
<1>3. QED
  BY <1>1, <1>2

LEMMA DoneStep == Truth /\ [Next]_vars => DoneIsEarned'
<1> SUFFICES ASSUME Truth, [Next]_vars, ~delivered'
             PROVE  /\ "done" \notin Stages'
                    /\ job'.pc \notin {"saving", "finishing"} /\ ~job'.ledger
  BY DEF DoneIsEarned, Stages
<1> USE DEF Truth
<1>1. ~delivered /\ DoneIsEarned
  BY AttemptFlow
<1>2. job'.pc \notin {"saving", "finishing"} /\ ~job'.ledger
  BY <1>1, AttemptFlow DEF DoneIsEarned
<1>3. hash'.caption.stage # "done"
  <2>1. ~Finish
    BY <1>1 DEF Finish, JobAt, DoneIsEarned
  <2>2. "done" \notin Working /\ NoCaption.stage # "done"
    BY DEF Working, NoCaption, Text
  <2>3. \A s : s # "done" => Text(s).stage # "done"
    BY DEF Text
  <2>4. \A l \in Levels : Percent(l).stage # "done"
    BY DEF Percent
  <2>5. hash.caption.stage # "done"
    BY <1>1 DEF DoneIsEarned, Stages
  <2>6. QED
    BY <2>1, <2>2, <2>3, <2>4, <2>5, HashFlow DEF Forms
<1>4. loop'.caption.stage # "done" /\ shown'.stage # "done"
  <2>1. loop.caption.stage # "done" /\ shown.stage # "done" /\ hash.caption.stage # "done"
    BY <1>1 DEF DoneIsEarned, Stages
  <2>2. "done" \notin {NoCaption.stage, Stale.stage, Refused.stage, Gone.stage}
    BY DEF NoCaption, Stale, Refused, Gone, Text
  <2>3. QED
    BY <2>1, <2>2, ScreenFlow
<1>5. QED
  BY <1>2, <1>3, <1>4 DEF Stages

LEMMA KnownStep == Truth /\ [Next]_vars => KnownDelivery'
<1> SUFFICES ASSUME Truth, [Next]_vars, delivered', ~unsure'
             PROVE  job'.ledger /\ job'.pc \in {"saving", "finishing", "queued", "over"}
  BY DEF KnownDelivery
<1> USE DEF Truth, Forms, TypeOK, KnownDelivery
<1>1. ~unsure
  BY AttemptFlow
<1>2. CASE JobStep
  <2> USE DEF JobAt, JobTo, Job, outcome, history
  <2>1. CASE PickUp
    BY <1>1, <2>1 DEF PickUp
  <2>2. CASE EmitProgress
    BY <1>1, <2>2 DEF EmitProgress, Emit
  <2>3. CASE CheckCancel
    BY <1>1, <2>3 DEF CheckCancel
  <2>4. CASE Deliver
    BY <2>4 DEF Deliver
  <2>5. CASE AttemptFails
    BY <1>1, <2>5 DEF AttemptFails
  <2>6. CASE SaveRaises
    BY <1>1, <2>6 DEF SaveRaises
  <2>7. CASE HandleCancellation \/ Downloaded \/ DownloadTimesOut
    BY <1>1, <2>7 DEF HandleCancellation, Downloaded, DownloadTimesOut
  <2>8. CASE PersistDone \/ Finish \/ Fail
    BY <1>1, <2>8 DEF PersistDone, Finish, Fail
  <2>9. CASE Crash \/ JobTimesOut
    BY <1>1, <2>9 DEF Crash, JobTimesOut
  <2>10. QED
    BY <1>2, <2>1, <2>2, <2>3, <2>4, <2>5, <2>6, <2>7, <2>8, <2>9 DEF JobStep
<1>3. CASE ~JobStep
  <2>1. UNCHANGED <<delivered, unsure>>
    BY <1>3, NextSplit, HandlerFrame, HookFrame, UpdaterFrame, OtherFrame DEF vars, history, outcome
  <2>2. ~Enqueue
    BY <1>1, <2>1 DEF Enqueue, NewIsUnqueued
  <2>3. UNCHANGED job
    BY <1>3, <2>2, NextSplit, HandlerFrame, HookFrame, UpdaterFrame, OtherFrame DEF vars
  <2>4. QED
    BY <1>1, <2>1, <2>3
<1>4. QED
  BY <1>2, <1>3

LEMMA CancelStep == Truth /\ [Next]_vars => CancelHolds'
<1> SUFFICES ASSUME Truth, [Next]_vars, accepted'
             PROVE  /\ job'.pc \in Checking \cup {"cancelled", "failing", "over"} /\ ~job'.ledger
                    /\ job'.pc # "over" => flag'
  BY DEF CancelHolds
<1> USE DEF Truth, Forms, TypeOK, CancelHolds
<1>1. CASE JobStep
  <2> USE DEF JobAt, JobTo, Job, Checking, Sending, history
  <2>1. accepted
    BY <1>1 DEF JobStep, PickUp, EmitProgress, Emit, CheckCancel, HandleCancellation, Downloaded,
       DownloadTimesOut, Deliver, AttemptFails, SaveRaises, PersistDone, Finish, Fail, Crash,
       JobTimesOut
  <2>2. CASE PickUp
    BY <2>1, <2>2 DEF PickUp
  <2>3. CASE EmitProgress
    BY <2>1, <2>3 DEF EmitProgress, Emit
  <2>4. CASE CheckCancel
    BY <2>1, <2>4 DEF CheckCancel
  <2>5. CASE Deliver
    BY <2>1, <2>5 DEF Deliver
  <2>6. CASE AttemptFails
    BY <2>1, <2>6 DEF AttemptFails, RetryOrFail
  <2>7. CASE HandleCancellation \/ Downloaded \/ DownloadTimesOut
    BY <2>1, <2>7 DEF HandleCancellation, Downloaded, DownloadTimesOut
  <2>8. CASE SaveRaises \/ PersistDone \/ Finish \/ Fail
    BY <2>1, <2>8 DEF SaveRaises, PersistDone, Finish, Fail
  <2>9. CASE Crash \/ JobTimesOut
    BY <2>1, <2>9 DEF Crash, JobTimesOut
  <2>10. QED
    BY <1>1, <2>2, <2>3, <2>4, <2>5, <2>6, <2>7, <2>8, <2>9 DEF JobStep
<1>2. CASE RequestCancel
  <2>1. CASE Fine /\ flag' = TRUE /\ accepted' = (job.pc \in Checking /\ ~job.ledger)
    BY <1>2, <2>1 DEF RequestCancel
  <2>2. CASE UNCHANGED <<flag, accepted>>
    BY <1>2, <2>2 DEF RequestCancel
  <2>3. QED
    BY <1>2, <2>1, <2>2 DEF RequestCancel
<1>3. CASE Enqueue
  BY <1>3, HandlerFrame DEF Enqueue, Job, Checking, NewIsUnqueued, history
<1>4. CASE ~JobStep /\ ~RequestCancel /\ ~Enqueue
  <2>1. ~FlagExpires
    BY DEF FlagExpires
  <2>2. UNCHANGED <<job, flag, accepted>>
    BY <1>4, <2>1, NextSplit, HandlerFrame, HookFrame, UpdaterFrame, OtherFrame DEF vars, history
  <2>3. QED
    BY <2>2
<1>5. QED
  BY <1>1, <1>2, <1>3, <1>4

LEMMA FailureStep == Truth /\ [Next]_vars => FailureIsFinal'
<1> SUFFICES ASSUME Truth, [Next]_vars PROVE FailureIsFinal'
  OBVIOUS
<1> USE DEF Truth
<1>1. job.pc = "over" => job' = job /\ UNCHANGED <<delivered, unsure>> /\ ~JobStep
  BY AttemptFlow
<1>2. /\ \A s : Text(s).stage = s
      /\ \A l \in Levels : Percent(l).stage = "downloading"
      /\ NoCaption.stage = "none"
      /\ "failed" \notin {Stale.stage, Refused.stage, Gone.stage}
  BY DEF Text, Percent, NoCaption, Stale, Refused, Gone
<1>3. Finish => job'.pc = "over"
  BY DEF Finish, JobTo, Forms, TypeOK, Job
<1>4. Fail => job'.pc = "over" /\ (delivered' => unsure')
  BY DEF Fail, JobAt, JobTo, Forms, TypeOK, Job, KnownDelivery, history, outcome
<1>5. hash'.caption.stage = "failed" =>
        /\ hash'.caption = Text("failed")
        /\ hash' = hash \/ (Tick /\ hash'.caption = hash.caption) \/ Fail
  BY <1>2, HashFlow DEF Forms, FailureIsFinal, Working
<1>6. hash'.caption.stage = "done" =>
        hash' = hash \/ (Tick /\ hash'.caption = hash.caption) \/ Finish
  BY <1>2, HashFlow DEF Forms, Working
<1>7. "failed" \in Stages' => "failed" \in Stages \/ Fail
  BY <1>2, <1>5, ScreenFlow DEF Stages
<1>8. "failed" \in Stages' => job'.pc = "over" /\ (delivered' => unsure')
  BY <1>1, <1>4, <1>7 DEF FailureIsFinal
<1>9. hash'.caption.stage = "done" => job'.pc = "over"
  BY <1>1, <1>3, <1>6 DEF FailureIsFinal
<1>10. /\ loop'.caption.stage = "failed" => loop'.caption = Text("failed")
       /\ shown'.stage = "failed" => shown' = Text("failed")
  BY <1>2, ScreenFlow DEF FailureIsFinal
<1>11. QED
  BY <1>5, <1>8, <1>9, <1>10 DEF FailureIsFinal, Stages

LEMMA InitTruth == Init => Truth
<1> SUFFICES ASSUME Init PROVE Truth
  OBVIOUS
<1>1. Forms
  BY InitForms
<1>2. Stages = {"none", "analyzing"}
  BY EntryTypes DEF Init, Stages, NoCaption, Text
<1>3. DoneIsEarned /\ KnownDelivery /\ CancelHolds
  BY <1>2 DEF Init, DoneIsEarned, KnownDelivery, CancelHolds
<1>4. FailureIsFinal
  BY <1>2 DEF FailureIsFinal, Stages
<1>5. QED
  BY <1>1, <1>3, <1>4 DEF Truth

LEMMA TruthHolds == Spec => []Truth
<1>1. Truth /\ [Next]_vars => Truth'
  BY FormsStep, DoneStep, KnownStep, FailureStep, CancelStep DEF Truth
<1>2. QED
  BY <1>1, InitTruth, PTL DEF Spec

(* "Done" is in Redis, in the updater and on the screen only of a job whose media *)
(* the user has.                                                                 *)
THEOREM DoneIsTrue == Spec => []DoneShownOnlyIfDelivered
<1>1. Truth => DoneShownOnlyIfDelivered
  BY DEF Truth, DoneIsEarned, Stages, DoneShownOnlyIfDelivered
<1>2. QED
  BY <1>1, TruthHolds, PTL

(* A cancel whose flag was set before the last boundary, that no check misread and *)
(* no expiry removed, keeps every later step of the job from fetching and sending. *)
THEOREM CancelIsKept == Spec => []AcceptedCancelStops
<1>1. Truth => AcceptedCancelStops
  BY DEF Truth, CancelHolds, AcceptedCancelStops, Checking, Sending
<1>2. QED
  BY <1>1, TruthHolds, PTL

(* "Failed" is shown of a delivered job only if an attempt could not tell. *)
THEOREM FailureIsExcused == Spec => []FailedAfterDeliveryIsExcused
<1>1. Truth => FailedAfterDeliveryIsExcused
  BY DEF Truth, FailureIsFinal, Stages, FailedAfterDeliveryIsExcused
<1>2. QED
  BY <1>1, TruthHolds, PTL

(* A final stage of the worker in Redis is put back to a working one only by the *)
(* late reporter.start and by the thread of a download that was given up.        *)
THEOREM LateWritersOnly == Spec => OnlyLateWritersReopen
<1>1. ASSUME Truth, [Next]_vars,
             hash.caption.stage \in {"done", "failed"}, hash'.caption.stage \in Working
      PROVE  LateStart \/ LateHook
  <2>1. job.pc = "over" /\ ~JobStep
    BY <1>1, AttemptFlow DEF Truth, FailureIsFinal, Stages
  <2>2. ~EmitProgress /\ ~Finish /\ ~Fail
    BY <2>1 DEF JobStep
  <2>3. \A s \in {"done", "failed", "cancelled"} : s \notin Working
    BY DEF Working
  <2>4. NoCaption.stage \notin Working /\ Text("cancelled").stage = "cancelled"
    BY DEF NoCaption, Text, Working
  <2>5. Start \/ HookWrites
    BY <1>1, <2>2, <2>3, <2>4, HashFlow DEF Truth, Forms
  <2>6. Start => LateStart
    BY DEF Start, LateStart
  <2>7. HookWrites => LateHook
    BY <2>1 DEF HookWrites, LateHook, JobAt
  <2>8. QED
    BY <2>5, <2>6, <2>7
<1>2. Truth /\ [Next]_vars => [hash.caption.stage \in {"done", "failed"}
        /\ hash'.caption.stage \in Working => LateStart \/ LateHook]_vars
  BY <1>1
<1>3. QED
  BY <1>2, TruthHolds, PTL DEF Spec, OnlyLateWritersReopen

-----------------------------------------------------------------------------
(***************************************************************************)
(* A failure stays on the screen. While nothing spoils it, the job is out of *)
(* the updater's table but between the two halves of _handle_event, where it *)
(* was heard just now, too recently for the watchdog, and all the loop can    *)
(* still show is the failure itself.                                        *)
(***************************************************************************)

FailureAtRest ==
  /\ hash.caption.stage \in {"failed", "none"}
  /\ dog = "sleep"
  /\ loop.pc # "hold"
  /\ loop.pc = "edit" => loop.caption.stage = "failed"
  /\ entry.in => loop.pc = "edit" /\ entry.silent = 0

Quiescent ==
  ~spoiled => /\ loop.pc = "edit" /\ loop.caption.stage = "failed" => hash.caption.stage = "failed"
              /\ Reads("failed") => FailureAtRest

LEMMA SpoiledStays == ASSUME [Next]_vars, ~spoiled' PROVE ~spoiled
<1>1. HandlerStep => ~spoiled
  BY HandlerFrame DEF Start, ReportCancel, Spoils
<1>2. HookStep => ~spoiled
  BY DEF HookStep, HookStarts, HookWrites, Spoils, history
<1>3. LoopStep \/ DogStep => ~spoiled
  BY UpdaterFrame DEF ApplyCaption
<1>4. OtherStep => ~spoiled
  BY OtherFrame DEF BotStarts, Spoils
<1>5. QED
  BY <1>1, <1>2, <1>3, <1>4, NextSplit, JobFrame DEF vars, history

(* After a failure the hash only expires, or the step is one that spoils it. *)
LEMMA FailureIsLast ==
  ASSUME Truth, [Next]_vars, ~spoiled', Reads("failed") \/ hash.caption.stage = "failed"
  PROVE  hash' = hash \/ (Tick /\ hash'.caption.stage \in {hash.caption.stage, "none"})
<1>1. job.pc = "over" /\ ~JobStep
  BY AttemptFlow DEF Truth, FailureIsFinal, Stages, Reads
<1>2. ~EmitProgress /\ ~Finish /\ ~Fail
  BY <1>1 DEF JobStep
<1>3. ~Start /\ ~ReportCancel
  BY DEF Start, ReportCancel, Spoils
<1>4. ~HookWrites
  BY <1>1 DEF HookWrites, Spoils, JobAt
<1>5. NoCaption.stage = "none"
  BY DEF NoCaption, Text
<1>6. QED
  BY <1>2, <1>3, <1>4, <1>5, HashFlow DEF Truth, Forms

(* Nothing that may follow a failure changes the screen. *)
LEMMA ScreenRests ==
  ASSUME Truth, Quiescent, [Next]_vars, ~spoiled', Reads("failed")
  PROVE  shown' = shown
<1>1. job.pc = "over" /\ FailureAtRest /\ shown = Text("failed")
  BY SpoiledStays DEF Truth, FailureIsFinal, Stages, Reads, Quiescent
<1>2. CASE HandlerStep
  <2>1. ~Refuse
    BY <1>1 DEF Refuse, Truth, Forms, NewIsUnqueued
  <2>2. QED
    BY <1>2, <2>1, HandlerFrame
<1>3. CASE LoopStep
  <2>1. CASE ApplyCaption
    <3>1. loop.caption = Text("failed")
      BY <1>1, <2>1 DEF ApplyCaption, FailureAtRest, Truth, FailureIsFinal
    <3>2. QED
      BY <1>1, <2>1, <3>1 DEF ApplyCaption, Edit
  <2>2. ~DeletePlaceholder
    BY <1>1 DEF DeletePlaceholder, FailureAtRest
  <2>3. QED
    BY <1>3, <2>1, <2>2 DEF LoopStep, TakeEvent, ReadProgress
<1>4. CASE DogStep
  BY <1>1, <1>4 DEF DogStep, WatchdogTick, WatchdogWarns, WatchdogDrops, FailureAtRest
<1>5. QED
  BY <1>2, <1>3, <1>4, NextSplit, JobFrame, HookFrame, OtherFrame DEF vars

(* How each process keeps a failure at rest, once it is. *)
LEMMA RestStep ==
  ASSUME Truth, Quiescent, [Next]_vars, ~spoiled', Reads("failed")
  PROVE  FailureAtRest'
<1> USE DEF FailureAtRest
<1>1. FailureAtRest /\ hash'.caption.stage \in {"failed", "none"}
  BY SpoiledStays, FailureIsLast DEF Quiescent
<1>2. Warn > 0 /\ Drop > 0
  OBVIOUS
<1>3. CASE TakeEvent
  BY <1>1, <1>3 DEF TakeEvent, Truth, Forms, TypeOK, Loop
<1>4. CASE ReadProgress
  <2>1. hash.left > 0 => hash.caption.stage = "failed"
    BY <1>1 DEF Truth, Forms, HashHasCaption, Caption, Working, Terminal
  <2>2. dog' = "sleep" /\ Poll.pc = "poll"
    BY <1>1, <1>4 DEF ReadProgress, bot, Poll
  <2>3. CASE UNCHANGED entry /\ loop' = Poll
    BY <1>1, <1>4, <2>2, <2>3 DEF ReadProgress
  <2>4. CASE /\ hash.left > 0
             /\ entry' = [(IF entry.in THEN entry ELSE Fresh) EXCEPT !.silent = 0, !.warned = FALSE]
             /\ loop' = [pc |-> "edit", caption |-> hash.caption]
    <3>1. \A e \in Entry : [e EXCEPT !.silent = 0, !.warned = FALSE].silent = 0
      BY DEF Entry
    <3>2. entry'.silent = 0
      BY <2>4, <3>1, EntryTypes DEF Truth, Forms, TypeOK
    <3>3. QED
      BY <1>1, <2>1, <2>2, <2>4, <3>2
  <2>5. QED
    BY <1>4, <2>1, <2>3, <2>4 DEF ReadProgress, Ends, Terminal
<1>5. CASE ApplyCaption
  BY <1>1, <1>5, EntryTypes DEF ApplyCaption, Finalize, Ends, Terminal
<1>6. ~DeletePlaceholder
  BY <1>1 DEF DeletePlaceholder
<1>7. ~DogStep
  BY <1>1, <1>2 DEF DogStep, WatchdogTick, WatchdogWarns, WatchdogDrops
<1>8. CASE BotStops
  BY <1>1, <1>8, EntryTypes DEF BotStops
<1>9. ~BotStarts \/ (UNCHANGED <<entry, loop, dog>>)
  BY DEF BotStarts, Spoils
<1>10. CASE Tick
  <2>1. ~entry.in /\ loop' = loop /\ dog' = dog
    BY <1>1, <1>10 DEF Tick, Quiet
  <2>2. entry'.in = entry.in
    BY <1>10 DEF Tick, Truth, Forms, TypeOK, Entry
  <2>3. QED
    BY <1>1, <2>1, <2>2
<1>11. CASE UNCHANGED <<entry, loop, dog>>
  BY <1>1, <1>11
<1>12. QED
  BY <1>3, <1>4, <1>5, <1>6, <1>7, <1>8, <1>9, <1>10, <1>11, NextSplit, HandlerFrame, JobFrame, HookFrame
  DEF LoopStep, OtherStep, EventLost, FlagExpires, vars, bot, Chat

LEMMA QuiescentStep == Truth /\ Quiescent /\ [Next]_vars => Quiescent'
<1> SUFFICES ASSUME Truth, Quiescent, [Next]_vars, ~spoiled'
             PROVE  /\ loop'.pc = "edit" /\ loop'.caption.stage = "failed" => hash'.caption.stage = "failed"
                    /\ shown'.stage = "failed" => FailureAtRest'
  BY DEF Quiescent, Reads
<1>1. ~spoiled
  BY SpoiledStays
<1>2. ASSUME loop'.pc = "edit", loop'.caption.stage = "failed" PROVE hash'.caption.stage = "failed"
  <2>1. hash.caption.stage = "failed"
    BY <1>1, <1>2, ScreenFlow DEF Quiescent
  <2>2. ~Tick
    BY <1>2 DEF Tick, Quiet
  <2>3. QED
    BY <2>1, <2>2, FailureIsLast
<1>3. ASSUME shown'.stage = "failed", ~Reads("failed") PROVE FailureAtRest'
  <2>1. "failed" \notin {Stale.stage, Refused.stage, Gone.stage}
    BY DEF Stale, Refused, Gone, Text
  <2>2. ApplyCaption /\ loop.pc = "edit" /\ loop.caption.stage = "failed"
    BY <1>3, <2>1, ScreenFlow DEF Reads
  <2>3. hash.caption.stage = "failed" /\ hash' = hash
    BY <1>1, <2>2 DEF Quiescent, ApplyCaption, redis
  <2>4. dog' = "sleep" /\ entry' = Out /\ loop' = Poll
    BY <2>2 DEF ApplyCaption, Finalize, Ends, Terminal
  <2>5. QED
    BY <2>3, <2>4, EntryTypes DEF FailureAtRest
<1>4. QED
  BY <1>2, <1>3, RestStep

(* What FailureStaysOnScreen says of every step, for any ages and any number of *)
(* failures of Redis, Telegram and the processes.                              *)
THEOREM FailureStays == Spec => FailureStaysOnScreen
<1>1. Init => Truth /\ Quiescent
  BY InitTruth, EntryTypes DEF Init, Quiescent, Reads, Text
<1>2. Truth /\ [Next]_vars => Truth'
  BY FormsStep, DoneStep, KnownStep, FailureStep, CancelStep DEF Truth
<1>3. Truth /\ Quiescent /\ [Next]_vars => [Reads("failed") /\ ~spoiled' => shown' = shown]_vars
  BY ScreenRests
<1>4. QED
  BY <1>1, <1>2, <1>3, QuiescentStep, PTL DEF Spec, FailureStaysOnScreen

-----------------------------------------------------------------------------
(***************************************************************************)
(* The refinement of Placeholder. Besides what is known already it takes    *)
(* that nothing touches the message of a job that never was, and that a      *)
(* CANCELLED anywhere comes from a tap.                                     *)
(***************************************************************************)

Untouched ==
  /\ job.pc = "new" /\ hook = "idle" /\ ~delivered
  /\ ~entry.in /\ loop.pc = "poll" /\ dog = "sleep"
  /\ meta = 0 /\ ~event

Unplaced ==
  /\ intake # "over" => press = "none"
  /\ intake = "enqueue" => Untouched /\ Reads("analyzing")
  /\ Reads("refused") => Untouched /\ intake = "over" /\ press = "barred"

CancelIsAsked == "cancelled" \in Stages => Asked

Told == Unplaced /\ CancelIsAsked

LEMMA AskedStays ==
  ASSUME Told, [Next]_vars
  PROVE  Asked' = Asked \/ Tap
<1> USE DEF Told, Unplaced, Asked
<1>1. CASE HandlerStep
  BY <1>1 DEF HandlerStep, Enqueue, Refuse, Start, Tap, RequestCancel, ReportCancel
<1>2. CASE BotStops
  BY <1>2 DEF BotStops
<1>3. CASE ~HandlerStep /\ ~BotStops
  BY <1>3, NextSplit, JobFrame, HookFrame, UpdaterFrame, OtherFrame DEF vars
<1>4. QED
  BY <1>1, <1>2, <1>3

LEMMA NewJobRests == ASSUME job.pc = "new" PROVE ~JobStep
BY DEF JobStep, PickUp, EmitProgress, Emit, CheckCancel, HandleCancellation, Downloaded,
   DownloadTimesOut, Deliver, AttemptFails, SaveRaises, PersistDone, Finish, Fail, Crash,
   JobTimesOut, JobAt

(* A message nothing touches is touched by the bot's handler alone. *)
LEMMA UntouchedStep ==
  ASSUME Forms, Untouched, press \in {"none", "barred"}, intake # "start", [Next]_vars
  PROVE  /\ Untouched' \/ Enqueue
         /\ Refuse \/ UNCHANGED shown
<1> USE DEF Untouched
<1>1. ~JobStep
  BY NewJobRests
<1>2. CASE HandlerStep
  <2>1. ~Start /\ ~RequestCancel /\ ~ReportCancel
    BY DEF Start, RequestCancel, ReportCancel
  <2>2. Enqueue \/ Refuse \/ Tap
    BY <1>2, <2>1 DEF HandlerStep
  <2>3. QED
    BY <2>2 DEF Enqueue, Refuse, Tap, bot, redis, history, outcome
<1>3. CASE HookStep
  BY <1>3 DEF HookStep, HookStarts, HookWrites, JobAt
<1>4. ~LoopStep
  BY DEF LoopStep, TakeEvent, ReadProgress, ApplyCaption, DeletePlaceholder
<1>5. ~DogStep
  BY DEF DogStep, WatchdogTick, WatchdogWarns, WatchdogDrops
<1>6. CASE OtherStep
  <2>1. /\ EventLost => UNCHANGED <<job, hook, entry, loop, dog, meta, shown, delivered>> /\ event' = FALSE
        /\ FlagExpires => UNCHANGED <<job, hook, entry, loop, dog, meta, event, shown, delivered>>
    BY DEF EventLost, FlagExpires, Worker, Chat, bot, redis, history, outcome
  <2>2. CASE BotStops
    BY <2>2, EntryTypes DEF BotStops, outcome
  <2>3. CASE BotStarts
    BY <2>3 DEF BotStarts, Worker, redis, outcome
  <2>4. CASE Tick
    <3>1. entry'.in = entry.in
      BY <2>4 DEF Tick, Forms, TypeOK, Entry
    <3>2. QED
      BY <2>4, <3>1 DEF Tick, Worker, history, outcome, Down
  <2>5. QED
    BY <1>6, <2>1, <2>2, <2>3, <2>4 DEF OtherStep
<1>7. CASE UNCHANGED vars
  BY <1>7 DEF vars, bot, redis, history, outcome
<1>8. QED
  BY <1>1, <1>2, <1>3, <1>4, <1>5, <1>6, <1>7, NextSplit

LEMMA UnplacedStep == Truth /\ Told /\ [Next]_vars => Unplaced'
<1> SUFFICES ASSUME Truth, Told, [Next]_vars PROVE Unplaced'
  OBVIOUS
<1> USE DEF Truth, Told
<1>1. intake' # "over" => press' = "none"
  <2>1. CASE HandlerStep
    BY <2>1 DEF HandlerStep, Enqueue, Refuse, Start, Tap, RequestCancel, ReportCancel, HasCancelButton, Unplaced
  <2>2. CASE BotStops
    BY <2>2 DEF BotStops
  <2>3. CASE ~HandlerStep /\ ~BotStops
    BY <2>3, NextSplit, JobFrame, HookFrame, UpdaterFrame, OtherFrame DEF vars, Unplaced
  <2>4. QED
    BY <2>1, <2>2, <2>3
<1>2. ASSUME intake' = "enqueue" PROVE Untouched' /\ shown'.stage = "analyzing"
  <2>1. intake = "enqueue" /\ ~Enqueue /\ ~Refuse
    <3>1. CASE HandlerStep
      BY <1>2, <3>1 DEF HandlerStep, Enqueue, Refuse, Start, Tap, RequestCancel, ReportCancel
    <3>2. CASE BotStops
      BY <1>2, <3>2 DEF BotStops
    <3>3. CASE ~HandlerStep /\ ~BotStops
      BY <1>2, <3>3, NextSplit, JobFrame, HookFrame, UpdaterFrame, OtherFrame DEF vars, HandlerStep
    <3>4. QED
      BY <3>1, <3>2, <3>3
  <2>2. Untouched /\ Reads("analyzing") /\ press = "none"
    BY <2>1 DEF Unplaced
  <2>3. QED
    BY <2>1, <2>2, UntouchedStep DEF Reads
<1>3. ASSUME shown'.stage = "refused" PROVE Untouched' /\ intake' = "over" /\ press' = "barred"
  <2>1. CASE Refuse
    <3>1. Untouched
      BY <2>1 DEF Refuse, Unplaced
    <3>2. QED
      BY <2>1, <3>1 DEF Refuse, Untouched, bot, redis, outcome
  <2>2. CASE ~Refuse
    <3>1. Reads("refused")
      <4>1. CASE LoopStep \/ DogStep
        <5>1. shown' \in {shown, Stale, Gone, loop.caption}
          BY <4>1 DEF LoopStep, DogStep, TakeEvent, ReadProgress, ApplyCaption, DeletePlaceholder,
             WatchdogTick, WatchdogWarns, WatchdogDrops, Edit, Delete
        <5>2. "refused" \notin {Stale.stage, Gone.stage}
          BY DEF Stale, Gone, Text
        <5>3. shown' # shown => loop.caption.stage # "refused" \/ shown' # loop.caption
          <6>1. \A c \in Caption : c.stage # "refused"
            BY DEF Caption, Working, Terminal
          <6>2. ApplyCaption => loop.caption \in Caption
            BY DEF ApplyCaption, Forms, EditedIsCaption
          <6>3. shown' # shown => ApplyCaption \/ shown' \in {Stale, Gone}
            BY <4>1 DEF LoopStep, DogStep, TakeEvent, ReadProgress, DeletePlaceholder,
               WatchdogTick, WatchdogWarns, WatchdogDrops, Edit, Delete
          <6>4. QED
            BY <1>3, <5>2, <6>1, <6>2, <6>3
        <5>4. QED
          BY <1>3, <5>1, <5>2, <5>3 DEF Reads
      <4>2. CASE ~LoopStep /\ ~DogStep
        BY <1>3, <2>2, <4>2, NextSplit, HandlerFrame, JobFrame, HookFrame, OtherFrame DEF vars, Reads
      <4>3. QED
        BY <4>1, <4>2
    <3>2. Untouched /\ intake = "over" /\ press = "barred"
      BY <3>1 DEF Unplaced
    <3>3. ~Enqueue
      BY <3>2 DEF Enqueue
    <3>4. intake' = "over" /\ press' = "barred"
      <4>1. ~HandlerStep
        BY <2>2, <3>2 DEF HandlerStep, Enqueue, Refuse, Start, Tap, HasCancelButton, RequestCancel, ReportCancel
      <4>2. BotStops => intake' = "over" /\ press' = "barred"
        BY <3>2 DEF BotStops
      <4>3. QED
        BY <3>2, <4>1, <4>2, NextSplit, JobFrame, HookFrame, UpdaterFrame, OtherFrame DEF vars
    <3>5. QED
      BY <3>2, <3>3, <3>4, UntouchedStep
  <2>3. QED
    BY <2>1, <2>2
<1>4. QED
  BY <1>1, <1>2, <1>3 DEF Unplaced, Reads

LEMMA AskedStep == Truth /\ Told /\ [Next]_vars => CancelIsAsked'
<1> SUFFICES ASSUME Truth, Told, [Next]_vars, "cancelled" \in Stages' PROVE Asked'
  BY DEF CancelIsAsked
<1>1. Asked => Asked'
  BY AskedStays DEF Tap, Asked
<1>2. /\ \A s : Text(s).stage = s
      /\ \A l \in Levels : Percent(l).stage = "downloading"
      /\ "cancelled" \notin {NoCaption.stage, Stale.stage, Refused.stage, Gone.stage}
      /\ "cancelled" \notin Working
  BY DEF Text, Percent, NoCaption, Stale, Refused, Gone, Working
<1>3. "cancelled" \in Stages \/ ReportCancel
  <2>1. hash'.caption.stage = "cancelled" => hash.caption.stage = "cancelled" \/ ReportCancel
    BY <1>2, HashFlow DEF Truth, Forms
  <2>2. QED
    BY <1>2, <2>1, ScreenFlow DEF Stages
<1>4. ReportCancel => Asked
  BY DEF ReportCancel, Asked
<1>5. QED
  BY <1>1, <1>3, <1>4 DEF Told, CancelIsAsked

(* What an attempt comes to know of its delivery. *)
LEMMA OutcomeFlow ==
  ASSUME Truth, JobStep
  PROVE  \/ UNCHANGED <<delivered, unsure>>
         \/ delivered' = TRUE /\ (unsure' = unsure \/ unsure' = TRUE)
<1> USE DEF JobAt, outcome, history
<1>1. CASE PickUp
  <2>1. job.ledger => delivered = TRUE
    BY DEF Truth, DoneIsEarned, Forms, TypeOK
  <2>2. PICK found \in BOOLEAN : /\ unsure' = (unsure \/ (job.ledger /\ ~found))
                                /\ delivered' = delivered
    BY <1>1 DEF PickUp
  <2>3. unsure \in BOOLEAN /\ job.ledger \in BOOLEAN
    BY DEF Truth, Forms, TypeOK, Job
  <2>4. CASE job.ledger
    <3>1. unsure' = unsure \/ unsure' = TRUE
      BY <2>2, <2>3
    <3>2. QED
      BY <2>1, <2>2, <2>4, <3>1
  <2>5. CASE ~job.ledger
    <3>1. unsure' = unsure
      BY <2>2, <2>3, <2>5
    <3>2. QED
      BY <2>2, <3>1
  <2>6. QED
    BY <2>4, <2>5
<1>2. CASE Deliver
  <2>1. PICK kept \in BOOLEAN : unsure' = (unsure \/ ~kept)
    BY <1>2 DEF Deliver
  <2>2. unsure \in BOOLEAN
    BY DEF Truth, Forms, TypeOK
  <2>3. unsure' = unsure \/ unsure' = TRUE
    BY <2>1, <2>2
  <2>4. QED
    BY <1>2, <2>3 DEF Deliver
<1>3. CASE AttemptFails
  BY <1>3 DEF AttemptFails
<1>4. CASE SaveRaises
  <2>1. delivered = TRUE
    BY <1>4 DEF SaveRaises, Truth, DoneIsEarned, Forms, TypeOK
  <2>2. delivered' = delivered /\ (unsure' = unsure \/ unsure' = TRUE)
    BY <1>4 DEF SaveRaises
  <2>3. QED
    BY <2>1, <2>2
<1>5. CASE ~PickUp /\ ~Deliver /\ ~AttemptFails /\ ~SaveRaises
  BY <1>5 DEF JobStep, EmitProgress, Emit, CheckCancel, HandleCancellation, Downloaded,
     DownloadTimesOut, PersistDone, Finish, Fail, Crash, JobTimesOut
<1>6. QED
  BY <1>1, <1>2, <1>3, <1>4, <1>5

LEMMA JobRefines ==
  ASSUME Truth, Told, JobStep
  PROVE  [Promise!Next]_(Promise!vars)
<1>1. UNCHANGED <<press, shown, spoiled>>
  BY JobFrame
<1>2. UNCHANGED <<shown.stage, Asked, spoiled>>
  BY <1>1 DEF Asked
<1>3. shown.stage # "refused"
  BY NewJobRests DEF Told, Unplaced, Reads, Untouched
<1>4. CASE UNCHANGED <<delivered, unsure>>
  BY <1>2, <1>4 DEF Promise!vars
<1>5. CASE delivered' = TRUE /\ (unsure' = unsure \/ unsure' = TRUE)
  <2>1. Promise!Deliver
    BY <1>2, <1>3, <1>5 DEF Promise!Deliver
  <2>2. QED
    BY <2>1 DEF Promise!Next
<1>6. QED
  BY <1>4, <1>5, OutcomeFlow

(* A step that leaves the screen, the outcome and the button alone. *)
LEMMA SpoilingRefines ==
  ASSUME UNCHANGED <<shown, delivered, unsure>>, Asked' = Asked,
         spoiled' = spoiled \/ (spoiled' = TRUE /\ shown.stage # "refused")
  PROVE  [Promise!Next]_(Promise!vars)
<1>1. shown'.stage = shown.stage
  OBVIOUS
<1>2. CASE spoiled' = spoiled
  BY <1>1, <1>2 DEF Promise!vars
<1>3. CASE spoiled' = TRUE /\ shown.stage # "refused"
  <2>1. Promise!Spoil
    BY <1>1, <1>3 DEF Promise!Spoil
  <2>2. QED
    BY <2>1 DEF Promise!Next
<1>4. QED
  BY <1>2, <1>3

LEMMA SpoilsTypes == ASSUME TypeOK, Spoils PROVE spoiled' = spoiled \/ spoiled' = TRUE
<1>1. spoiled \in BOOLEAN
  BY DEF TypeOK
<1>2. PICK b \in BOOLEAN : spoiled' = (spoiled \/ b)
  BY DEF Spoils
<1>3. QED
  BY <1>1, <1>2

LEMMA HandlerRefines ==
  ASSUME Truth, Told, HandlerStep
  PROVE  [Promise!Next]_(Promise!vars)
<1>1. UNCHANGED <<delivered, unsure>> /\ TypeOK
  BY HandlerFrame DEF Truth, Forms
<1>2. CASE Refuse
  <2>1. Reads("analyzing") /\ ~delivered /\ press = "none" /\ press' = "barred" /\ spoiled' = spoiled
    BY <1>2 DEF Refuse, Told, Unplaced, Untouched
  <2>2. Asked = FALSE /\ Asked' = FALSE
    BY <2>1 DEF Asked
  <2>3. CASE UNCHANGED shown
    BY <1>1, <2>1, <2>2, <2>3, SpoilingRefines
  <2>4. CASE shown' = Refused
    <3>1. shown'.stage = "refused"
      BY <2>4 DEF Refused, Text
    <3>2. Promise!Refuse
      BY <1>1, <2>1, <2>2, <3>1 DEF Promise!Refuse, Reads
    <3>3. QED
      BY <3>2 DEF Promise!Next
  <2>5. QED
    BY <1>2, <2>3, <2>4 DEF Refuse
<1>3. CASE Tap
  <2>1. UNCHANGED <<shown, spoiled>> /\ Asked = FALSE /\ Asked' = TRUE
    BY <1>3 DEF Tap, HasCancelButton, Asked, history
  <2>2. shown.stage # "refused"
    BY <1>3 DEF Tap, HasCancelButton, Told, Unplaced, Reads
  <2>3. shown.stage # "gone"
    <3>1. shown # Gone /\ shown \in Caption \cup {Stale, Refused, Gone}
      BY <1>1, <1>3 DEF Tap, HasCancelButton, TypeOK, Screens
    <3>2. QED
      BY <3>1 DEF Caption, Working, Terminal, Stale, Refused, Text
  <2>4. Promise!Press
    BY <1>1, <2>1, <2>2, <2>3 DEF Promise!Press, Promise!Final
  <2>5. QED
    BY <2>4 DEF Promise!Next
<1>4. CASE ~Refuse /\ ~Tap
  <2>1. shown' = shown /\ Asked' = Asked
    BY <1>4, HandlerFrame DEF HandlerStep, Enqueue, Start, RequestCancel, ReportCancel, Asked
  <2>2. spoiled' = spoiled \/ (spoiled' = TRUE /\ shown.stage # "refused")
    <3>1. CASE Start \/ ReportCancel
      <4>1. shown.stage # "refused"
        BY <3>1 DEF Start, ReportCancel, Told, Unplaced, Reads
      <4>2. Spoils
        BY <3>1 DEF Start, ReportCancel
      <4>3. QED
        BY <1>1, <4>1, <4>2, SpoilsTypes
    <3>2. QED
      BY <3>1, HandlerFrame
  <2>3. QED
    BY <1>1, <2>1, <2>2, SpoilingRefines
<1>5. QED
  BY <1>2, <1>3, <1>4

LEMMA OtherRefines ==
  ASSUME Truth, Told, HookStep \/ OtherStep
  PROVE  [Promise!Next]_(Promise!vars)
<1>1. UNCHANGED <<shown, delivered, unsure>> /\ TypeOK
  BY HookFrame, OtherFrame DEF Truth, Forms
<1>2. Asked' = Asked
  <2>1. CASE BotStops
    BY <2>1 DEF BotStops, Told, Unplaced, Asked
  <2>2. CASE ~BotStops
    BY <2>2, HookFrame, OtherFrame DEF Asked
  <2>3. QED
    BY <2>1, <2>2
<1>3. spoiled' = spoiled \/ (spoiled' = TRUE /\ shown.stage # "refused")
  <2>1. CASE HookWrites
    <3>1. shown.stage # "refused"
      BY <2>1 DEF HookWrites, Told, Unplaced, Untouched, Reads
    <3>2. spoiled' = spoiled \/ Spoils
      BY <2>1 DEF HookWrites
    <3>3. QED
      BY <1>1, <3>1, <3>2, SpoilsTypes
  <2>2. CASE BotStarts
    <3>1. spoiled' = spoiled \/ (Spoils /\ meta > 0)
      BY <2>2 DEF BotStarts
    <3>2. meta > 0 => shown.stage # "refused"
      BY DEF Told, Unplaced, Untouched, Reads
    <3>3. QED
      BY <1>1, <3>1, <3>2, SpoilsTypes
  <2>3. CASE ~HookWrites /\ ~BotStarts
    BY <2>3, OtherFrame DEF HookStep, HookStarts, history
  <2>4. QED
    BY <2>1, <2>2, <2>3
<1>4. QED
  BY <1>1, <1>2, <1>3, SpoilingRefines

(* Where the updater may take the screen. *)
LEMMA UpdaterScreen ==
  ASSUME Truth, LoopStep \/ DogStep
  PROVE  /\ \/ shown' = shown
            \/ shown' = Gone
            \/ shown' = Stale /\ shown # Gone /\ UNCHANGED spoiled
            \/ ApplyCaption /\ shown' = loop.caption /\ loop.caption \in Caption /\ shown # Gone
         /\ spoiled' = spoiled \/ (spoiled' = TRUE /\ ApplyCaption /\ loop.caption.stage = "failed")
         /\ shown' # Gone \/ shown = Gone \/ UNCHANGED spoiled
<1>1. TypeOK /\ spoiled \in BOOLEAN
  BY DEF Truth, Forms, TypeOK
<1>2. CASE ApplyCaption
  <2>1. loop.caption \in Caption
    BY <1>2 DEF ApplyCaption, Truth, Forms, EditedIsCaption
  <2>2. \A c \in Caption : c # Gone
    BY DEF Caption, Gone, Text, Working, Terminal
  <2>3. PICK result \in Results(loop.caption) : Edit(loop.caption, result)
    BY <1>2 DEF ApplyCaption
  <2>4. shown' = shown \/ (shown' = loop.caption /\ shown # Gone)
    BY <2>3 DEF Edit, Results
  <2>5. spoiled' = (spoiled \/ (loop.caption.stage = "failed" /\ dog # "sleep"))
    BY <1>2 DEF ApplyCaption
  <2>6. spoiled' = spoiled \/ (spoiled' = TRUE /\ loop.caption.stage = "failed")
    <3>1. CASE loop.caption.stage = "failed" /\ dog # "sleep"
      BY <2>5, <3>1
    <3>2. CASE ~(loop.caption.stage = "failed" /\ dog # "sleep")
      BY <1>1, <2>5, <3>2
    <3>3. QED
      BY <3>1, <3>2
  <2>7. QED
    BY <1>2, <2>1, <2>2, <2>4, <2>6
<1>3. CASE WatchdogWarns
  <2>1. PICK result \in Results(Stale) : Edit(Stale, result)
    BY <1>3 DEF WatchdogWarns
  <2>2. shown' = shown \/ (shown' = Stale /\ shown # Gone)
    BY <2>1 DEF Edit, Results
  <2>3. spoiled' = spoiled
    BY <1>3 DEF WatchdogWarns, history
  <2>4. QED
    BY <2>2, <2>3
<1>4. CASE TakeEvent \/ ReadProgress \/ WatchdogTick \/ DeletePlaceholder \/ WatchdogDrops
  <2>1. shown' = shown \/ shown' = Gone
    BY <1>4 DEF TakeEvent, ReadProgress, WatchdogTick, DeletePlaceholder, WatchdogDrops, Delete
  <2>2. spoiled' = spoiled
    BY <1>4 DEF TakeEvent, ReadProgress, WatchdogTick, DeletePlaceholder, WatchdogDrops, history
  <2>3. QED
    BY <2>1, <2>2
<1>5. QED
  BY <1>2, <1>3, <1>4 DEF LoopStep, DogStep

LEMMA UpdaterRefines ==
  ASSUME Truth, Truth', Told, CancelIsAsked', Quiescent, [Next]_vars, LoopStep \/ DogStep
  PROVE  [Promise!Next]_(Promise!vars)
<1>1. UNCHANGED <<delivered, unsure, press, intake>> /\ Asked' = Asked
  BY UpdaterFrame DEF Asked
<1>2. CASE shown' = shown
  <2>1. spoiled' = spoiled \/ (spoiled' = TRUE /\ shown.stage # "refused")
    <3>1. ApplyCaption => shown.stage # "refused"
      BY DEF ApplyCaption, Told, Unplaced, Untouched, Reads
    <3>2. QED
      BY <3>1, UpdaterScreen
  <2>2. QED
    BY <1>1, <1>2, <2>1, SpoilingRefines
<1>3. CASE shown' # shown
  <2>1. shown.stage # "refused"
    <3>1. Untouched /\ intake = "over" /\ press = "barred" => ~Refuse /\ (Refuse \/ UNCHANGED shown)
      BY UntouchedStep DEF Truth, Refuse
    <3>2. QED
      BY <1>3, <3>1 DEF Told, Unplaced, Reads
  <2>2. shown # Gone
    BY <1>3, UpdaterScreen
  <2>3. shown.stage # "gone"
    <3>1. shown \in Caption \cup {Stale, Refused, Gone}
      BY DEF Truth, Forms, TypeOK, Screens
    <3>2. QED
      BY <2>2, <3>1 DEF Caption, Working, Terminal, Stale, Refused, Text
  <2>4. shown.stage = "failed" => spoiled
    <3>1. shown.stage = "failed" => spoiled'
      BY <1>3, ScreenRests DEF Reads
    <3>2. ASSUME shown.stage = "failed", spoiled' # spoiled PROVE FALSE
      <4>1. ApplyCaption /\ loop.caption = Text("failed") /\ shown = Text("failed")
        BY <3>2, UpdaterScreen DEF Truth, FailureIsFinal
      <4>2. shown' = shown
        BY <4>1 DEF ApplyCaption, Edit
      <4>3. QED
        BY <1>3, <4>2
    <3>3. QED
      BY <3>1, <3>2
  <2>5. Promise!Changes
    BY <2>1, <2>3, <2>4 DEF Promise!Changes, Promise!Final
  <2>6. CASE shown' = Gone
    <3>1. shown'.stage = "gone" /\ spoiled' = spoiled
      BY <2>2, <2>6, UpdaterScreen DEF Gone, Text
    <3>2. Promise!Remove
      BY <1>1, <2>5, <3>1 DEF Promise!Remove
    <3>3. QED
      BY <3>2 DEF Promise!Next
  <2>7. CASE shown' # Gone
    <3>1. shown'.stage \in Promise!Working \cup Promise!Ended
      <4>1. shown' = Stale \/ shown' \in Caption
        BY <1>3, <2>7, UpdaterScreen
      <4>2. QED
        BY <4>1 DEF Caption, Working, Terminal, Stale, Text, Promise!Working, Promise!Ended
    <3>2. PICK stage \in Promise!Working \cup Promise!Ended : stage = shown'.stage
      BY <3>1
    <3>3. spoiled' = spoiled \/ (spoiled' = TRUE /\ stage = "failed")
      <4>1. ASSUME spoiled' # spoiled PROVE loop.caption.stage = "failed" /\ spoiled' = TRUE
        BY <4>1, UpdaterScreen
      <4>2. spoiled' # spoiled => shown' = loop.caption
        BY <1>3, <2>7, UpdaterScreen
      <4>3. QED
        BY <3>2, <4>1, <4>2
    <3>4. Promise!Earned(stage)
      <4>1. stage = "done" => delivered
        BY <1>1, <3>2 DEF Truth, DoneIsEarned, Stages
      <4>2. stage = "failed" => ~delivered \/ unsure
        BY <1>1, <3>2 DEF Truth, FailureIsFinal, Stages
      <4>3. stage = "cancelled" => Asked
        BY <1>1, <3>2 DEF CancelIsAsked, Stages
      <4>4. QED
        BY <4>1, <4>2, <4>3 DEF Promise!Earned
    <3>5. Promise!Show(stage)
      BY <1>1, <2>5, <3>2, <3>3, <3>4 DEF Promise!Show
    <3>6. QED
      BY <3>5 DEF Promise!Next
  <2>8. QED
    BY <2>6, <2>7
<1>4. QED
  BY <1>2, <1>3

(* Whatever is late, lost or restarted, the user sees a run of Placeholder: no   *)
(* word comes up that is not earned, a refusal and a removal are for good, and a *)
(* failure that nothing spoils stays.                                           *)
THEOREM PlaceholderKept == Spec => ImplementsPlaceholder
<1>1. Init => Truth /\ Quiescent /\ Told /\ Promise!Init
  <2>1. Init => Quiescent
    BY EntryTypes DEF Init, Quiescent, Reads, Text
  <2>2. Init => Told
    <3> SUFFICES ASSUME Init PROVE Told
      OBVIOUS
    <3>1. Untouched /\ shown.stage = "analyzing" /\ press = "none"
      BY EntryTypes DEF Init, Untouched, Text
    <3>2. "cancelled" \notin Stages
      BY EntryTypes DEF Init, Stages, NoCaption, Text
    <3>3. QED
      BY <3>1, <3>2 DEF Told, Unplaced, CancelIsAsked, Reads
  <2>3. Init => Promise!Init
    BY DEF Init, Promise!Init, Text, Asked
  <2>4. QED
    BY <2>1, <2>2, <2>3, InitTruth
<1>2. Truth /\ [Next]_vars => Truth'
  BY FormsStep, DoneStep, KnownStep, FailureStep, CancelStep DEF Truth
<1>3. Truth /\ Told /\ [Next]_vars => Told'
  BY UnplacedStep, AskedStep DEF Told
<1>4. Truth /\ Truth' /\ Told /\ Told' /\ Quiescent /\ [Next]_vars => [Promise!Next]_(Promise!vars)
  <2> SUFFICES ASSUME Truth, Truth', Told, Told', Quiescent, [Next]_vars
               PROVE  [Promise!Next]_(Promise!vars)
    OBVIOUS
  <2>1. CancelIsAsked'
    BY DEF Told
  <2>2. CASE UNCHANGED vars
    BY <2>2 DEF vars, history, outcome, Asked, Promise!vars
  <2>3. QED
    BY <2>1, <2>2, NextSplit, HandlerRefines, JobRefines, OtherRefines, UpdaterRefines
<1>5. QED
  BY <1>1, <1>2, <1>3, <1>4, QuiescentStep, PTL DEF Spec, ImplementsPlaceholder, Promise!Spec
=============================================================================
