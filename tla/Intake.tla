------------------------------- MODULE Intake ------------------------------
(***************************************************************************)
(* From a message with a link to a job in the queue: the bot's handlers     *)
(* handle_link, handle_download_callback and handle_post_text_callback,     *)
(* which run concurrently (concurrent_updates), one step per await that     *)
(* something else may come between, the end of the bot included.            *)
(*                                                                         *)
(*   msg      the handlers of link messages, behind the rate limit          *)
(*   row      the media_cache row of the link everybody sends               *)
(*   picker   the option keyboard of one link, and req:{request_id}         *)
(*   tap      the handlers of the taps on that keyboard                     *)
(*   post     an instant job, its post_text:{job_id}, and its text button   *)
(*   active   jobs of the user that count against the cap, any number of    *)
(*            which were there when the link is answered                    *)
(*                                                                         *)
(* Bound: one answered link is followed at a time, once nothing else goes on *)
(* and the windows of the rate limit are over; meanwhile nobody sends another. *)
(***************************************************************************)
EXTENDS RateLimit, PostText, FiniteSets

CONSTANTS
  Slots,        \* message handlers that may be at work at once
  Taps,         \* taps on one keyboard
  Cap,          \* MAX_CONCURRENT_JOBS_PER_USER
  Texts,        \* descriptions long enough for the button, stripped
  MaxFaults     \* bound: failures of Redis, Telegram, the queue, and stops of the bot

ASSUME IntakeAssumption ==
  /\ Cap \in Nat \ {0} /\ MaxFaults \in Nat /\ Users # {} /\ IsFiniteSet(Taps)
  /\ Texts \subseteq Text /\ \A t \in Texts : t # << >> /\ t[1] \notin Blank

VARIABLES msg, row, picker, tap, post, active, faults

following == <<picker, tap, post>>
vars == <<limiter, msg, row, following, active, faults>>

Message == [pc : {"idle", "gate", "refused", "telling", "reading", "fetching", "analyzed"},
            user : Users, layer : DOMAIN Layers, described : BOOLEAN]

\* overlap: history, a tap read the state while another had read it and not yet
\* deleted it. kept: history, a tap made its job and ended, the state still there.
\* unheard: history, a job runs whose publish raised.
Picker == [screen : {"none", "choose", "started", "refused", "expired", "cancelled"},
           state : BOOLEAN, jobs : Nat, kept : BOOLEAN, overlap : BOOLEAN, unheard : BOOLEAN]

Tap == {"free", "pressed", "loaded", "created", "queued", "deleted", "over"}

\* lapsed: history, the stored text expired. torn: history, a chunk could not be
\* sent, or the bot was stopped before the last one.
Post == [pc : {"none", "placed", "created", "queued", "over"}, described : BOOLEAN,
         job : {"none", "running", "sent"}, stored : BOOLEAN, button : BOOLEAN, lapsed : BOOLEAN,
         text : Text, reader : {"none", "sending", "over"}, rest : Text, got : Seq(Text), torn : BOOLEAN]

TypeOK ==
  /\ LimiterTypeOK
  /\ msg \in [Slots -> Message]
  /\ row \in BOOLEAN
  /\ picker \in Picker
  /\ tap \in [Taps -> Tap]
  /\ post \in Post
  /\ active \in 0 .. Cap
  /\ faults \in Nat

NoPicker == [screen |-> "none", state |-> FALSE, jobs |-> 0, kept |-> FALSE,
             overlap |-> FALSE, unheard |-> FALSE]
NoPost   == [pc |-> "none", described |-> FALSE, job |-> "none", stored |-> FALSE,
             button |-> FALSE, lapsed |-> FALSE, text |-> << >>,
             reader |-> "none", rest |-> << >>, got |-> << >>, torn |-> FALSE]

Free == [pc |-> "idle", user |-> CHOOSE u \in Users : TRUE, layer |-> 1, described |-> FALSE]

Init ==
  /\ LimiterInit
  /\ msg = [m \in Slots |-> Free]
  /\ row = FALSE
  /\ picker = NoPicker /\ tap = [t \in Taps |-> "free"] /\ post = NoPost
  /\ active = 0 /\ faults = 0

-----------------------------------------------------------------------------

Fault == faults < MaxFaults /\ faults' = faults + 1
Fine  == UNCHANGED faults

At(m, pc)   == msg[m].pc = pc
Goes(m, pc) == msg' = [msg EXCEPT ![m].pc = pc]
Ends(m)     == msg' = [msg EXCEPT ![m] = Free]

Following == picker.screen # "none" \/ post.pc # "none"
Quiet(m)  == /\ \A o \in Slots \ {m} : At(o, "idle")
             /\ \A k \in Keys : left[k] = 0
             /\ \A u \in Users : claim[u] = 0

(* handle_link: the gate. *)

Receive(m, u) ==
  /\ At(m, "idle") /\ ~Following
  /\ msg' = [msg EXCEPT ![m].pc = "gate", ![m].user = u]
  /\ UNCHANGED <<limiter, row, following, active, faults>>

\* One layer of evaluate. A refusal leaves the layers before it charged; an
\* error of Redis lets the request past the layer (RL_FAIL_OPEN).
Check(m) ==
  LET k == KeyOf(msg[m].layer, msg[m].user)
      passes == IF msg[m].layer < Len(Layers)
                  THEN msg' = [msg EXCEPT ![m].layer = @ + 1]
                  ELSE msg' = [msg EXCEPT ![m].layer = 1, ![m].pc = "reading"]
  IN
  /\ At(m, "gate")
  /\ \/ Fine /\ Charge(k) /\ IF Allows(k) THEN passes ELSE Goes(m, "refused")
     \/ Fault /\ WavePast(k) /\ passes
  /\ UNCHANGED <<throttle, row, following, active>>

\* The notice goes to the first refusal of a while, the others are dropped. An
\* error of Redis, which may have taken the claim, lets the notice through.
Notify(m) ==
  /\ At(m, "refused")
  /\ \/ Fine /\ Claim(msg[m].user) /\ Goes(m, "telling")
     \/ Fault /\ (Claim(msg[m].user) \/ UNCHANGED throttle) /\ Goes(m, "telling")
     \/ Fine /\ ~MayClaim(msg[m].user) /\ Ends(m) /\ UNCHANGED throttle
  /\ UNCHANGED <<gate, row, following, active>>

\* reply_text. The claim stays where Telegram refuses the notice.
Tell(m) ==
  LET u == msg[m].user IN
  /\ At(m, "telling")
  /\ \/ Fine /\ heard' = IF claim[u] > 0 THEN [heard EXCEPT ![u] = "notice"] ELSE heard
     \/ Fault /\ heard' = IF claim[u] > 0 THEN [heard EXCEPT ![u] = "lost"] ELSE heard
  /\ Ends(m)
  /\ UNCHANGED <<gate, claim, row, following, active>>

-----------------------------------------------------------------------------
(* handle_link: the analysis, AnalyzeLinkUseCase. *)

\* info_to_metadata leaves the description out.
DescribedByRow == FALSE

\* A YouTube row without size_by_height is taken for none.
ReadCache(m) ==
  /\ At(m, "reading")
  /\ \/ Fine /\ row /\ msg' = [msg EXCEPT ![m].pc = "analyzed", ![m].described = DescribedByRow]
     \/ Fine /\ ~row /\ Goes(m, "fetching")
     \/ Fault /\ Goes(m, "fetching")
  /\ UNCHANGED <<limiter, row, following, active>>

Upsert ==
  \/ Fine /\ row' = TRUE
  \/ Fault /\ UNCHANGED row

\* get_info and the write-back, whose failure is logged only.
Fetch(m) ==
  /\ At(m, "fetching")
  /\ \E described \in BOOLEAN :
       msg' = [msg EXCEPT ![m].pc = "analyzed", ![m].described = described]
  /\ Upsert
  /\ UNCHANGED <<limiter, following, active>>

\* The link is refused, the provider fails, nothing can be downloaded, or the
\* user never looks at the answer.
LeaveIt(m) ==
  /\ msg[m].pc \in {"reading", "fetching", "analyzed"}
  /\ Ends(m)
  /\ UNCHANGED <<limiter, row, following, active, faults>>

\* YouTube, or INSTANT_DOWNLOAD_ENABLED is off: the request state is saved, then the keyboard is sent.
ShowPicker(m) ==
  /\ At(m, "analyzed") /\ Quiet(m)
  /\ Ends(m)
  /\ picker' = [NoPicker EXCEPT !.screen = "choose", !.state = TRUE]
  /\ active' \in 0 .. Cap
  /\ UNCHANGED <<limiter, row, tap, post, faults>>

\* _handle_instant_download: the placeholder first.
PlaceInstant(m) ==
  /\ At(m, "analyzed") /\ Quiet(m)
  /\ Ends(m)
  /\ post' = [NoPost EXCEPT !.pc = "placed", !.described = msg[m].described]
  /\ active' \in 0 .. Cap
  /\ UNCHANGED <<limiter, row, picker, tap, faults>>

RowExpires ==
  /\ row
  /\ row' = FALSE
  /\ UNCHANGED <<limiter, msg, following, active, faults>>

-----------------------------------------------------------------------------
(* The two use cases that enqueue: create_if_under_cap, enqueue_or_release. *)

\* Rows of the cap that a handler has not published yet, or that run here.
Created == {t \in Taps : tap[t] = "created"}
Held    == Cardinality(Created) + (IF post.pc = "created" \/ post.job = "running" THEN 1 ELSE 0)

\* A publish that raises ends the use case with an error. The row is marked
\* FAILED; or it stays PENDING, when that fails as well; or it runs, for the queue
\* had taken it, and the release failed or came after the worker.
Outcomes      == {"taken", "released", "stuck", "unheard"}
Runs(outcome) == outcome \in {"taken", "unheard"}
Enqueue(outcome) ==
  /\ IF outcome = "taken" THEN Fine ELSE Fault
  /\ active' = IF outcome = "released" THEN active - 1 ELSE active

-----------------------------------------------------------------------------
(* The keyboard: handle_download_callback. *)

TapAt(t, pc) == tap[t] = pc
TapTo(t, pc) == tap' = [tap EXCEPT ![t] = pc]
Elsewhere    == <<limiter, msg, row, post>>

\* An answer Telegram does not take ends the handler all the same.
Shows(screen) ==
  \/ Fine /\ picker' = [picker EXCEPT !.screen = screen]
  \/ Fault /\ UNCHANGED picker

\* Every edit takes the keyboard away; taps made before it arrive after it.
Press(t) ==
  /\ TapAt(t, "free") /\ picker.screen = "choose"
  /\ TapTo(t, "pressed")
  /\ UNCHANGED <<Elsewhere, picker, active, faults>>

\* The cancel button of the keyboard leaves the request state as it is.
CancelPicker(t) ==
  /\ TapAt(t, "pressed")
  /\ TapTo(t, "over")
  /\ Shows("cancelled")
  /\ UNCHANGED <<Elsewhere, active>>

\* The tap has read the request state and not yet deleted it.
Busy(t) == tap[t] \in {"loaded", "created", "queued"}

\* An error of Redis, or of the answer to the tap, ends the handler.
LoadState(t) ==
  /\ TapAt(t, "pressed")
  /\ \/ /\ picker.state /\ Fine
        /\ TapTo(t, "loaded")
        /\ picker' = [picker EXCEPT !.overlap = @ \/ \E o \in Taps : Busy(o)]
     \/ picker.state /\ Fault /\ TapTo(t, "over") /\ UNCHANGED picker
     \/ ~picker.state /\ TapTo(t, "over") /\ Shows("expired")
  /\ UNCHANGED <<Elsewhere, active>>

FaultyCreateJob(t) == \* the refusal of the cap is taken for a job
  /\ TapAt(t, "loaded") /\ Fine
  /\ \/ active < Cap /\ active' = active + 1 /\ TapTo(t, "created")
     \/ active = Cap /\ UNCHANGED active /\ TapTo(t, "queued")
  /\ UNCHANGED <<Elsewhere, picker>>

\* EnqueueDownloadUseCase: the row is committed before it is published. Over the
\* cap an error replaces the keyboard.
CreateJob(t) ==
  /\ TapAt(t, "loaded")
  /\ \/ /\ active < Cap /\ active' = active + 1
        /\ TapTo(t, "created") /\ Fine /\ UNCHANGED picker
     \/ /\ active = Cap /\ UNCHANGED active
        /\ TapTo(t, "over") /\ Shows("refused")
  /\ UNCHANGED Elsewhere

Publish(t) ==
  /\ TapAt(t, "created")
  /\ \E outcome \in Outcomes :
       /\ Enqueue(outcome)
       /\ TapTo(t, IF outcome = "taken" THEN "queued" ELSE "over")
       /\ picker' = [picker EXCEPT !.jobs = IF Runs(outcome) THEN @ + 1 ELSE @,
                                   !.screen = IF outcome = "taken" THEN @ ELSE "refused",
                                   !.unheard = @ \/ outcome = "unheard"]
  /\ UNCHANGED Elsewhere

FaultyDeleteState(t) == \* the state is left to its TTL
  /\ TapAt(t, "queued")
  /\ Fine /\ TapTo(t, "deleted")
  /\ UNCHANGED <<Elsewhere, picker, active>>

\* An error of Redis, which may have deleted it, ends the handler here: the
\* keyboard stays.
DeleteState(t) ==
  /\ TapAt(t, "queued")
  /\ \/ Fine /\ picker' = [picker EXCEPT !.state = FALSE] /\ TapTo(t, "deleted")
     \/ /\ Fault /\ TapTo(t, "over")
        /\ \/ picker' = [picker EXCEPT !.state = FALSE]
           \/ picker' = [picker EXCEPT !.kept = @ \/ picker.state]
  /\ UNCHANGED <<Elsewhere, active>>

\* Then the reporter is told of the message, where instant downloads are on.
ShowStarted(t) ==
  /\ TapAt(t, "deleted")
  /\ TapTo(t, "over")
  /\ Shows("started")
  /\ UNCHANGED <<Elsewhere, active>>

StateExpires ==
  /\ picker.state
  /\ picker' = [picker EXCEPT !.state = FALSE]
  /\ UNCHANGED <<Elsewhere, tap, active, faults>>

Settled == \A t \in Taps : tap[t] \in {"free", "over"}

\* The user turns to something else.
ForgetPicker ==
  /\ picker.screen # "none" /\ Settled
  /\ picker' = NoPicker
  /\ tap' = [t \in Taps |-> "free"]
  /\ active' = 0
  /\ UNCHANGED <<Elsewhere, faults>>

-----------------------------------------------------------------------------
(* The text of the post: AutoEnqueueDownloadUseCase, DeliveryService, *)
(* handle_post_text_callback.                                         *)

Rests == <<limiter, msg, row, picker, tap>>

FaultyCreateInstant == \* an instant job is not held against the cap
  /\ post.pc = "placed" /\ Fine
  /\ active' = active + 1 /\ post' = [post EXCEPT !.pc = "created"]
  /\ UNCHANGED Rests

\* Over the cap the placeholder becomes the error.
CreateInstant ==
  /\ post.pc = "placed" /\ Fine
  /\ \/ active < Cap /\ active' = active + 1 /\ post' = [post EXCEPT !.pc = "created"]
     \/ active = Cap /\ UNCHANGED active /\ post' = [post EXCEPT !.pc = "over"]
  /\ UNCHANGED Rests

\* Where the publish raises nothing that follows it is done, though the job may run.
PublishInstant ==
  /\ post.pc = "created"
  /\ \E outcome \in Outcomes :
       /\ Enqueue(outcome)
       /\ post' = [post EXCEPT !.pc = IF outcome = "taken" THEN "queued" ELSE "over",
                               !.job = IF Runs(outcome) THEN "running" ELSE @]
  /\ UNCHANGED Rests

\* After reporter.start; the job may have been delivered by now.
StoreText ==
  /\ post.pc = "queued"
  /\ \/ Fine /\ ~post.described /\ post' = [post EXCEPT !.pc = "over"]
     \/ Fault /\ post.described /\ post' = [post EXCEPT !.pc = "over"]
     \/ /\ Fine /\ post.described
        /\ \E text \in Texts : post' = [post EXCEPT !.pc = "over", !.stored = TRUE, !.text = text]
  /\ UNCHANGED <<Rests, active>>

FaultyDeliver == \* the button goes by what the analysis said
  /\ post.job = "running"
  /\ Fine
  /\ post' = [post EXCEPT !.job = "sent", !.button = post.described]
  /\ active' = active - 1
  /\ UNCHANGED Rests

\* The button goes by EXISTS; an error of Redis reads as no.
Deliver ==
  /\ post.job = "running"
  /\ \/ Fine /\ post' = [post EXCEPT !.job = "sent", !.button = post.stored]
     \/ Fault /\ post.stored /\ post' = [post EXCEPT !.job = "sent"]
  /\ active' = active - 1
  /\ UNCHANGED Rests

TextExpires ==
  /\ post.stored
  /\ post' = [post EXCEPT !.stored = FALSE, !.lapsed = TRUE]
  /\ UNCHANGED <<Rests, active, faults>>

\* Nothing there, or Redis does not answer: the user is told that the text is gone.
OpenText ==
  /\ post.button /\ post.reader = "none"
  /\ \/ Fine /\ post.stored /\ post' = [post EXCEPT !.reader = "sending", !.rest = post.text]
     \/ Fine /\ ~post.stored /\ post' = [post EXCEPT !.reader = "over"]
     \/ Fault /\ post.stored /\ post' = [post EXCEPT !.reader = "over", !.torn = TRUE]
  /\ UNCHANGED <<Rests, active>>

FaultySendChunk == \* a chunk Telegram refuses is skipped
  /\ post.reader = "sending" /\ post.rest # << >>
  /\ \/ Fine /\ post' = [post EXCEPT !.got = Append(@, FirstChunk(post.rest)), !.rest = Rest(post.rest)]
     \/ Fault /\ post' = [post EXCEPT !.rest = Rest(post.rest), !.torn = TRUE]
  /\ UNCHANGED <<Rests, active>>

\* The chunks in turn; the first one Telegram refuses is the last.
SendChunk ==
  /\ post.reader = "sending" /\ post.rest # << >>
  /\ \/ Fine /\ post' = [post EXCEPT !.got = Append(@, FirstChunk(post.rest)), !.rest = Rest(post.rest)]
     \/ Fault /\ post' = [post EXCEPT !.reader = "over", !.torn = TRUE]
  /\ UNCHANGED <<Rests, active>>

AllSent ==
  /\ post.reader = "sending" /\ post.rest = << >>
  /\ post' = [post EXCEPT !.reader = "over"]
  /\ UNCHANGED <<Rests, active, faults>>

ForgetPost ==
  /\ post.pc = "over" /\ post.job # "running" /\ post.reader # "sending"
  /\ post' = NoPost
  /\ active' = 0
  /\ UNCHANGED <<Rests, faults>>

-----------------------------------------------------------------------------

\* A job of the cap ends, one way or another; a row nobody publishes is reaped.
JobOver ==
  /\ active > Held
  /\ active' = active - 1
  /\ UNCHANGED <<limiter, msg, row, following, faults>>

Tick ==
  /\ (\E k \in Keys : left[k] > 0) \/ (\E u \in Users : claim[u] > 0)
  /\ Expire
  /\ UNCHANGED <<msg, row, following, active, faults>>

\* The bot is killed, or restarted: its handlers end where they are, and what
\* Postgres, Redis, Telegram and the worker have stays. A tap the bot has not
\* fetched yet waits for it.
BotStops ==
  /\ Fault
  /\ msg' = [m \in Slots |-> Free]
  /\ heard' = [u \in Users |-> IF claim[u] > 0 /\ heard[u] = "nothing" THEN "lost" ELSE heard[u]]
  /\ \E waiting \in SUBSET {t \in Taps : TapAt(t, "pressed")} :
       tap' = [t \in Taps |-> IF TapAt(t, "free") \/ t \in waiting THEN tap[t] ELSE "over"]
  /\ picker' = [picker EXCEPT !.kept = @ \/ (picker.state /\ \E t \in Taps : TapAt(t, "queued"))]
  /\ post' = [post EXCEPT !.pc = IF @ = "none" THEN @ ELSE "over",
                          !.reader = IF @ = "sending" THEN "over" ELSE @,
                          !.torn = @ \/ (post.reader = "sending" /\ post.rest # << >>)]
  /\ UNCHANGED <<gate, claim, row, active>>

HandleLink(m) ==
  \/ \E u \in Users : Receive(m, u)
  \/ Check(m) \/ Notify(m) \/ Tell(m)
  \/ ReadCache(m) \/ Fetch(m) \/ LeaveIt(m)
  \/ ShowPicker(m) \/ PlaceInstant(m)

HandleTap(t) ==
  \/ Press(t) \/ CancelPicker(t) \/ LoadState(t)
  \/ CreateJob(t) \/ Publish(t) \/ DeleteState(t) \/ ShowStarted(t)

PostStep ==
  \/ CreateInstant \/ PublishInstant \/ StoreText \/ Deliver
  \/ OpenText \/ SendChunk \/ AllSent

Next ==
  \/ \E m \in Slots : HandleLink(m)
  \/ \E t \in Taps : HandleTap(t)
  \/ PostStep
  \/ RowExpires \/ StateExpires \/ TextExpires
  \/ JobOver \/ ForgetPicker \/ ForgetPost
  \/ BotStops \/ Tick

Spec == Init /\ [][Next]_vars

\* Time passes. Nothing is asked of those who write, of Redis or of Telegram.
Fairness == WF_vars(Tick)

FairSpec == Spec /\ Fairness

-----------------------------------------------------------------------------

DropsSilently(m) == At(m, "refused") /\ msg'[m].pc = "idle"
Telling(u) == \E m \in Slots : At(m, "telling") /\ msg[m].user = u

\* A refused message goes without an answer only while its own sender has the
\* notice of an earlier one, or is about to get it; or that notice was lost, refused
\* by Telegram or with the bot, which leaves the user without a word until the
\* claim expires; or the bot stops over this very message.
SilentDropIsExplained ==
  [][\A m \in Slots : DropsSilently(m)
       => heard[msg[m].user] # "nothing" \/ Telling(msg[m].user) \/ BotStops]_vars

\* A keyboard gives one job, unless two taps had both read the request state
\* before either deleted it, a tap failed or the bot stopped between the job and
\* the delete, or a tap was told of an error over a job that the queue had taken.
SecondJobNeedsDoubleTap == picker.jobs > 1 => picker.overlap \/ picker.kept \/ picker.unheard

Pressed == {t \in Taps : tap[t] # "free"}

\* Once its handlers are through, the keyboard's message says that a download
\* started only if one did, and anything else only if none did; unless it was
\* tapped twice, where the later answer wins, whichever that is, or the publish
\* raised over an entry the queue had taken, which reads as an error.
PickerTellsTheOutcome ==
  /\ picker.screen = "started" => picker.jobs > 0
  /\ picker.screen \in {"refused", "expired", "cancelled"} /\ picker.jobs > 0
       => picker.unheard \/ \E t, o \in Pressed : t # o

\* The button is only there for a text that was in Redis, and it goes stale in
\* one way alone: the text expires before it is pressed.
TextButtonIsBacked == post.button => post.stored \/ post.lapsed

ChunksFit == \A i \in DOMAIN post.got : Len(post.got[i]) \in 1 .. ChunkLimit

\* What a reader gets are messages Telegram takes, none empty, which with what is
\* still to send are the whole text in its order and to the letter, but for the
\* blanks at the cuts; and nothing is left to send unless a message was refused or
\* the bot stopped.
ReaderGetsThePost ==
  /\ ChunksFit
  /\ post.rest # << >> \/ post.got # << >> => MadeOf(post.text, Append(post.got, post.rest))
  /\ post.reader = "over" /\ post.rest # << >> => post.torn
=============================================================================
