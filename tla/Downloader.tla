----------------------------- MODULE Downloader ----------------------------
(***************************************************************************)
(* Calls of yt-dlp by the jobs of one worker to one host, Instagram's:      *)
(* YtDlpRunner with its child process, the circuit breaker in Redis, and    *)
(* the provider's fallback to anonymous calls when the cookies are rejected.*)
(***************************************************************************)
EXTENDS Naturals

CONSTANTS
  Callers,
  Threshold,    \* CIRCUIT_BREAKER_FAILURE_THRESHOLD
  Window,       \* its window, in ticks
  Cooldown,     \* its cooldown, in ticks
  Suspension,   \* _COOKIES_SUSPEND_S, in ticks
  MaxFaults     \* bound: failures of Redis and of the worker, lost or unclear answers

ASSUME DownloaderAssumption ==
  /\ {Threshold, Window, Cooldown, Suspension} \subseteq Nat \ {0}
  /\ MaxFaults \in Nat

VARIABLES
  call,         \* what a caller is at
  child,        \* the callers whose ytdlp_child process is alive
  count, left,  \* cb:{host}:failures and the ticks it has left; 0 of a count: none
  open,         \* ticks cb:{host}:open_until has left
  suspended,    \* ticks until _cookies_suspended_until
  faults,
  age,          \* history: ticks since the count began
  unarmed       \* history: an EXPIRE of the present count was lost

breaker    == <<count, left, open, age, unarmed>>
downloader == <<call, child, breaker, suspended>>

Outcomes == {"done", "upstream", "bare", "private", "timeout"}
Busy     == {"asking", "running", "throttled", "counted", "tripping", "succeeded"}

\* fetch: a download, in a child process and with a timeout; else extract_info or
\* probe_size, in a thread.
Call == [pc : {"idle"} \cup Busy \cup Outcomes, cookies : BOOLEAN, fetch : BOOLEAN]
NoCall == [pc |-> "idle", cookies |-> FALSE, fetch |-> FALSE]

DownloaderTypeOK ==
  /\ call \in [Callers -> Call]
  /\ child \subseteq Callers
  /\ count \in 0 .. Threshold /\ left \in 0 .. Window
  /\ open \in 0 .. Cooldown
  /\ suspended \in 0 .. Suspension
  /\ faults \in 0 .. MaxFaults
  /\ age \in 0 .. Window /\ unarmed \in BOOLEAN

DownloaderInit ==
  /\ call = [c \in Callers |-> NoCall] /\ child = {}
  /\ count = 0 /\ left = 0 /\ open = 0 /\ suspended = 0
  /\ faults = 0 /\ age = 0 /\ unarmed = FALSE

-----------------------------------------------------------------------------

Fault == faults < MaxFaults /\ faults' = faults + 1
Fine  == UNCHANGED faults

CallAt(c, pc) == call[c].pc = pc
CallTo(c, pc) == call' = [call EXCEPT ![c].pc = pc]

\* With cookies or without; there may be no cookie file.
Auth == {cookies \in BOOLEAN : cookies => suspended = 0}

\* _with_cookie_fallback, its first half.
Begin(c, fetch) ==
  /\ CallAt(c, "idle")
  /\ \E cookies \in Auth :
       call' = [call EXCEPT ![c] = [pc |-> "asking", cookies |-> cookies, fetch |-> fetch]]
  /\ UNCHANGED <<child, breaker, suspended, faults>>

\* _trip_if_open, which an error of Redis passes, and the start of the child.
Ask(c) ==
  /\ CallAt(c, "asking")
  /\ \/ open > 0 /\ Fine /\ CallTo(c, "upstream") /\ UNCHANGED child
     \/ /\ (open = 0 /\ Fine) \/ (open > 0 /\ Fault)
        /\ CallTo(c, "running")
        /\ child' = IF call[c].fetch THEN child \cup {c} ELSE child
  /\ UNCHANGED <<breaker, suspended>>

Succeed(c) ==
  /\ CallAt(c, "running")
  /\ CallTo(c, "succeeded")
  /\ child' = child \ {c}
  /\ UNCHANGED <<breaker, suspended, faults>>

\* HTTP 429 and its like: classify_error looks for them first.
Throttle(c) ==
  /\ CallAt(c, "running")
  /\ CallTo(c, "throttled")
  /\ child' = child \ {c}
  /\ UNCHANGED <<breaker, suspended, faults>>

\* Private, not found: about the post.
Deny(c) ==
  /\ CallAt(c, "running")
  /\ CallTo(c, "private")
  /\ child' = child \ {c}
  /\ UNCHANGED <<breaker, suspended, faults>>

\* Any other error. With cookies it puts them aside, for every job of the
\* worker, and the call is made again without.
Break(c) ==
  /\ CallAt(c, "running")
  /\ child' = child \ {c}
  /\ IF call[c].cookies
       THEN /\ call' = [call EXCEPT ![c].pc = "asking", ![c].cookies = FALSE]
            /\ suspended' = Suspension
       ELSE CallTo(c, "bare") /\ UNCHANGED suspended
  /\ UNCHANGED <<breaker, faults>>

FaultyTimeOut(c) == \* wait_for gives up on the child and nobody kills it
  /\ CallAt(c, "running") /\ call[c].fetch
  /\ CallTo(c, "timeout")
  /\ UNCHANGED <<child, breaker, suspended, faults>>

\* DOWNLOAD_TIMEOUT_SECONDS: _run_child kills the process group on its way out.
TimeOut(c) ==
  /\ CallAt(c, "running") /\ call[c].fetch
  /\ CallTo(c, "timeout")
  /\ child' = child \ {c}
  /\ UNCHANGED <<breaker, suspended, faults>>

-----------------------------------------------------------------------------
(* RedisCircuitBreaker. *)

\* record_success: DEL.
RecordSuccess(c) ==
  /\ CallAt(c, "succeeded")
  /\ CallTo(c, "done")
  /\ \/ Fine /\ count' = 0 /\ left' = 0 /\ age' = 0 /\ unarmed' = FALSE
     \/ Fault /\ UNCHANGED <<count, left, age, unarmed>>
  /\ UNCHANGED <<child, open, suspended>>

\* Bound: the counter stops at the threshold.
Counted == IF count < Threshold THEN count + 1 ELSE count

AfterCount(n) == IF n >= Threshold THEN "tripping" ELSE "upstream"

FaultyIncrement(c) == \* the count gets no expiry
  /\ CallAt(c, "throttled")
  /\ Fine /\ count' = Counted /\ CallTo(c, AfterCount(Counted))
  /\ UNCHANGED <<child, left, open, suspended, age, unarmed>>

\* record_failure: INCR, and the decision on the count it answers. The first of
\* a window has its expiry still to come.
Increment(c) ==
  /\ CallAt(c, "throttled")
  /\ \/ Fine /\ count' = Counted /\ CallTo(c, IF count = 0 THEN "counted" ELSE AfterCount(Counted))
     \/ Fault /\ UNCHANGED count /\ CallTo(c, "upstream")
  /\ UNCHANGED <<child, left, open, suspended, age, unarmed>>

\* EXPIRE, a command of its own: where it is lost, the count never expires.
Arm(c) ==
  /\ CallAt(c, "counted")
  /\ \/ Fine /\ left' = (IF count > 0 THEN Window ELSE 0) /\ UNCHANGED unarmed
        /\ CallTo(c, AfterCount(1))
     \/ Fault /\ unarmed' = (unarmed \/ left = 0) /\ UNCHANGED left /\ CallTo(c, "upstream")
  /\ UNCHANGED <<child, count, open, suspended, age>>

\* SET NX EX: who comes second does not prolong it.
Trip(c) ==
  /\ CallAt(c, "tripping")
  /\ CallTo(c, "upstream")
  /\ \/ Fine /\ open' = IF open = 0 THEN Cooldown ELSE open
     \/ Fault /\ UNCHANGED open
  /\ UNCHANGED <<child, count, left, suspended, age, unarmed>>

CallStep(c) ==
  \/ Ask(c) \/ Succeed(c) \/ Throttle(c) \/ Deny(c) \/ Break(c) \/ TimeOut(c)
  \/ RecordSuccess(c) \/ Increment(c) \/ Arm(c) \/ Trip(c)

\* A call is over, or its caller is cancelled in the middle of it.
EndCall(c) == call' = [call EXCEPT ![c] = NoCall] /\ child' = child \ {c}

Cut(c) == unarmed' = (unarmed \/ (CallAt(c, "counted") /\ left = 0))

Earlier(n) == IF n > 0 THEN n - 1 ELSE 0

\* Two commands in a row take less than a tick.
Elapse ==
  /\ \A c \in Callers : ~CallAt(c, "counted")
  /\ left' = Earlier(left)
  /\ count' = IF left = 1 THEN 0 ELSE count
  /\ age' = IF left = 1 \/ count = 0 THEN 0 ELSE IF age < Window THEN age + 1 ELSE age
  /\ open' = Earlier(open)
  /\ suspended' = Earlier(suspended)
  /\ UNCHANGED <<call, child, unarmed, faults>>

-----------------------------------------------------------------------------

\* The breaker opens for failures of one window: the first of those that are
\* counted lies within it, and failures further apart never add up, unless the
\* expiry of the count was lost between its two commands. (A success in between
\* drops the count where Redis takes it, RecordSuccess, and its age starts anew.)
TripIsEarned ==
  [][\A c \in Callers : call[c].pc # "tripping" /\ call'[c].pc = "tripping" => age < Window \/ unarmed]_<<call, breaker>>

\* A child of yt-dlp is alive only while its caller waits for it, whatever ends
\* the wait, the timeout included: no download of yt-dlp goes on writing into a
\* directory that a later attempt resets or the cleanup removes. (The docstring of
\* DownloadTimeoutError still says it would; ffmpeg, which mobile_compat starts,
\* is another process and not meant here.)
ChildDiesWithItsCall == \A c \in child : CallAt(c, "running") /\ call[c].fetch
=============================================================================
