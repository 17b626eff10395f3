----------------------------- MODULE RateLimit -----------------------------
(***************************************************************************)
(* The rate limit at the door of the bot: fixed windows counted in Redis,   *)
(* one after the other (user burst, user hourly, chat, global, domain), and *)
(* the throttle of the notices sent to a user who is refused.               *)
(*                                                                         *)
(* A key is a layer and whom it counts: the user, or everybody who writes   *)
(* here (one chat, one global counter and one domain stand for all).        *)
(***************************************************************************)
EXTENDS Naturals, Sequences

CONSTANTS
  Users,
  Layers,       \* the checks of evaluate, in their order: [name, personal, limit, window]
  NoticeTTL     \* RL_NOTICE_TTL, in ticks

Names == {"user_burst", "user_hourly", "chat_burst", "global_burst", "domain_burst"}
Layer == [name : Names, personal : BOOLEAN, limit : Nat \ {0}, window : Nat \ {0}]

\* What LimitWindow and _validate_rate_limit_runtime ask of the configuration.
ValidLayers ==
  /\ Layers \in Seq(Layer)
  /\ \A i, j \in DOMAIN Layers :
       LET a == Layers[i]
           b == Layers[j] IN
       /\ a.name = "user_burst" /\ b.name = "chat_burst" => a.limit <= b.limit
       /\ a.name = "chat_burst" /\ b.name = "global_burst" => a.limit <= b.limit
       /\ a.name = "user_burst" /\ b.name = "user_hourly" => a.window <= b.window

ASSUME LayersAssumption == ValidLayers /\ Layers # << >>
ASSUME NoticeAssumption == NoticeTTL \in Nat \ {0}

VARIABLES
  count,   \* rl:...: the counter of a key
  left,    \* ticks until that key expires
  claim,   \* ticks until rl:notice:u:{user} expires
  passed,  \* history: requests that got past a key in its present window
  waived,  \* history: those of them that an error of Redis let past
  heard    \* history: what became of the notice of a user's present claim

gate     == <<count, left, passed, waived>>
throttle == <<claim, heard>>
limiter  == <<gate, throttle>>

Everyone == "everyone"
KeyOf(i, u) == <<i, IF Layers[i].personal THEN u ELSE Everyone>>
Keys == {KeyOf(i, u) : i \in DOMAIN Layers, u \in Users}
Limit(k)  == Layers[k[1]].limit
Window(k) == Layers[k[1]].window

LimiterTypeOK ==
  /\ count \in [Keys -> Nat] /\ left \in [Keys -> Nat]
  /\ passed \in [Keys -> Nat] /\ waived \in [Keys -> Nat]
  /\ claim \in [Users -> Nat]
  /\ heard \in [Users -> {"nothing", "notice", "lost"}]

LimiterInit ==
  /\ count = [k \in Keys |-> 0] /\ left = [k \in Keys |-> 0]
  /\ passed = [k \in Keys |-> 0] /\ waived = [k \in Keys |-> 0]
  /\ claim = [u \in Users |-> 0] /\ heard = [u \in Users |-> "nothing"]

\* Bound: a counter stops one above its limit.
Counted(k) == IF count[k] <= Limit(k) THEN count[k] + 1 ELSE count[k]

FaultyArm(k) == left' = [left EXCEPT ![k] = Window(k)] \* EXPIRE after every INCR

\* The first INCR of a window alone arms its expiry.
Arm(k) ==
  left' = IF count[k] = 0 THEN [left EXCEPT ![k] = Window(k)] ELSE left

FaultyAllows(k) == count[k] <= Limit(k) \* compared before the INCR

Allows(k) == Counted(k) <= Limit(k)

\* _LUA_INCR_AND_CHECK: one script, so one step. A request that is refused is
\* counted as well.
Charge(k) ==
  /\ count' = [count EXCEPT ![k] = Counted(k)]
  /\ Arm(k)
  /\ passed' = IF Allows(k) THEN [passed EXCEPT ![k] = @ + 1] ELSE passed
  /\ UNCHANGED waived

\* _on_failure, RL_FAIL_OPEN: the request is let past uncounted, or the script
\* ran and its answer was lost. Where the key has no window there is none to count in.
WavePast(k) ==
  /\ \/ UNCHANGED <<count, left>>
     \/ count' = [count EXCEPT ![k] = Counted(k)] /\ Arm(k)
  /\ IF left'[k] > 0
       THEN passed' = [passed EXCEPT ![k] = @ + 1] /\ waived' = [waived EXCEPT ![k] = @ + 1]
       ELSE UNCHANGED <<passed, waived>>

FaultyMayClaim(u) == \A v \in Users : claim[v] = 0 \* one scope for all users

MayClaim(u) == claim[u] = 0

\* should_notify: SET NX EX. An error of Redis lets the notice through.
Claim(u) ==
  /\ MayClaim(u)
  /\ claim' = [claim EXCEPT ![u] = NoticeTTL]
  /\ UNCHANGED heard

Earlier(n) == IF n > 0 THEN n - 1 ELSE 0

\* Redis drops a counter with its window.
Expire ==
  /\ left' = [k \in Keys |-> Earlier(left[k])]
  /\ count' = [k \in Keys |-> IF left[k] > 1 THEN count[k] ELSE 0]
  /\ passed' = [k \in Keys |-> IF left[k] > 1 THEN passed[k] ELSE 0]
  /\ waived' = [k \in Keys |-> IF left[k] > 1 THEN waived[k] ELSE 0]
  /\ claim' = [u \in Users |-> Earlier(claim[u])]
  /\ heard' = [u \in Users |-> IF claim[u] > 1 THEN heard[u] ELSE "nothing"]

-----------------------------------------------------------------------------

\* What gets past a key in one of its windows is its limit and one request for
\* each error of Redis, no more, though requests come concurrently and a window
\* may end between two layers of one of them. (Two windows that follow each other
\* may let two limits past in any short time: see the README.)
WindowLetsLimitPass == \A k \in Keys : passed[k] <= Limit(k) + waived[k]

\* Refusals are counted too, and a user may go on sending; still no key stays
\* over its limit, because only the first request of a window arms its expiry.
NobodyIsShutOut == \A k \in Keys : count[k] >= Limit(k) ~> count[k] < Limit(k)
=============================================================================
