----------------------------- MODULE RateLimits -----------------------------
(***************************************************************************)
(* The guard before createComment and before sendMessage: a counter in the *)
(* process's cache, read and then set again with a life of one window.     *)
(* One key: a user on a post, or a user's messages.  RateLimitService      *)
(* counts the same way, but no controller uses its interceptor.            *)
(***************************************************************************)
EXTENDS Naturals

CONSTANTS
  Requests,     \* calls that may be in flight together
  maxRequests,  \* calls per window
  windowTicks,  \* the window, in ticks of the clock
  MaxTime,      \* bound on the clock
  MaxRestarts   \* bound on restarts

RateLimitsAssumption ==
  /\ maxRequests \in Nat \ {0} /\ windowTicks \in Nat \ {0}
  /\ MaxTime \in Nat \ {0} /\ MaxRestarts \in Nat

VARIABLES
  now,      \* the clock
  cache,    \* the counter and when it expires
  limitReq, \* calls in flight, with what they read
  \* History, read by properties only.
  allowed,  \* calls let through in the window that ends at a tick
  lapses,   \* sets that came after another call's, and restarts, in that window
  behind,   \* calls that have read a counter set since
  refusal,  \* when a call was last refused, or 0: the clock starts at 1
  restarts

limitVars == <<now, cache, limitReq, allowed, lapses, behind, refusal, restarts>>

Times == 1..MaxTime
(* The windows the clock is in, by their last ticks *)
Open == {t \in Times : now <= t /\ t < now + windowTicks}
CountIn(windows, f) == [t \in Times |-> IF t \in windows THEN f[t] + 1 ELSE f[t]]
NoCounter == [count |-> 0, expires |-> 0]

(* cacheManager.get *)
current == IF now < cache.expires THEN cache.count ELSE 0

TypeOK ==
  /\ now \in Times
  /\ cache \in [count : 0..maxRequests, expires : 0..MaxTime + windowTicks]
  /\ limitReq \in [Requests -> [pc : {"idle", "set"}, current : 0..maxRequests - 1]]
  /\ allowed \in [Times -> Nat] /\ lapses \in [Times -> Nat]
  /\ behind \subseteq Requests
  /\ refusal \in 0..now /\ restarts \in 0..MaxRestarts

Idle == [pc |-> "idle", current |-> 0]

Init ==
  /\ now = 1
  /\ cache = NoCounter
  /\ limitReq = [r \in Requests |-> Idle]
  /\ allowed = [t \in Times |-> 0] /\ lapses = [t \in Times |-> 0]
  /\ behind = {} /\ refusal = 0 /\ restarts = 0

-----------------------------------------------------------------------------
\* Mutant: the limit itself is still let through.
canActivate_OffByOne(r) ==
  /\ limitReq[r].pc = "idle"
  /\ \/ /\ current > maxRequests
        /\ refusal' = now
        /\ UNCHANGED <<limitReq, behind>>
     \/ /\ current <= maxRequests
        /\ limitReq' = [limitReq EXCEPT ![r] = [pc |-> "set", current |-> current]]
        /\ behind' = behind \ {r}
        /\ UNCHANGED refusal
  /\ UNCHANGED <<now, cache, allowed, lapses, restarts>>

(* canActivate up to its second await: 429 at the limit. *)
canActivate(r) ==
  /\ limitReq[r].pc = "idle"
  /\ \/ /\ current >= maxRequests
        /\ refusal' = now
        /\ UNCHANGED <<limitReq, behind>>
     \/ /\ current < maxRequests
        /\ limitReq' = [limitReq EXCEPT ![r] = [pc |-> "set", current |-> current]]
        /\ behind' = behind \ {r}
        /\ UNCHANGED refusal
  /\ UNCHANGED <<now, cache, allowed, lapses, restarts>>

\* Mutant: the counter is not counted up.
counter_Same(r) == [count |-> limitReq[r].current, expires |-> now + windowTicks]

(* What cacheManager.set stores: a whole window from now on *)
counter(r) == [count |-> limitReq[r].current + 1, expires |-> now + windowTicks]

SetCounter(r) ==
  /\ limitReq[r].pc = "set"
  /\ cache' = counter(r)
  /\ limitReq' = [limitReq EXCEPT ![r] = Idle]
  /\ allowed' = CountIn(Open, allowed)
  /\ lapses' = CountIn(IF r \in behind THEN Open ELSE {}, lapses)
  /\ behind' = (behind \ {r}) \cup {q \in Requests \ {r} : limitReq[q].pc = "set"}
  /\ UNCHANGED <<now, refusal, restarts>>

Tick ==
  /\ now < MaxTime
  /\ now' = now + 1
  /\ UNCHANGED <<cache, limitReq, allowed, lapses, behind, refusal, restarts>>

(* The cache is the process's memory. *)
Restart ==
  /\ restarts < MaxRestarts
  /\ restarts' = restarts + 1
  /\ cache' = NoCounter
  /\ limitReq' = [r \in Requests |-> Idle]
  /\ lapses' = CountIn(Open, lapses)
  /\ behind' = {}
  /\ UNCHANGED <<now, allowed, refusal>>

Next ==
  \/ \E r \in Requests : canActivate(r) \/ SetCounter(r)
  \/ Tick \/ Restart

-----------------------------------------------------------------------------
(***************************************************************************)
(* Properties                                                              *)
(***************************************************************************)

(* No window sees more calls than the limit, times one more for each lapse *)
(* in it: a restart, or a call that set the counter after another call it  *)
(* had not seen.  And nobody is refused who has not been let through       *)
(* within the last window: refused calls do not prolong the refusal.       *)
LimitHolds ==
  /\ \A t \in Times : allowed[t] <= maxRequests * (1 + lapses[t])
  /\ refusal # 0 => allowed[refusal] > 0
=============================================================================
