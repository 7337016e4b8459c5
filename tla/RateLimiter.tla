----------------------------- MODULE RateLimiter -----------------------------
(***************************************************************************)
(* One key of the fixed-window limiter that the gateway and the AI service *)
(* share: MemoryRateLimiter, a bucket in the process, and                  *)
(* UpstashRateLimiter, a Redis counter that every instance counts on with  *)
(* a pipeline of INCR, EXPIRE NX and PTTL.  A pipeline is not a            *)
(* transaction: other callers' commands come in between, one that is cut   *)
(* short leaves its first commands done, and each command may be rejected  *)
(* by itself.  The code does not look at the answer's status: where a      *)
(* result is missing it takes a count of 0, which allows the request, and  *)
(* a whole window for the time left.                                       *)
(*                                                                         *)
(* Time is in ticks, several to a second, because Retry-After is in whole  *)
(* seconds and a window's end is not.                                      *)
(***************************************************************************)
EXTENDS Integers, FiniteSetsExt

CONSTANTS
  LimiterCalls,    \* checks of the key in flight at once
  Limit,           \* hits a window allows
  WindowSeconds,   \* length of a window
  TicksPerSecond,  \* precision of the clock
  LimiterKinds,    \* of {"memory", "shared"}
  MaxTicks,        \* how long the clock runs
  MaxHits          \* checks the key ever gets

ASSUME LimiterAssumption ==
  /\ Limit \in Nat \ {0} /\ WindowSeconds \in Nat \ {0} /\ TicksPerSecond \in Nat \ {0}
  /\ MaxTicks \in Nat /\ MaxHits \in Nat
  /\ LimiterKinds \subseteq {"memory", "shared"}

VARIABLES
  limiterKind,  \* which implementation the configuration picks
  now,          \* the clock
  bucket,       \* [count, expires, window]: the counter, when it expires, and which window it is
  limiterPc,    \* per call: idle, expire, pttl, untimed (its EXPIRE was rejected)
  counted,      \* per call: [count, window] that its INCR gave
  hits,         \* checks so far
  allowedAt,    \* per tick: checks that were allowed
  openAt,       \* per tick: those of them that were because the answer had no count
  refused       \* checks that were refused: [window, retryAt, timed]

limiterVars == <<limiterKind, now, bucket, limiterPc, counted, hits, allowedAt, openAt, refused>>

Window == WindowSeconds * TicksPerSecond
NoExpiry == -1
NoHit == [count |-> 0, window |-> 0]

LimiterInit ==
  /\ limiterKind \in LimiterKinds
  /\ now = 0
  /\ bucket = [count |-> 0, expires |-> NoExpiry, window |-> 0]
  /\ limiterPc = [c \in LimiterCalls |-> "idle"]
  /\ counted = [c \in LimiterCalls |-> NoHit]
  /\ hits = 0
  /\ allowedAt = [t \in 0..MaxTicks |-> 0]
  /\ openAt = [t \in 0..MaxTicks |-> 0]
  /\ refused = {}

\* The bucket is there: an expired one is evicted on access.
Current == bucket.count > 0 /\ (bucket.expires = NoExpiry \/ bucket.expires > now)

SecondsUp(ticks) == (ticks + TicksPerSecond - 1) \div TicksPerSecond

\* The answer's Retry-After, for the time that the window has left, as a tick.
RetryAt(left) == now + TicksPerSecond * Max({1, IF left > 0 THEN SecondsUp(left) ELSE WindowSeconds})

\* mutant: one hit too many.
WithinLimitOrNext(count) == count <= Limit + 1

WithinLimit(count) == count <= Limit

\* A hit that makes the count n in window w: it is allowed, or told to come back at
\* retryAt.
Allow(n) == allowedAt' = IF WithinLimit(n) THEN [allowedAt EXCEPT ![now] = @ + 1] ELSE allowedAt
Refuse(n, w, retryAt, timed) ==
  refused' = IF WithinLimit(n) THEN refused
             ELSE refused \union {[window |-> w, retryAt |-> retryAt, timed |-> timed]}

\* An answer without a count stands for a count of 0.
AllowUncounted ==
  /\ Allow(0)
  /\ openAt' = [openAt EXCEPT ![now] = @ + 1]

EndCheck(c) ==
  /\ limiterPc' = [limiterPc EXCEPT ![c] = "idle"]
  /\ counted' = [counted EXCEPT ![c] = NoHit]

-----------------------------------------------------------------------------
Tick ==
  /\ now < MaxTicks
  /\ now' = now + 1
  /\ UNCHANGED <<limiterKind, bucket, limiterPc, counted, hits, allowedAt, openAt, refused>>

\* MemoryRateLimiter.check: no await, so one step.
MemoryCheck ==
  /\ limiterKind = "memory" /\ hits < MaxHits
  /\ hits' = hits + 1
  /\ LET next == IF Current THEN [bucket EXCEPT !.count = @ + 1]
                 ELSE [count |-> 1, expires |-> now + Window, window |-> bucket.window + 1]
     IN  /\ bucket' = next
         /\ Allow(next.count)
         /\ Refuse(next.count, next.window, RetryAt(next.expires - now), TRUE)
  /\ UNCHANGED <<limiterKind, now, limiterPc, counted, openAt>>

(* UpstashRateLimiter.check *)

\* INCR: a counter that does not exist starts at 1 and never expires.
Incr(c) ==
  /\ limiterKind = "shared" /\ limiterPc[c] = "idle" /\ hits < MaxHits
  /\ hits' = hits + 1
  /\ LET next == IF Current THEN [bucket EXCEPT !.count = @ + 1]
                 ELSE [count |-> 1, expires |-> NoExpiry, window |-> bucket.window + 1]
     IN  /\ bucket' = next
         /\ counted' = [counted EXCEPT ![c] = [count |-> next.count, window |-> next.window]]
         /\ Allow(next.count)
  /\ limiterPc' = [limiterPc EXCEPT ![c] = "expire"]
  /\ UNCHANGED <<limiterKind, now, openAt, refused>>

\* INCR is rejected; the commands behind it are carried out all the same.
IncrRejected(c) ==
  /\ limiterKind = "shared" /\ limiterPc[c] = "idle" /\ hits < MaxHits
  /\ hits' = hits + 1
  /\ AllowUncounted
  /\ limiterPc' = [limiterPc EXCEPT ![c] = "expire"]
  /\ UNCHANGED <<limiterKind, now, bucket, counted, refused>>

\* mutant: EXPIRE without NX, so every hit puts the end of the window off.
ExpireAlways(c) ==
  /\ limiterPc[c] = "expire"
  /\ bucket' = IF Current THEN [bucket EXCEPT !.expires = now + Window] ELSE bucket
  /\ limiterPc' = [limiterPc EXCEPT ![c] = "pttl"]
  /\ UNCHANGED <<limiterKind, now, counted, hits, allowedAt, openAt, refused>>

\* EXPIRE NX: on a counter that has no expiry yet.
Expire(c) ==
  /\ limiterPc[c] = "expire"
  /\ bucket' = IF Current /\ bucket.expires = NoExpiry THEN [bucket EXCEPT !.expires = now + Window] ELSE bucket
  /\ limiterPc' = [limiterPc EXCEPT ![c] = "pttl"]
  /\ UNCHANGED <<limiterKind, now, counted, hits, allowedAt, openAt, refused>>

ExpireRejected(c) ==
  /\ limiterPc[c] = "expire"
  /\ limiterPc' = [limiterPc EXCEPT ![c] = "untimed"]
  /\ UNCHANGED <<limiterKind, now, bucket, counted, hits, allowedAt, openAt, refused>>

\* The answer, for the time that the window has left.
Answer(c, left) ==
  /\ limiterPc[c] \in {"pttl", "untimed"}
  /\ Refuse(counted[c].count, counted[c].window, RetryAt(left), limiterPc[c] = "pttl")
  /\ EndCheck(c)
  /\ UNCHANGED <<limiterKind, now, bucket, hits, allowedAt, openAt>>

\* PTTL, -2 without a counter and -1 without an expiry.
Pttl(c) == Answer(c, IF Current /\ bucket.expires # NoExpiry THEN bucket.expires - now ELSE 0)

PttlRejected(c) == Answer(c, Window)

\* The connection breaks between two commands, or the answer is no JSON; the request
\* ends with an error.
PipelineCut(c) ==
  /\ limiterPc[c] # "idle"
  /\ EndCheck(c)
  /\ UNCHANGED <<limiterKind, now, bucket, hits, allowedAt, openAt, refused>>

\* The answer is an error and no results, though INCR has counted the hit, and
\* counted it out.
AnswerIsError(c) ==
  /\ limiterPc[c] # "idle" /\ ~WithinLimit(counted[c].count)
  /\ AllowUncounted
  /\ EndCheck(c)
  /\ UNCHANGED <<limiterKind, now, bucket, hits, refused>>

LimiterNext ==
  \/ Tick
  \/ MemoryCheck
  \/ \E c \in LimiterCalls :
       \/ Incr(c) \/ IncrRejected(c)
       \/ Expire(c) \/ ExpireRejected(c)
       \/ Pttl(c) \/ PttlRejected(c)
       \/ PipelineCut(c) \/ AnswerIsError(c)

LimiterSpec == LimiterInit /\ [][LimiterNext]_limiterVars

-----------------------------------------------------------------------------
LimiterTypeOK ==
  /\ limiterKind \in LimiterKinds
  /\ now \in 0..MaxTicks
  /\ bucket.count \in 0..MaxHits /\ bucket.window \in 0..MaxHits
  /\ bucket.expires \in {NoExpiry} \union 0..MaxTicks + Window
  /\ limiterPc \in [LimiterCalls -> {"idle", "expire", "pttl", "untimed"}]
  /\ hits \in 0..MaxHits
  /\ allowedAt \in [0..MaxTicks -> Nat] /\ openAt \in [0..MaxTicks -> Nat]

Stretch(t) == t..Min({t + Window - 1, MaxTicks})
InStretch(at, t) == MapThenSumSet(LAMBDA i : at[i], Stretch(t))

\* In any stretch of time as long as a window, no more than two windows' worth of
\* hits is allowed, wherever the windows begin and whoever's commands come between,
\* but for those that are let through because the answer had no count.
RateBounded ==
  \A t \in 0..MaxTicks : InStretch(allowedAt, t) <= 2 * Limit + InStretch(openAt, t)

\* A caller that waits as long as Retry-After says finds the window it was refused
\* in over, however many other callers keep hitting the key meanwhile, unless its
\* own EXPIRE was rejected.
RetryAfterIsEnough ==
  \A r \in refused :
    r.timed /\ now >= r.retryAt => ~(Current /\ bucket.window = r.window)
=============================================================================
