----------------------------- MODULE RateLimit -----------------------------
(***************************************************************************)
(* The token bucket of the three rate limiters (rate_limiter.rs of         *)
(* af-web-gateway, af-re-vt and af-email).  The code refills a bucket when *)
(* it is used; here it is refilled as time passes, which is the same: the  *)
(* intervals that have gone by are counted either way, and what is left of *)
(* the last one is kept, of a full bucket's too.                           *)
(***************************************************************************)
EXTENDS Integers, FiniteSetsExt

CONSTANT Minute  \* length of a minute, in units of time

ASSUME RateLimitConstants == Minute \in Nat \ {0}

Capacity(rpm) == Max({rpm, 1})
PerToken(rpm) == Minute \div Capacity(rpm)
FullBucket(rpm) == [tokens |-> Capacity(rpm), since |-> 0]

Refilled(bucket, rpm) ==
  [tokens |-> Min({Capacity(rpm), bucket.tokens + bucket.since \div PerToken(rpm)}),
   since  |-> bucket.since % PerToken(rpm)]

Aged(bucket, rpm) == Refilled([bucket EXCEPT !.since = @ + 1], rpm)
Spent(bucket)     == [bucket EXCEPT !.tokens = @ - 1]
=============================================================================
