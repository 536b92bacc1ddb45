---------------------------- MODULE RateLimiter ----------------------------
(***************************************************************************)
(* The sliding-window limiter of the authentication endpoints:             *)
(*                                                                         *)
(*   backend/app/core/ratelimit.py  SlidingWindowLimiter.check             *)
(*   backend/app/api/deps.py        enforce_rate_limit                     *)
(*                                                                         *)
(* check holds a lock, so a call is one step.  Clients share the table,    *)
(* not their keys (scope and address).  A second is several ticks of the    *)
(* clock: the wait a refusal advises is rounded up to whole seconds.       *)
(***************************************************************************)
EXTENDS Integers, Sequences, FiniteSets

CONSTANTS
  NULL,
  Keys,      \* scope:address
  Limit,     \* calls allowed per window
  Window,    \* window_seconds, in ticks
  Second,    \* ticks per second
  MaxTime    \* bound: the clock

LimiterAssumption ==
  {Limit, Window, Second} \subseteq Nat \ {0} /\ MaxTime \in Nat /\ NULL \notin Nat

VARIABLES
  now,      \* the monotonic clock
  hits,     \* _hits[k]: instants of the calls in the window, oldest first
  allowed,  \* history: allowed[k], the instants of all calls let through
  advice    \* advice[k]: until when the last refusal told the caller to wait

vars == <<now, hits, allowed, advice>>

Init ==
  /\ now = 0
  /\ hits = [k \in Keys |-> <<>>]
  /\ allowed = [k \in Keys |-> <<>>]
  /\ advice = [k \in Keys |-> NULL]

Tick ==
  /\ now < MaxTime
  /\ now' = now + 1
  /\ UNCHANGED <<hits, allowed, advice>>

\* How many hits at the left are at or before the cutoff.
Expired(w, cutoff) ==
  CHOOSE d \in 0 .. Len(w) :
    /\ \A i \in 1 .. d : w[i] <= cutoff
    /\ d < Len(w) => w[d + 1] > cutoff

\* Hits at or before the cutoff are dropped from the left.
InWindow(w) == SubSeq(w, Expired(w, now - Window) + 1, Len(w))

\* Mutant: the wait is rounded down.
RetryAfterRoundedDown(w) ==
  LET whole == (w[1] + Window - now) \div Second IN IF whole > 1 THEN whole ELSE 1

\* retry_after_seconds: whole seconds, at least one, until the oldest hit has left the window.
RetryAfter(w) ==
  LET whole == (w[1] + Window - now + Second - 1) \div Second IN IF whole > 1 THEN whole ELSE 1

\* check
Check(k) ==
  LET w == InWindow(hits[k])
  IN \/ /\ Len(w) >= Limit
        /\ hits' = [hits EXCEPT ![k] = w]
        /\ advice' = [advice EXCEPT ![k] = now + RetryAfter(w) * Second]
        /\ UNCHANGED <<now, allowed>>
     \/ /\ Len(w) < Limit
        /\ hits' = [hits EXCEPT ![k] = Append(w, now)]
        /\ allowed' = [allowed EXCEPT ![k] = Append(@, now)]
        /\ advice' = [advice EXCEPT ![k] = NULL]
        /\ UNCHANGED now

\* reset: the table of one key is dropped; an operation for tests and operators.
Reset(k) ==
  /\ hits[k] # <<>>
  /\ hits' = [hits EXCEPT ![k] = <<>>]
  /\ allowed' = [allowed EXCEPT ![k] = <<>>]
  /\ advice' = [advice EXCEPT ![k] = NULL]
  /\ UNCHANGED now

Next == Tick \/ \E k \in Keys : Check(k) \/ Reset(k)

Spec == Init /\ [][Next]_vars

----------------------------------------------------------------------------
(* Properties. *)

\* No window of the given length, wherever it begins, lets through more calls
\* of a key than the limit.
NeverOverLimit ==
  \A k \in Keys, t \in 0 .. MaxTime :
    Cardinality({i \in DOMAIN allowed[k] : allowed[k][i] \in t .. (t + Window - 1)}) <= Limit

\* A caller that waits as long as the refusal said is let through.
AdviceIsEnough ==
  \A k \in Keys : advice[k] # NULL /\ now >= advice[k] => Len(InWindow(hits[k])) < Limit

\* A caller that comes back a second earlier is refused: the advice is not longer than needed.
AdviceIsNeeded ==
  \A k \in Keys : advice[k] # NULL /\ now + Second <= advice[k] => Len(InWindow(hits[k])) >= Limit

LimiterIsExact == NeverOverLimit /\ AdviceIsEnough /\ AdviceIsNeeded
=============================================================================
