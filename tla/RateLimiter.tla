---------------------------- MODULE RateLimiter ----------------------------
(***************************************************************************)
(* internal/auth/auth.go, RateLimiter: what S remembers of the failed      *)
(* handshakes of one peer address.  Times are ticks of a clock that starts *)
(* at 1, so that 0 is the zero time.Time; a missing map entry is NoAttempt.*)
(***************************************************************************)
EXTENDS Integers

CONSTANTS FailLimit,   \* failures that block an address, 5 in the code
          Window,      \* how long failures count together, 1 minute
          BlockFor     \* how long an address is blocked, 30 seconds

ASSUME RateLimiterAssumption ==
  FailLimit \in Nat \ {0} /\ Window \in Nat \ {0} /\ BlockFor \in Nat \ {0}

Attempt == [count : Nat, windowStart : Nat, blockedTill : Nat]
NoAttempt == [count |-> 0, windowStart |-> 0, blockedTill |-> 0]

windowOver(a, now) == a.windowStart = 0 \/ now - a.windowStart > Window

\* Allowed answers ErrRateLimited, and changes nothing.
Blocked(a, now) == now < a.blockedTill

\* Allowed answers nil, and forgets failures of an old window.
Allowed(a, now) == IF windowOver(a, now) THEN NoAttempt ELSE a

\* Fail: the first failure of a window forgets the block of the last one.
openWindow(a, now) ==
  IF windowOver(a, now) THEN [count |-> 0, windowStart |-> now, blockedTill |-> 0] ELSE a
tooMany(count) == count > FailLimit
reached(count) == count >= FailLimit
Fail(a, now) ==
  LET w == openWindow(a, now)
  IN  [count |-> w.count + 1,
       windowStart |-> w.windowStart,
       blockedTill |-> IF reached(w.count + 1) THEN now + BlockFor ELSE w.blockedTill]

\* Success deletes the entry.
Success == NoAttempt
=============================================================================
