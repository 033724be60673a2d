---------------------------- MODULE RateLimiter ----------------------------
(***************************************************************************)
(* rateLimit of index.tsx: one row of rate_limits per key, counted in a     *)
(* fixed window by a single upsert, and deleted when a login or a second    *)
(* factor succeeds.  The keys (login:acct, login:ip, 2fa:user, 2fa:ip,      *)
(* signup, forgot) differ in nothing but their limit and window.            *)
(*                                                                         *)
(* stamps[k] is history: when each attempt on k was let through since the   *)
(* row was last deleted.                                                    *)
(***************************************************************************)
EXTENDS Naturals, Sequences

CONSTANTS
  Key,          \* keys of rate_limits
  Limit,        \* attempts a window lets through (10 for an account)
  Window,       \* length of a window in seconds (900 for an account)
  MaxAttempts,  \* bound: attempts counted in one window
  MaxClock,     \* bound: seconds
  NoRow         \* no row for the key

ASSUME LimiterConstantsOK ==
  /\ Limit \in Nat \ {0} /\ Window \in Nat \ {0}
  /\ MaxAttempts \in Nat /\ MaxClock \in Nat
  /\ NoRow \notin [count : Nat, resetAt : Nat]

VARIABLES
  clock,    \* Date.now() in seconds
  limits,   \* rows of rate_limits
  stamps    \* history, see above

rateVars == <<clock, limits, stamps>>

Bucket == [count : Nat, resetAt : Nat]

RateTypeOK ==
  /\ clock \in Nat
  /\ limits \in [Key -> Bucket \cup {NoRow}]
  /\ stamps \in [Key -> Seq(Nat)]

RateInit ==
  /\ clock = 0
  /\ limits = [k \in Key |-> NoRow]
  /\ stamps = [k \in Key |-> << >>]

\* The row the upsert leaves and RETURNING reports.
SlidCount(k) ==
  IF limits[k] = NoRow THEN [count |-> 1, resetAt |-> clock + Window]
  ELSE [count |-> limits[k].count + 1, resetAt |-> clock + Window]

FreeFirst(k) ==
  IF limits[k] = NoRow \/ clock >= limits[k].resetAt
  THEN [count |-> 0, resetAt |-> clock + Window]
  ELSE [limits[k] EXCEPT !.count = @ + 1]

Counted(k) ==
  IF limits[k] = NoRow \/ clock >= limits[k].resetAt
  THEN [count |-> 1, resetAt |-> clock + Window]
  ELSE [limits[k] EXCEPT !.count = @ + 1]

\* await rateLimit(...): counts every attempt, lets through those within the limit
Attempt(k) ==
  /\ limits[k] # NoRow => limits[k].count < MaxAttempts
  /\ limits' = [limits EXCEPT ![k] = Counted(k)]
  /\ stamps' = IF Counted(k).count > Limit THEN stamps
               ELSE [stamps EXCEPT ![k] = Append(@, clock)]
  /\ UNCHANGED clock

\* DELETE FROM rate_limits, after a password or a one-time code was right
Succeed(k) ==
  /\ limits' = [limits EXCEPT ![k] = NoRow]
  /\ stamps' = [stamps EXCEPT ![k] = << >>]
  /\ UNCHANGED clock

TickClock ==
  /\ clock < MaxClock
  /\ clock' = clock + 1
  /\ UNCHANGED <<limits, stamps>>

RateNext ==
  \/ \E k \in Key : Attempt(k) \/ Succeed(k)
  \/ TickClock

RateSpec == RateInit /\ [][RateNext]_rateVars

-----------------------------------------------------------------------------
(* Between two successes, any 2 * Limit + 1 consecutive attempts that were  *)
(* let through span at least a window: a fixed window may let twice its     *)
(* limit pass around its boundary, and never more.                          *)
AttemptsSpread ==
  \A k \in Key : \A i \in 1..Len(stamps[k]) :
    i + 2 * Limit \in 1..Len(stamps[k])
      => stamps[k][i + 2 * Limit] >= stamps[k][i] + Window

\* The next attempt on k would be refused.
Blocked(k) ==
  /\ limits[k] # NoRow
  /\ limits[k].count >= Limit
  /\ clock < limits[k].resetAt

(* Nobody is refused who has not used up the limit within the last window;  *)
(* in particular attempts made while refused do not prolong the refusal.    *)
RefusalEarned ==
  \A k \in Key : Blocked(k) =>
    /\ Len(stamps[k]) >= Limit
    /\ clock < stamps[k][Len(stamps[k]) - Limit + 1] + Window
=============================================================================
