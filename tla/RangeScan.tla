------------------------------ MODULE RangeScan ------------------------------
(***************************************************************************)
(* The sentinel's log walk: getLogsChunked of agent/scripts/sentinel-run   *)
(* .mjs over planWindows and withRateLimitRetry of agent/lib/rangeScan.mjs *)
(* An inclusive range is cut in windows of at most MaxRange blocks, the    *)
(* windows are fetched one after another, and a call the provider throttles*)
(* is repeated with a doubling pause until its attempts are used up.  Any  *)
(* other error ends the walk.                                              *)
(*                                                                         *)
(* The windows are planned before the first call in the code; planning     *)
(* reads nothing but the range, so the model advances the loop variable    *)
(* `start' of planWindows as the windows are fetched.  A block's logs are  *)
(* represented by the block number, so `fetched' is the array `logs'.      *)
(***************************************************************************)
EXTENDS Integers

CONSTANTS
    MaxRange,        \* MAX_LOG_RANGE: blocks per window
    ProviderRange,   \* the widest eth_getLogs the provider accepts
    Attempts,        \* calls withRateLimitRetry makes before it gives up
    BaseDelay,       \* its first pause
    MaxBlock         \* highest block of the chain (bound of the model)

ASSUME RangeAssumption ==
    /\ MaxRange \in Nat \ {0}
    /\ ProviderRange \in Nat \ {0}
    /\ Attempts \in Nat \ {0}
    /\ BaseDelay \in Nat \ {0}
    /\ MaxBlock \in Nat \ {0}

VARIABLES
    pc,              \* "idle" | "call" | "backoff" | "pause" | "done" | "failed"
    from, to,        \* the range being walked
    start,           \* first block of the current window
    attempt,         \* throttled calls made for the current window
    waited,          \* pauses taken for the current window, added up
    fetched          \* blocks whose logs have been collected

vars == <<pc, from, to, start, attempt, waited, fetched>>

Smaller(a, b) == IF a < b THEN a ELSE b

\* Mutant: both ends of a window counted once too few.
WindowEndOverlapping(s) == Smaller(s + MaxRange, to)

\* The last block of the window that starts at s.
WindowEnd(s) == Smaller(s + MaxRange - 1, to)

Width(s) == WindowEnd(s) - s + 1

\* The pause before the next call for a window throttled n times before.
Backoff(n) == BaseDelay * 2^n

Init ==
    /\ pc = "idle"
    /\ from = 1 /\ to = 0 /\ start = 1
    /\ attempt = 0 /\ waited = 0
    /\ fetched = {}

\* getLogsChunked is called with f..t: an empty plan makes no call at all.
Begin(f, t) ==
    /\ pc = "idle"
    /\ pc' = IF f > t THEN "done" ELSE "call"
    /\ from' = f /\ to' = t /\ start' = f
    /\ UNCHANGED <<attempt, waited, fetched>>

HasNextWindow == start + MaxRange <= to

\* The provider answers: the logs are kept, and the walk pauses before the
\* next window, if there is one.
CallAnswered ==
    /\ pc = "call"
    /\ Width(start) <= ProviderRange
    /\ fetched' = fetched \union (start..WindowEnd(start))
    /\ pc' = IF HasNextWindow THEN "pause" ELSE "done"
    /\ UNCHANGED <<from, to, start, attempt, waited>>

\* WINDOW_DELAY_MS has passed: the next window starts with fresh attempts.
NextWindow ==
    /\ pc = "pause"
    /\ start' = start + MaxRange
    /\ attempt' = 0 /\ waited' = 0
    /\ pc' = "call"
    /\ UNCHANGED <<from, to, fetched>>

\* Mutant: one retry too many.
MayRetryOnce == attempt < Attempts

\* -32016: worth retrying, unless this was the last attempt.
MayRetry == attempt < Attempts - 1

\* Mutant: a window that stays throttled is given up and the rest returned.
CallThrottledShort ==
    /\ pc = "call"
    /\ pc' = IF MayRetry THEN "backoff" ELSE "done"
    /\ UNCHANGED <<from, to, start, attempt, waited, fetched>>

CallThrottled ==
    /\ pc = "call"
    /\ pc' = IF MayRetry THEN "backoff" ELSE "failed"
    /\ UNCHANGED <<from, to, start, attempt, waited, fetched>>

BackoffOver ==
    /\ pc = "backoff"
    /\ waited' = waited + Backoff(attempt)
    /\ attempt' = attempt + 1
    /\ pc' = "call"
    /\ UNCHANGED <<from, to, start, fetched>>

\* Any other error (-32614 on a range too wide, a network failure, a bug) is
\* rethrown at once.
CallFailed ==
    /\ pc = "call"
    /\ pc' = "failed"
    /\ UNCHANGED <<from, to, start, attempt, waited, fetched>>

Next ==
    \/ \E f \in 1..MaxBlock, t \in 0..MaxBlock : Begin(f, t)
    \/ CallAnswered
    \/ NextWindow
    \/ CallThrottled
    \/ BackoffOver
    \/ CallFailed

\* A call to the provider settles (http transports time out) and a timer
\* fires.  Nothing says how a call settles, nor that a walk is ever begun.
Fairness ==
    /\ WF_vars(CallAnswered \/ CallThrottled \/ CallFailed)
    /\ WF_vars(NextWindow)
    /\ WF_vars(BackoffOver)

SafeSpec == Init /\ [][Next]_vars
Spec == SafeSpec /\ Fairness

-----------------------------------------------------------------------------

TypeOK ==
    /\ pc \in {"idle", "call", "backoff", "pause", "done", "failed"}
    /\ from \in 1..MaxBlock
    /\ to \in 0..MaxBlock
    /\ start \in from..(from + MaxBlock)
    /\ attempt \in 0..(Attempts - 1)
    /\ waited \in Nat
    /\ fetched \subseteq 1..MaxBlock

\* What a walk has collected is a gapless prefix of its range, complete when
\* it ends: no block between two windows is skipped and none beyond the range
\* is read, whatever MAX_LOG_RANGE is (planWindows, rangeScan.mjs:28-33).
PrefixFetched ==
    /\ pc \in {"idle", "call", "backoff"} => fetched = from..(start - 1)
    /\ pc = "pause" => fetched = from..(start + MaxRange - 1)
    /\ pc = "done"  => fetched = from..to

\* A block's logs are collected once, so a log cannot reach the caller twice
\* (logs.push in getLogsChunked): a step collects only new blocks, and no
\* more of them than the window allows.
EachBlockOnce ==
    [][ fetched' # fetched =>
          /\ (start..WindowEnd(start)) \cap fetched = {}
          /\ WindowEnd(start) - start < MaxRange ]_vars

\* The pauses of a window never add up to more than the doubling schedule
\* allows, and the last attempt is not followed by one (rangeScan.mjs:51-58).
BackoffBounded == waited < BaseDelay * 2^(Attempts - 1)

\* The walk is the all-or-nothing read the sentinel relies on.
ReadPhase == IF pc = "done" THEN "answered"
             ELSE IF pc \in {"idle", "failed"} THEN pc ELSE "asked"

Reading == INSTANCE LogRead WITH
    phase <- ReadPhase,
    got   <- IF pc = "done" THEN fetched ELSE {}

\* Every walk is a walk of the abstract reader, and ends as that one must.
ImplementsLogRead == Reading!Spec
=============================================================================
