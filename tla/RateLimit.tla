----------------------------- MODULE RateLimit -----------------------------
(***************************************************************************)
(* The fixed-window limiter of agent/lib/rateLimit.mjs, which app.mjs puts *)
(* before /auth/nonce and /auth/verify: one budget for both.  The clock    *)
(* counts ticks shorter than a second, the unit of Retry-After.            *)
(***************************************************************************)
EXTENDS Integers, FiniteSets

CONSTANTS
    Clients,         \* keys, as clientKey names them
    Limit,           \* calls a client may make in a window
    Window,          \* windowMs, in ticks
    Second,          \* ticks per second
    MaxTicks,        \* last instant of the clock (bound of the model)
    MaxCount         \* calls counted per client and window (bound of the model)

ASSUME LimitAssumption ==
    /\ Limit \in Nat \ {0}
    /\ Window \in Nat \ {0}
    /\ Second \in Nat \ {0}
    /\ MaxTicks \in Nat /\ MaxCount \in Nat

VARIABLES
    tick,            \* the time
    windows,         \* the map: windows[k].count is 0 for a key not in it
    passes,          \* the calls let through: of whom, when, the how many-th then (ghost)
    told             \* told[k]: when k, refused, was told to come back (ghost)

limitVars == <<tick, windows, passes, told>>

Absent == [window |-> 0, count |-> 0]
Untold == -1
Later(a, b) == IF a > b THEN a ELSE b

LimitInit ==
    /\ tick = 0
    /\ windows = [k \in Clients |-> Absent]
    /\ passes = {}
    /\ told = [k \in Clients |-> Untold]

\* How many calls of k were let through from s to t.
Passed(k, s, t) == Cardinality({p \in passes : p.client = k /\ p.at \in s..t})

Current == tick \div Window

\* Mutant: the entries of past windows are left in the map.
SweptNothing == windows

\* sweep: the entries of past windows are dropped.
Swept == [k \in Clients |-> IF windows[k].window < Current THEN Absent ELSE windows[k]]

\* Mutant: the limit is reached one call late.
WithinLimitLate(count) == count <= Limit + 1

WithinLimit(count) == count <= Limit

\* Mutant: the seconds are rounded down.
RetryAfterFloor == Later(1, ((Current + 1) * Window - tick) \div Second)

\* retryAfterSeconds: what is left of the window, in whole seconds, at least 1.
RetryAfter == Later(1, ((Current + 1) * Window - tick + Second - 1) \div Second)

\* hit: sweep, count the call, and let it through or say when to come back.
Hit(k) ==
    LET count == Swept[k].count + 1
    IN  /\ count <= MaxCount
        /\ windows' = [Swept EXCEPT ![k] = [window |-> Current, count |-> count]]
        /\ IF WithinLimit(count)
           THEN /\ passes' = passes \cup
                     {[client |-> k, at |-> tick, nth |-> Passed(k, tick, tick) + 1]}
                /\ told' = [told EXCEPT ![k] = Untold]
           ELSE /\ told' = [told EXCEPT ![k] = tick + RetryAfter * Second]
                /\ UNCHANGED passes
        /\ UNCHANGED tick

TickOn ==
    /\ tick < MaxTicks
    /\ tick' = tick + 1
    /\ UNCHANGED <<windows, passes, told>>

LimitNext == TickOn \/ \E k \in Clients : Hit(k)

LimitSpec == LimitInit /\ [][LimitNext]_limitVars

-----------------------------------------------------------------------------

LimitTypeOK ==
    /\ tick \in 0..MaxTicks
    /\ windows \in [Clients -> [window : Nat, count : Nat]]
    /\ passes \subseteq [client : Clients, at : 0..MaxTicks, nth : Nat]
    /\ told \in [Clients -> Nat \cup {Untold}]

\* No span as long as a window lets more than twice the limit through, not
\* even one that lies across a window's edge (rateLimit.mjs:28-43).
AtMostTwiceTheLimit ==
    \A k \in Clients, s \in 0..MaxTicks : Passed(k, s, s + Window - 1) <= 2 * Limit

\* The map holds the clients of one window only, so it cannot grow with
\* the clients there ever were (rateLimit.mjs:16-20).
OneWindowKept ==
    \A j, k \in Clients : windows[j].count > 0 /\ windows[k].count > 0
                             => windows[j].window = windows[k].window

\* A client that comes back when it was told to, or later, is not refused:
\* Retry-After is never too short by rounding (rateLimit.mjs:40-41).
ToldWaitSuffices ==
    [][\A k \in Clients : told'[k] # told[k] /\ told'[k] # Untold /\ told[k] # Untold
                             => tick < told[k]]_limitVars
=============================================================================
