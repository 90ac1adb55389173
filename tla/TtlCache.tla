------------------------------ MODULE TtlCache ------------------------------
(***************************************************************************)
(* The single-flight TTL cache of agent/lib/cache.mjs, which app.mjs puts  *)
(* before each Blockscout walk: concurrent requests on a cold or expired   *)
(* cache share one walk, its result serves for TTL after the walk ended,   *)
(* and a failed walk is forgotten.                                         *)
(*                                                                         *)
(* A value is the walk that produced it.  A walk takes several awaits, so  *)
(* time passes and other callers come while it runs.                       *)
(***************************************************************************)
EXTENDS Naturals, FiniteSets

CONSTANTS
    Callers,        \* requests that read through the cache
    TTL,            \* ttlMs
    MaxTime,        \* last instant of the clock (bound of the model)
    MaxWalks        \* walks started (bound of the model)

ASSUME CacheAssumption ==
    /\ TTL \in Nat \ {0}
    /\ MaxTime \in Nat
    /\ MaxWalks \in Nat \ {0}

VARIABLES
    now,
    walks,          \* [1..MaxWalks -> what became of each upstream walk]
    entry,          \* the walk whose value is cached, 0 if none
    expiresAt,      \* until when it may be served
    inFlight,       \* the walk later callers join, 0 if none
    callers         \* [Callers -> the call to get and its outcome]

vars == <<now, walks, entry, expiresAt, inFlight, callers>>

Walks == 1..MaxWalks
Unstarted == [status |-> "unstarted", ended |-> 0]
Idle == [pc |-> "idle", asked |-> 0, walk |-> 0]

Init ==
    /\ now = 0
    /\ walks = [w \in Walks |-> Unstarted]
    /\ entry = 0 /\ expiresAt = 0
    /\ inFlight = 0
    /\ callers = [c \in Callers |-> Idle]

Tick ==
    /\ now < MaxTime
    /\ now' = now + 1
    /\ UNCHANGED <<walks, entry, expiresAt, inFlight, callers>>

\* Mutant: the entry is served at the instant it expires.
FreshAtExpiry == entry # 0 /\ expiresAt >= now

Fresh == entry # 0 /\ expiresAt > now

\* get: the entry while it is fresh ...
Hit(c) ==
    /\ callers[c].pc = "idle"
    /\ Fresh
    /\ callers' = [callers EXCEPT ![c] = [pc |-> "value", asked |-> now, walk |-> entry]]
    /\ UNCHANGED <<now, walks, entry, expiresAt, inFlight>>

\* ... else the promise of the walk in flight, which would hold its outcome
\* already if the walk were over ...
Outcome(w) == CASE walks[w].status = "ok"     -> "value"
                [] walks[w].status = "failed" -> "error"
                [] OTHER                      -> "waiting"

Join(c) ==
    /\ callers[c].pc = "idle"
    /\ ~Fresh /\ inFlight # 0
    /\ callers' = [callers EXCEPT ![c] =
          [pc |-> Outcome(inFlight), asked |-> now, walk |-> inFlight]]
    /\ UNCHANGED <<now, walks, entry, expiresAt, inFlight>>

\* Mutant: a walk in flight is not looked for.
ProduceAnyway(c) ==
    /\ callers[c].pc = "idle"
    /\ ~Fresh
    /\ \E w \in Walks :
         /\ walks[w].status = "unstarted"
         /\ \A v \in 1..(w - 1) : walks[v].status # "unstarted"
         /\ walks' = [walks EXCEPT ![w].status = "running"]
         /\ inFlight' = w
         /\ callers' = [callers EXCEPT ![c] = [pc |-> "waiting", asked |-> now, walk |-> w]]
    /\ UNCHANGED <<now, entry, expiresAt>>

\* ... else a walk of its own.
Produce(c) ==
    /\ callers[c].pc = "idle"
    /\ ~Fresh /\ inFlight = 0
    /\ \E w \in Walks :
         /\ walks[w].status = "unstarted"
         /\ \A v \in 1..(w - 1) : walks[v].status # "unstarted"
         /\ walks' = [walks EXCEPT ![w].status = "running"]
         /\ inFlight' = w
         /\ callers' = [callers EXCEPT ![c] = [pc |-> "waiting", asked |-> now, walk |-> w]]
    /\ UNCHANGED <<now, entry, expiresAt>>

\* The promise of walk w settles, for everyone who waits on it.
SettleWaiters(w, outcome) ==
    callers' = [c \in Callers |->
        IF callers[c].pc = "waiting" /\ callers[c].walk = w
        THEN [callers[c] EXCEPT !.pc = outcome] ELSE callers[c]]

\* A walk succeeds: its value is cached, for TTL from now.
WalkSucceeds(w) ==
    /\ walks[w].status = "running"
    /\ walks' = [walks EXCEPT ![w] = [status |-> "ok", ended |-> now]]
    /\ entry' = w /\ expiresAt' = now + TTL
    /\ inFlight' = 0
    /\ SettleWaiters(w, "value")
    /\ UNCHANGED now

\* Mutant: the failed promise stays in flight.
WalkFailsKept(w) ==
    /\ walks[w].status = "running"
    /\ walks' = [walks EXCEPT ![w] = [status |-> "failed", ended |-> now]]
    /\ SettleWaiters(w, "error")
    /\ UNCHANGED <<now, entry, expiresAt, inFlight>>

\* Mutant: a failure is cleared and not passed on.
WalkFailsSilently(w) ==
    /\ walks[w].status = "running"
    /\ walks' = [walks EXCEPT ![w] = [status |-> "failed", ended |-> now]]
    /\ inFlight' = 0
    /\ UNCHANGED <<now, entry, expiresAt, callers>>

\* A walk fails (a page answered an error, or timed out): whoever shares it gets
\* the error, the next caller starts afresh, and the entry stays as it was.
WalkFails(w) ==
    /\ walks[w].status = "running"
    /\ walks' = [walks EXCEPT ![w] = [status |-> "failed", ended |-> now]]
    /\ inFlight' = 0
    /\ SettleWaiters(w, "error")
    /\ UNCHANGED <<now, entry, expiresAt>>

\* invalidate forgets the entry; it leaves a walk in flight alone.
Invalidate ==
    /\ entry' = 0
    /\ UNCHANGED <<now, walks, expiresAt, inFlight, callers>>

\* The caller is served and a later request takes its place.
Leave(c) ==
    /\ callers[c].pc \in {"value", "error"}
    /\ callers' = [callers EXCEPT ![c] = Idle]
    /\ UNCHANGED <<now, walks, entry, expiresAt, inFlight>>

Next ==
    \/ Tick
    \/ \E c \in Callers : Hit(c) \/ Join(c) \/ Produce(c) \/ Leave(c)
    \/ \E w \in Walks : WalkSucceeds(w) \/ WalkFails(w)
    \/ Invalidate

\* Every page of a walk answers or times out (blockscout.mjs, TIMEOUT_MS).
Spec == /\ Init /\ [][Next]_vars
        /\ \A w \in Walks : WF_vars(WalkSucceeds(w) \/ WalkFails(w))

-----------------------------------------------------------------------------

TypeOK ==
    /\ now \in 0..MaxTime
    /\ walks \in [Walks -> [status : {"unstarted", "running", "ok", "failed"},
                            ended : 0..MaxTime]]
    /\ entry \in 0..MaxWalks
    /\ expiresAt \in 0..(MaxTime + TTL)
    /\ inFlight \in 0..MaxWalks
    /\ callers \in [Callers -> [pc : {"idle", "waiting", "value", "error"},
                                asked : 0..MaxTime, walk : 0..MaxWalks]]

\* However callers, failures, expiries and invalidations interleave, upstream
\* never sees two walks at once (cache.mjs:7-9).
SingleFlight == Cardinality({w \in Walks : walks[w].status = "running"}) <= 1

\* What a caller is given was complete less than TTL before it asked, or only
\* after it asked: slow walks and expiry at the moment of completion included.
NoStaleValue ==
    \A c \in Callers :
        callers[c].pc = "value" =>
            /\ walks[callers[c].walk].status = "ok"
            /\ callers[c].asked < walks[callers[c].walk].ended + TTL

\* An upstream error reaches only those who were waiting for that walk when it
\* failed, never a later caller (cache.mjs:27-28).
NoPoisonedCaller ==
    \A c \in Callers :
        callers[c].pc = "error" =>
            /\ walks[callers[c].walk].status = "failed"
            /\ callers[c].asked <= walks[callers[c].walk].ended

\* Whoever waits is served, with a value or an error.
WaitersServed ==
    \A c \in Callers : callers[c].pc = "waiting" ~> callers[c].pc \in {"value", "error"}
=============================================================================
