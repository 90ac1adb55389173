----------------------------- MODULE WorkerPool -----------------------------
(***************************************************************************)
(* runPool over withRetry in scripts/scan-approvals.mjs: some workers take *)
(* jobs (windows to fetch, allowances to read) off one counter, each call  *)
(* is repeated on the next RPC node when one refuses it, and the first job *)
(* no node would do ends the scan.  Jobs are numbered from 0.              *)
(***************************************************************************)
EXTENDS Integers

CONSTANTS
    Workers,         \* CONCURRENCY of them
    Jobs,            \* how many jobs there are
    Nodes,           \* how many RPC nodes
    Rounds,          \* calls to each node before a job is given up
    MaxHiccups       \* refusals by working nodes (bound of the model)

ASSUME PoolAssumption ==
    /\ Workers # {}
    /\ Jobs \in Nat
    /\ Nodes \in Nat \ {0}
    /\ Rounds \in Nat \ {0}
    /\ MaxHiccups \in Nat

VARIABLES
    phase,           \* "idle" | "running" | "gathered" | "failed"
    dead,            \* the nodes that refuse every call
    next,            \* the next job to take
    held,            \* held[w]: the job w works on, or NoJob
    tries,           \* tries[w]: how often w's job was refused
    collected,       \* collected[j]: how often the logs of job j were pushed
    hiccups          \* refusals by nodes that work

poolVars == <<phase, dead, next, held, tries, collected, hiccups>>

NoJob == -1

PoolInit ==
    /\ phase = "idle"
    /\ dead \in SUBSET (0..(Nodes - 1))
    /\ next = 0
    /\ held = [w \in Workers |-> NoJob]
    /\ tries = [w \in Workers |-> 0]
    /\ collected = [j \in 0..(Jobs - 1) |-> 0]
    /\ hiccups = 0

StartPool ==
    /\ phase = "idle"
    /\ phase' = "running"
    /\ UNCHANGED <<dead, next, held, tries, collected, hiccups>>

\* Mutant: the counter does not move when no other worker holds a job.
TakeUncounted(w) ==
    /\ phase = "running" /\ held[w] = NoJob /\ next < Jobs
    /\ held' = [held EXCEPT ![w] = next]
    /\ tries' = [tries EXCEPT ![w] = 0]
    /\ next' = IF \E v \in Workers : held[v] # NoJob THEN next + 1 ELSE next
    /\ UNCHANGED <<phase, dead, collected, hiccups>>

\* A free worker takes the next job; nothing is awaited in between.
Take(w) ==
    /\ phase = "running" /\ held[w] = NoJob /\ next < Jobs
    /\ held' = [held EXCEPT ![w] = next]
    /\ tries' = [tries EXCEPT ![w] = 0]
    /\ next' = next + 1
    /\ UNCHANGED <<phase, dead, collected, hiccups>>

\* Mutant: a job's calls all go to one node.
NodePinned(w) == held[w] % Nodes

\* The node that w's next call goes to.
Node(w) == (held[w] + tries[w]) % Nodes

Answered(w) ==
    /\ phase = "running" /\ held[w] # NoJob
    /\ Node(w) \notin dead
    /\ collected' = [collected EXCEPT ![held[w]] = @ + 1]
    /\ held' = [held EXCEPT ![w] = NoJob]
    /\ UNCHANGED <<phase, dead, next, tries, hiccups>>

\* Mutant: a job that ran out of calls is skipped.
RefusedSkipped(w) ==
    /\ phase = "running" /\ held[w] # NoJob
    /\ Node(w) \in dead /\ UNCHANGED hiccups
    /\ tries' = [tries EXCEPT ![w] = @ + 1]
    /\ held' = IF tries[w] + 1 = Nodes * Rounds
               THEN [held EXCEPT ![w] = NoJob] ELSE held
    /\ UNCHANGED <<phase, dead, next, collected>>

\* A refusal, and the pause after it.  The last one rejects Promise.all, and
\* main's catch ends the process with whatever the other workers were doing.
Refused(w) ==
    /\ phase = "running" /\ held[w] # NoJob
    /\ \/ Node(w) \in dead /\ UNCHANGED hiccups
       \/ /\ Node(w) \notin dead
          /\ hiccups < MaxHiccups /\ hiccups' = hiccups + 1
    /\ tries' = [tries EXCEPT ![w] = @ + 1]
    /\ phase' = IF tries[w] + 1 = Nodes * Rounds THEN "failed" ELSE phase
    /\ UNCHANGED <<dead, next, held, collected>>

\* Every runner has returned.
Gathered ==
    /\ phase = "running" /\ next >= Jobs
    /\ \A w \in Workers : held[w] = NoJob
    /\ phase' = "gathered"
    /\ UNCHANGED <<dead, next, held, tries, collected, hiccups>>

PoolNext ==
    \/ StartPool
    \/ \E w \in Workers : Take(w) \/ Answered(w) \/ Refused(w)
    \/ Gathered

\* A call settles, and a runner that can go on does.
PoolFairness ==
    /\ \A w \in Workers : WF_poolVars(Take(w)) /\ WF_poolVars(Answered(w) \/ Refused(w))
    /\ WF_poolVars(Gathered)

SafePoolSpec == PoolInit /\ [][PoolNext]_poolVars
PoolSpec == SafePoolSpec /\ PoolFairness

-----------------------------------------------------------------------------

PoolTypeOK ==
    /\ phase \in {"idle", "running", "gathered", "failed"}
    /\ dead \subseteq 0..(Nodes - 1)
    /\ next \in 0..Jobs
    /\ held \in [Workers -> {NoJob} \cup 0..(Jobs - 1)]
    /\ tries \in [Workers -> 0..(Nodes * Rounds)]
    /\ collected \in [0..(Jobs - 1) -> Nat]
    /\ hiccups \in 0..MaxHiccups

\* A pool that ends well has the logs of every job, once: no two workers do
\* the same window and none falls between them (scan-approvals.mjs:74-85).
JobsOnce ==
    /\ \A j \in DOMAIN collected : collected[j] <= 1
    /\ phase = "gathered" => \A j \in DOMAIN collected : collected[j] = 1

\* Dead nodes do not fail a scan while one node works: a refused call goes
\* to the next node, so a working one is asked as often as any
\* (scan-approvals.mjs:61; docs/JOURNAL.md:47 tells of the pinned retries).
SurvivesDeadNodes ==
    dead # 0..(Nodes - 1) /\ MaxHiccups < Rounds => phase # "failed"

\* The pool is an all-or-nothing read of the jobs, numbered from 1.
PoolReading == INSTANCE LogRead WITH
    MaxBlock <- Jobs + 1,
    phase <- CASE phase = "running" -> "asked" [] phase = "gathered" -> "answered"
               [] OTHER -> phase,
    from <- 1,
    to   <- IF phase = "idle" THEN 0 ELSE Jobs,
    got  <- IF phase = "gathered" THEN {j + 1 : j \in {i \in DOMAIN collected : collected[i] > 0}}
                                  ELSE {}

\* No failed job is taken for one without logs, and a pool that was started
\* ends, with every job done or with a failure.
GathersAllOrNothing == PoolReading!Spec
=============================================================================
