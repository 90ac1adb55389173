---------------------------- MODULE Walks_proofs ----------------------------
(***************************************************************************)
(* Proofs about the two ways logs are read, each for every value of its    *)
(* constants: the scanner's worker pool, for any number of workers, jobs,  *)
(* nodes and refusals, and the sentinel's walk, for any window size,       *)
(* provider limit, attempt bound and length of chain.                      *)
(*                                                                         *)
(* JobsOnce needs to know where each job is: not taken yet, in the hands   *)
(* of exactly one worker, or collected.  SurvivesDeadNodes needs how far a *)
(* job's calls have come on their tour of the nodes: not past the first    *)
(* turn of a working node, but for a round more per refusal of one.        *)
(*                                                                         *)
(* PrefixFetched is not inductive alone: it needs the position of `start'  *)
(* in the range, which the loop condition of planWindows maintains.        *)
(* BackoffBounded needs what the pauses of a window add up to after so     *)
(* many attempts; that 2^n doubles is proved by counting subsets.          *)
(***************************************************************************)
EXTENDS RangeScan, WorkerPool, FiniteSetTheorems, TLAPS

-----------------------------------------------------------------------------
(* The worker pool *)

\* A job below the counter is collected or held, by one worker only; a job
\* at or above it has not been touched.
EachJobSomewhere ==
    /\ \A v, w \in Workers : held[v] # NoJob /\ held[v] = held[w] => v = w
    /\ \A w \in Workers : held[w] # NoJob => held[w] < next /\ collected[held[w]] = 0
    /\ \A j \in 0..(Jobs - 1) : collected[j] \in {0, 1}
    /\ \A j \in 0..(Jobs - 1) : j >= next => collected[j] = 0
    /\ \A j \in 0..(Jobs - 1) :
          j < next => collected[j] = 1 \/ \E w \in Workers : held[w] = j

\* A running pool has calls left for every job, and one that has gathered has
\* nothing left to do.
PhaseFits ==
    /\ phase = "running" => \A w \in Workers : tries[w] < Nodes * Rounds
    /\ phase = "idle" => next = 0 /\ \A w \in Workers : held[w] = NoJob /\ tries[w] = 0
    /\ phase = "gathered" => next = Jobs /\ \A w \in Workers : held[w] = NoJob

PoolInv == PoolTypeOK /\ EachJobSomewhere /\ PhaseFits

LEMMA CallsPositive == Nodes * Rounds \in Nat \ {0}
  BY PoolAssumption

LEMMA InitPoolInv == PoolInit => PoolInv
  BY PoolAssumption, CallsPositive
     DEF PoolInit, PoolInv, PoolTypeOK, EachJobSomewhere, PhaseFits, NoJob

LEMMA TakePoolInv == ASSUME PoolInv, NEW w \in Workers, Take(w) PROVE PoolInv'
<1> USE PoolAssumption, CallsPositive DEF PoolInv, Take, NoJob
<1>1. PoolTypeOK'
  BY DEF PoolTypeOK
<1>2. EachJobSomewhere'
  BY DEF PoolTypeOK, EachJobSomewhere
<1>3. PhaseFits'
  BY DEF PoolTypeOK, PhaseFits
<1> QED BY <1>1, <1>2, <1>3

LEMMA AnsweredPoolInv == ASSUME PoolInv, NEW w \in Workers, Answered(w) PROVE PoolInv'
<1> USE PoolAssumption DEF PoolInv, Answered, NoJob
<1>1. PoolTypeOK'
  BY DEF PoolTypeOK
<1>2. EachJobSomewhere'
  BY DEF PoolTypeOK, EachJobSomewhere
<1>3. PhaseFits'
  BY DEF PoolTypeOK, PhaseFits
<1> QED BY <1>1, <1>2, <1>3

LEMMA RefusedPoolInv == ASSUME PoolInv, NEW w \in Workers, Refused(w) PROVE PoolInv'
<1> USE PoolAssumption, CallsPositive DEF PoolInv, Refused, NoJob
<1> DEFINE calls == Nodes * Rounds
<1>0. calls \in Nat \ {0}
  OBVIOUS
<1>1. PoolTypeOK'
  <2>1. tries' \in [Workers -> 0..calls]
    <3> HIDE DEF calls
    <3>1. tries \in [Workers -> 0..calls] /\ tries[w] < calls
      BY DEF PoolTypeOK, PhaseFits, calls
    <3>2. tries[w] + 1 \in 0..calls
      BY <1>0, <3>1
    <3> QED BY <3>1, <3>2
  <2>2. phase' \in {"idle", "running", "gathered", "failed"}
    BY ZenonT(30) DEF PoolTypeOK
  <2>3. /\ dead' \subseteq 0..(Nodes - 1)
        /\ next' \in 0..Jobs
        /\ held' \in [Workers -> {NoJob} \cup 0..(Jobs - 1)]
        /\ collected' \in [0..(Jobs - 1) -> Nat]
        /\ hiccups' \in 0..MaxHiccups
    <3> HIDE DEF calls
    <3> QED BY SMTT(30) DEF PoolTypeOK
  <2> QED BY <2>1, <2>2, <2>3 DEF PoolTypeOK
<1>2. EachJobSomewhere'
  BY DEF PoolTypeOK, EachJobSomewhere
<1>3. PhaseFits'
  BY <1>0 DEF PoolTypeOK, PhaseFits
<1> QED BY <1>1, <1>2, <1>3

LEMMA StartPoolInv == ASSUME PoolInv, StartPool PROVE PoolInv'
<1> USE PoolAssumption DEF PoolInv, StartPool, NoJob
<1>1. PoolTypeOK'
  BY DEF PoolTypeOK
<1>2. EachJobSomewhere'
  BY DEF EachJobSomewhere
<1>3. PhaseFits'
  BY CallsPositive DEF PhaseFits
<1> QED BY <1>1, <1>2, <1>3

LEMMA NextPoolInv == PoolInv /\ [PoolNext]_poolVars => PoolInv'
<1> SUFFICES ASSUME PoolInv, [PoolNext]_poolVars PROVE PoolInv'
  OBVIOUS
<1>1. CASE StartPool
  BY <1>1, StartPoolInv
<1>2. CASE Gathered
  BY <1>2, PoolAssumption DEF Gathered, PoolInv, PoolTypeOK, EachJobSomewhere, PhaseFits
<1>3. CASE UNCHANGED poolVars
  BY <1>3 DEF poolVars, PoolInv, PoolTypeOK, EachJobSomewhere, PhaseFits
<1> QED BY <1>1, <1>2, <1>3, TakePoolInv, AnsweredPoolInv, RefusedPoolInv DEF PoolNext

LEMMA PoolInductive == SafePoolSpec => []PoolInv
  BY InitPoolInv, NextPoolInv, PTL DEF SafePoolSpec

\* A pool that ends well has collected every job exactly once, whatever order
\* the workers finish in and whichever calls are refused (runPool, withRetry).
THEOREM EveryJobOnce == SafePoolSpec => []JobsOnce
<1>1. PoolInv => JobsOnce
  BY SMTT(30), PoolAssumption DEF PoolInv, JobsOnce, PoolTypeOK, EachJobSomewhere, PhaseFits, NoJob
<1> QED BY <1>1, PoolInductive, PTL

-----------------------------------------------------------------------------
(* The tour of the nodes *)

\* A number has one remainder.
LEMMA Remainder ==
    ASSUME NEW n \in Nat \ {0}, NEW q \in Nat, NEW r \in 0..(n - 1)
    PROVE  (q * n + r) % n = r
<1> DEFINE x == q * n + r
           k == x \div n
           s == x % n
<1>1. x \in Nat
  OBVIOUS
<1>2. k \in Nat /\ s \in 0..(n - 1) /\ x = k * n + s
  <2> HIDE DEF x
  <2> QED BY <1>1
<1>3. k * n + s = q * n + r
  BY <1>2
<1> HIDE DEF x, k, s
<1>4. k = q
  <2>1. CASE k < q
    <3>1. (k + 1) * n <= q * n /\ (k + 1) * n = k * n + n
      BY <1>2, <2>1
    <3>2. k * n \in Nat /\ q * n \in Nat
      BY <1>2
    <3> QED BY <1>2, <1>3, <3>1, <3>2
  <2>2. CASE q < k
    <3>1. (q + 1) * n <= k * n /\ (q + 1) * n = q * n + n
      BY <1>2, <2>2
    <3>2. k * n \in Nat /\ q * n \in Nat
      BY <1>2
    <3> QED BY <1>2, <1>3, <3>1, <3>2
  <2> QED BY <1>2, <2>1, <2>2
<1>5. s = r
  <2>1. k * n = q * n /\ q * n \in Nat
    BY <1>4
  <2> QED BY <1>2, <1>3, <2>1
<1> QED BY <1>5 DEF s, x

LEMMA Divides ==
    ASSUME NEW a \in Nat, NEW n \in Nat \ {0}
    PROVE  a \div n \in Nat /\ a % n \in 0..(n - 1) /\ a = (a \div n) * n + (a % n)
  OBVIOUS

\* Whole rounds come back to the same node.
LEMMA Rounded ==
    ASSUME NEW a \in Nat, NEW n \in Nat \ {0}, NEW h \in Nat
    PROVE  (a + h * n) % n = a % n
<1> DEFINE q == a \div n
           r == a % n
<1>1. q \in Nat /\ r \in 0..(n - 1) /\ a = q * n + r
  BY Divides
<1> HIDE DEF q, r
<1>2. a + h * n = (q + h) * n + r /\ q + h \in Nat
  BY <1>1
<1>3. ((q + h) * n + r) % n = r
  BY <1>1, <1>2, Remainder
<1> QED BY <1>2, <1>3 DEF r

\* Every node is within a round of any job's first call.
LEMMA Reachable ==
    ASSUME NEW a \in Nat, NEW n \in Nat \ {0}, NEW l \in 0..(n - 1)
    PROVE  \E d \in 0..(n - 1) : (a + d) % n = l
<1> DEFINE q == a \div n
           r == a % n
<1>1. q \in Nat /\ r \in 0..(n - 1) /\ a = q * n + r
  BY Divides
<1> HIDE DEF q, r
<1>2. CASE r <= l
  <2>1. l - r \in 0..(n - 1) /\ a + (l - r) = q * n + l
    BY <1>1, <1>2
  <2> QED BY <1>1, <2>1, Remainder
<1>3. CASE l < r
  <2>1. l - r + n \in 0..(n - 1) /\ q + 1 \in Nat
    BY <1>1, <1>3
  <2>2. a + (l - r + n) = (q + 1) * n + l
    <3>1. (q + 1) * n = q * n + n /\ q * n \in Nat
      BY <1>1
    <3> QED BY <1>1, <3>1
  <2> QED BY <2>1, <2>2, Remainder
<1> QED BY <1>1, <1>2, <1>3

\* No job has been refused longer than it takes to come round to a working
\* node, and a round more for each refusal by one; a pool that failed has a
\* job that no call is left for.
Touring ==
    /\ \A w \in Workers : held[w] # NoJob =>
          \A d \in 0..(Nodes - 1) :
             (held[w] + d) % Nodes \notin dead => tries[w] <= d + hiccups * Nodes
    /\ phase = "failed" =>
          \E w \in Workers : held[w] # NoJob /\ tries[w] = Nodes * Rounds

LEMMA RefusedTouring == ASSUME PoolInv, Touring, NEW w \in Workers, Refused(w) PROVE Touring'
<1>1. /\ held[w] \in Nat /\ held[w] # NoJob /\ tries[w] \in Nat /\ hiccups \in Nat
      /\ Nodes \in Nat \ {0}
      /\ held' = held /\ dead' = dead
      /\ tries' = [tries EXCEPT ![w] = tries[w] + 1]
      /\ tries' \in [Workers -> Int] /\ tries \in [Workers -> Int]
      /\ \/ Node(w) \in dead /\ hiccups' = hiccups
         \/ hiccups' = hiccups + 1
  <2>1. tries \in [Workers -> 0..(Nodes * Rounds)] /\ Nodes * Rounds \in Nat
    BY CallsPositive DEF PoolInv, PoolTypeOK
  <2> HIDE DEF PoolInv
  <2>2. held[w] \in Nat /\ hiccups \in Nat /\ held[w] # NoJob /\ Nodes \in Nat \ {0}
    BY PoolAssumption DEF PoolInv, PoolTypeOK, Refused, NoJob
  <2>3. tries \in [Workers -> Nat]
    <3> DEFINE c == Nodes * Rounds
    <3>1. c \in Nat /\ tries \in [Workers -> 0..c]
      BY <2>1
    <3> HIDE DEF c
    <3> QED BY <3>1
  <2>4. /\ held' = held /\ dead' = dead
        /\ tries' = [tries EXCEPT ![w] = tries[w] + 1]
        /\ \/ Node(w) \in dead /\ hiccups' = hiccups
           \/ hiccups' = hiccups + 1
    BY DEF Refused
  <2>5. tries' \in [Workers -> Int] /\ tries \in [Workers -> Int]
    BY <2>3, <2>4
  <2> QED BY <2>2, <2>3, <2>4, <2>5
<1>2. hiccups * Nodes \in Nat /\ hiccups' * Nodes \in Nat /\ hiccups' \in Nat
  BY <1>1
<1>3. hiccups * Nodes <= hiccups' * Nodes
  <2>1. hiccups' * Nodes = hiccups * Nodes \/ hiccups' * Nodes = hiccups * Nodes + Nodes
    BY <1>1
  <2> DEFINE before == hiccups * Nodes
             after == hiccups' * Nodes
  <2>2. before \in Nat /\ (after = before \/ after = before + Nodes)
    BY <1>2, <2>1
  <2> HIDE DEF before, after
  <2>3. before <= after
    BY <1>1, <2>2
  <2> QED BY <2>3 DEF before, after
<1>4. ASSUME NEW v \in Workers, held'[v] # NoJob,
             NEW d \in 0..(Nodes - 1), (held'[v] + d) % Nodes \notin dead'
      PROVE  tries'[v] <= d + hiccups' * Nodes
  <2>1. tries[v] <= d + hiccups * Nodes /\ d \in Nat
    BY <1>1, <1>4 DEF Touring
  <2>2. CASE v # w
    <3>1. tries'[v] = tries[v] /\ tries[v] \in Int
      BY <1>1, <2>2
    <3> QED BY <1>2, <1>3, <2>1, <3>1
  <2>3. CASE v = w /\ Node(w) \in dead /\ hiccups' = hiccups
    <3>1. tries[w] # d + hiccups * Nodes
      <4> SUFFICES ASSUME tries[w] = d + hiccups * Nodes PROVE FALSE
        OBVIOUS
      <4>1. held[w] + d \in Nat
        BY <1>1, <2>1
      <4>2. held[w] + tries[w] = (held[w] + d) + hiccups * Nodes
        BY <1>1, <1>2, <2>1
      <4>3. ((held[w] + d) + hiccups * Nodes) % Nodes = (held[w] + d) % Nodes
        BY <1>1, <4>1, Rounded
      <4>4. Node(w) = (held[w] + d) % Nodes
        BY <4>2, <4>3 DEF Node
      <4> QED BY <1>1, <1>4, <2>3, <4>4
    <3>2. tries'[w] = tries[w] + 1
      BY <1>1
    <3>3. tries[w] + 1 <= d + hiccups * Nodes
      BY <1>1, <1>2, <2>1, <2>3, <3>1
    <3> QED BY <2>3, <3>2, <3>3
  <2>4. CASE v = w /\ hiccups' = hiccups + 1
    <3>1. hiccups' * Nodes = hiccups * Nodes + Nodes
      BY <1>1, <2>4
    <3>2. tries'[w] = tries[w] + 1
      BY <1>1
    <3> QED BY <1>1, <1>2, <2>1, <2>4, <3>1, <3>2
  <2> QED BY <1>1, <2>2, <2>3, <2>4
<1>5. ASSUME phase' = "failed"
      PROVE  \E v \in Workers : held'[v] # NoJob /\ tries'[v] = Nodes * Rounds
  <2>1. phase = "running" /\ tries[w] + 1 = Nodes * Rounds
    BY <1>5 DEF Refused
  <2>2. tries'[w] = tries[w] + 1
    BY <1>1
  <2> QED BY <1>1, <2>1, <2>2
<1> QED BY <1>4, <1>5 DEF Touring

LEMMA NextTouring == PoolInv /\ Touring /\ [PoolNext]_poolVars => Touring'
<1> SUFFICES ASSUME PoolInv, Touring, [PoolNext]_poolVars PROVE Touring'
  OBVIOUS
<1>1. hiccups * Nodes \in Nat /\ Nodes \in Nat \ {0}
  <2>1. hiccups \in Nat
    BY PoolAssumption DEF PoolInv, PoolTypeOK
  <2> QED BY <2>1, PoolAssumption
<1>2. ASSUME NEW w \in Workers, Take(w) PROVE Touring'
  <2>1. \A d \in 0..(Nodes - 1) : 0 <= d + hiccups * Nodes
    BY <1>1
  <2>2. /\ held' = [held EXCEPT ![w] = next] /\ tries' = [tries EXCEPT ![w] = 0]
        /\ UNCHANGED <<phase, dead, hiccups>> /\ phase = "running"
    BY <1>2 DEF Take
  <2>3. \A v \in Workers : /\ held'[v] = IF v = w THEN next ELSE held[v]
                           /\ tries'[v] = IF v = w THEN 0 ELSE tries[v]
    <3>1. DOMAIN held = Workers /\ DOMAIN tries = Workers
      BY DEF PoolInv, PoolTypeOK
    <3> QED BY <2>2, <3>1
  <2> QED BY <2>1, <2>2, <2>3 DEF Touring
<1>3. ASSUME NEW w \in Workers, Answered(w) PROVE Touring'
  <2>1. /\ held' = [held EXCEPT ![w] = NoJob]
        /\ UNCHANGED <<phase, dead, tries, hiccups>> /\ phase = "running"
    BY <1>3 DEF Answered
  <2>2. \A v \in Workers : held'[v] = IF v = w THEN NoJob ELSE held[v]
    <3>1. DOMAIN held = Workers
      BY DEF PoolInv, PoolTypeOK
    <3> QED BY <2>1, <3>1
  <2> QED BY <2>1, <2>2 DEF Touring
<1>4. CASE StartPool \/ Gathered \/ UNCHANGED poolVars
  BY <1>4 DEF StartPool, Gathered, poolVars, Touring
<1> QED BY <1>2, <1>3, <1>4, RefusedTouring DEF PoolNext

\* A scan fails only when every node is dead or the working ones refuse a call
\* in every round: whichever nodes are dead, how many there are and whatever
\* the workers do, the retries reach one that works (withRetry).
THEOREM DeadNodesSurvived == SafePoolSpec => []SurvivesDeadNodes
<1>1. PoolInit => Touring
  BY DEF PoolInit, Touring
<1>2. SafePoolSpec => [](PoolInv /\ Touring)
  BY <1>1, InitPoolInv, NextPoolInv, NextTouring, PTL DEF SafePoolSpec
<1>3. PoolInv /\ Touring => SurvivesDeadNodes
  <2> SUFFICES ASSUME PoolInv, Touring, dead # 0..(Nodes - 1), MaxHiccups < Rounds,
                      phase = "failed"
               PROVE  FALSE
    BY DEF SurvivesDeadNodes
  <2>1. /\ dead \subseteq 0..(Nodes - 1) /\ hiccups \in 0..MaxHiccups
        /\ held \in [Workers -> {NoJob} \cup 0..(Jobs - 1)]
    BY DEF PoolInv, PoolTypeOK
  <2>2. PICK l \in 0..(Nodes - 1) : l \notin dead
    BY <2>1
  <2>3. PICK w \in Workers : held[w] # NoJob /\ tries[w] = Nodes * Rounds
    BY DEF Touring
  <2>4. held[w] \in Nat
    BY <2>1, <2>3, PoolAssumption
  <2>5. PICK d \in 0..(Nodes - 1) : (held[w] + d) % Nodes = l
    BY <2>4, PoolAssumption, Reachable
  <2>6. Nodes * Rounds <= d + hiccups * Nodes
    BY <2>2, <2>3, <2>5 DEF Touring
  <2>7. (hiccups + 1) * Nodes <= Rounds * Nodes /\ hiccups + 1 <= Rounds
    <3>1. hiccups \in Nat /\ hiccups + 1 <= Rounds
      BY <2>1, PoolAssumption
    <3> QED BY <3>1, PoolAssumption
  <2>8. /\ hiccups * Nodes \in Nat /\ Rounds * Nodes \in Nat
        /\ (hiccups + 1) * Nodes = hiccups * Nodes + Nodes
        /\ Nodes * Rounds = Rounds * Nodes
    <3>1. hiccups \in Nat
      BY <2>1, PoolAssumption
    <3> QED BY <3>1, PoolAssumption
  <2>9. d \in Nat /\ d < Nodes /\ Nodes \in Nat
    BY PoolAssumption
  <2> QED BY <2>6, <2>7, <2>8, <2>9
<1> QED BY <1>2, <1>3, PTL

-----------------------------------------------------------------------------
(* The pool is the all-or-nothing read of LogRead. *)

LEMMA AllCollected ==
    ASSUME NEW c \in [0..(Jobs - 1) -> Nat], \A i \in 0..(Jobs - 1) : c[i] > 0
    PROVE  {j + 1 : j \in {i \in DOMAIN c : c[i] > 0}} = 1..Jobs
<1> DEFINE got == {j + 1 : j \in {i \in DOMAIN c : c[i] > 0}}
<1>1. \A b \in got : b \in 1..Jobs
  BY PoolAssumption
<1>2. ASSUME NEW b \in 1..Jobs PROVE b \in got
  <2>1. b - 1 \in {i \in DOMAIN c : c[i] > 0} /\ b = (b - 1) + 1
    BY PoolAssumption
  <2> QED BY <2>1
<1> QED BY <1>1, <1>2

LEMMA PoolReadingStep == PoolInv /\ PoolInv' /\ [PoolNext]_poolVars => [PoolReading!Next]_(PoolReading!vars)
<1> SUFFICES ASSUME PoolInv, PoolInv', [PoolNext]_poolVars
             PROVE  [PoolReading!Next]_(PoolReading!vars)
  OBVIOUS
<1> USE DEF PoolReading!vars
<1>1. CASE StartPool
  <2>1. PoolReading!Ask(1, Jobs)
    BY <1>1 DEF StartPool, PoolReading!Ask
  <2>2. 1 \in 1..(Jobs + 1) /\ Jobs \in 0..(Jobs + 1)
    BY PoolAssumption
  <2> QED BY <2>1, <2>2 DEF PoolReading!Next
<1>2. ASSUME NEW w \in Workers, Take(w) \/ Answered(w)
      PROVE  [PoolReading!Next]_(PoolReading!vars)
  BY <1>2 DEF Take, Answered
<1>3. ASSUME NEW w \in Workers, Refused(w)
      PROVE  [PoolReading!Next]_(PoolReading!vars)
  <2>1. CASE phase' = "failed"
    BY <1>3, <2>1 DEF Refused, PoolReading!Fail, PoolReading!Next
  <2>2. CASE phase' # "failed"
    BY <1>3, <2>2 DEF Refused
  <2> QED BY <2>1, <2>2
<1>4. CASE Gathered
  <2>1. phase = "running" /\ phase' = "gathered" /\ collected' = collected
    BY <1>4 DEF Gathered
  <2>2. {j + 1 : j \in {i \in DOMAIN collected' : collected'[i] > 0}} = 1..Jobs
    <3>1. collected \in [0..(Jobs - 1) -> Nat] /\ \A i \in 0..(Jobs - 1) : collected[i] > 0
      BY SMTT(30), <1>4, PoolAssumption DEF Gathered, PoolInv, PoolTypeOK, EachJobSomewhere, NoJob
    <3> QED BY <2>1, <3>1, AllCollected
  <2>3. PoolReading!Answer
    BY <2>1, <2>2 DEF PoolReading!Answer
  <2> QED BY <2>3 DEF PoolReading!Next
<1>5. CASE UNCHANGED poolVars
  BY <1>5 DEF poolVars
<1> QED BY <1>1, <1>2, <1>3, <1>4, <1>5 DEF PoolNext

\* The pool is an all-or-nothing read of its jobs: no refused job passes for
\* one without logs.  (That it ends is model-checked, GathersAllOrNothing.)
THEOREM PoolReadsAllOrNothing == SafePoolSpec => PoolReading!SafeSpec
<1>1. PoolInit => PoolReading!Init
  BY DEF PoolInit, PoolReading!Init
<1> QED BY <1>1, PoolInductive, PoolReadingStep, PTL DEF SafePoolSpec, PoolReading!SafeSpec

-----------------------------------------------------------------------------
(* The walk in windows *)

USE RangeAssumption DEF Smaller

\* Where the loop variable stands in each phase of the walk.
Position ==
    /\ pc \in {"idle", "call", "backoff", "pause", "done", "failed"}
    /\ from \in Nat /\ to \in Nat /\ start \in Nat
    /\ pc = "idle" => from = 1 /\ to = 0 /\ start = 1
    /\ pc \in {"call", "backoff", "pause"} => from <= start /\ start <= to
    /\ pc = "pause" => start + MaxRange <= to
    /\ pc = "done" => fetched = from..to

IInv == Position /\ PrefixFetched

LEMMA InitIInv == Init => IInv
  BY DEF Init, IInv, Position, PrefixFetched

LEMMA NextIInv == IInv /\ [Next]_vars => IInv'
<1> SUFFICES ASSUME IInv, [Next]_vars PROVE IInv'
  OBVIOUS
<1> USE DEF IInv, Position, PrefixFetched
<1>1. ASSUME NEW f \in 1..MaxBlock, NEW t \in 0..MaxBlock, Begin(f, t)
      PROVE  IInv'
  BY <1>1 DEF Begin
<1>2. CASE CallAnswered
  <2>1. from..(start - 1) \union start..WindowEnd(start) = from..WindowEnd(start)
    BY <1>2 DEF CallAnswered, WindowEnd
  <2>2. CASE HasNextWindow
    BY <1>2, <2>1, <2>2 DEF CallAnswered, WindowEnd, HasNextWindow
  <2>3. CASE ~HasNextWindow
    BY <1>2, <2>1, <2>3 DEF CallAnswered, WindowEnd, HasNextWindow
  <2> QED BY <2>2, <2>3
<1>3. CASE NextWindow
  BY <1>3 DEF NextWindow
<1>4. CASE CallThrottled
  BY <1>4 DEF CallThrottled
<1>5. CASE BackoffOver
  BY <1>5 DEF BackoffOver
<1>6. CASE CallFailed
  BY <1>6 DEF CallFailed
<1>7. CASE UNCHANGED vars
  BY <1>7 DEF vars
<1> QED BY <1>1, <1>2, <1>3, <1>4, <1>5, <1>6, <1>7 DEF Next

\* What the walk has collected is a gapless prefix of the range it was asked
\* for, complete when it ends (getLogsChunked over planWindows).
THEOREM PrefixCorrect == SafeSpec => []PrefixFetched
<1>1. SafeSpec => []IInv
  BY InitIInv, NextIInv, PTL DEF SafeSpec
<1> QED BY <1>1, PTL DEF IInv

\* A step collects only blocks that were not collected before, and at most one
\* window of them, whatever the window size (logs.push in getLogsChunked).
THEOREM WindowsDisjoint == SafeSpec => EachBlockOnce
<1> DEFINE OnlyNew == fetched' # fetched =>
                        /\ (start..WindowEnd(start)) \cap fetched = {}
                        /\ WindowEnd(start) - start < MaxRange
<1>1. ASSUME IInv, [Next]_vars PROVE [OnlyNew]_vars
  <2> USE <1>1 DEF IInv, Position, PrefixFetched
  <2>1. CASE CallAnswered
    BY <2>1 DEF CallAnswered, WindowEnd
  <2>2. CASE ~CallAnswered
    BY <2>2 DEF Next, vars, Begin, NextWindow, CallThrottled, BackoffOver, CallFailed
  <2> QED BY <2>1, <2>2
<1>2. SafeSpec => []IInv
  BY InitIInv, NextIInv, PTL DEF SafeSpec
<1> QED BY <1>1, <1>2, PTL DEF SafeSpec, EachBlockOnce

LEMMA ReadingStep == IInv /\ IInv' /\ [Next]_vars => [Reading!Next]_(Reading!vars)
<1> SUFFICES ASSUME IInv, IInv', [Next]_vars
             PROVE  [Reading!Next]_(Reading!vars)
  OBVIOUS
<1> USE DEF IInv, Position, PrefixFetched, ReadPhase, Reading!vars, Reading!Next,
            Reading!Ask, Reading!AskEmpty, Reading!Answer, Reading!Fail
<1>1. ASSUME NEW f \in 1..MaxBlock, NEW t \in 0..MaxBlock, Begin(f, t)
      PROVE  [Reading!Next]_(Reading!vars)
  <2>1. CASE f > t
    BY <1>1, <2>1 DEF Begin
  <2>2. CASE ~(f > t)
    BY <1>1, <2>2 DEF Begin
  <2> QED BY <2>1, <2>2
<1>2. CASE CallAnswered
  <2>1. CASE HasNextWindow
    BY <1>2, <2>1 DEF CallAnswered
  <2>2. CASE ~HasNextWindow
    BY <1>2, <2>2 DEF CallAnswered
  <2> QED BY <2>1, <2>2
<1>3. CASE NextWindow
  BY <1>3 DEF NextWindow
<1>4. CASE CallThrottled
  BY <1>4 DEF CallThrottled
<1>5. CASE BackoffOver
  BY <1>5 DEF BackoffOver
<1>6. CASE CallFailed
  BY <1>6 DEF CallFailed
<1>7. CASE UNCHANGED vars
  BY <1>7 DEF vars
<1> QED BY <1>1, <1>2, <1>3, <1>4, <1>5, <1>6, <1>7 DEF Next

\* The windowed, throttled walk is the all-or-nothing read that Sentinel takes
\* in one step.  (That a walk ends, the liveness half of the abstract reader,
\* is model-checked.)
THEOREM ReadsAllOrNothing == SafeSpec => Reading!SafeSpec
<1>1. Init => Reading!Init
  BY DEF Init, Reading!Init, ReadPhase
<1>2. SafeSpec => []IInv
  BY InitIInv, NextIInv, PTL DEF SafeSpec
<1> QED BY <1>1, <1>2, ReadingStep, PTL DEF SafeSpec, Reading!SafeSpec

-----------------------------------------------------------------------------
(* The pauses of a window *)

\* 2^n is how many sets of the numbers to n there are.
LEMMA PowerIsCount ==
    ASSUME NEW n \in Nat
    PROVE  /\ IsFiniteSet(SUBSET (1..n))
           /\ Cardinality(SUBSET (1..n)) = 2^n
           /\ 2^n \in Nat
<1>1. IsFiniteSet(1..n) /\ Cardinality(1..n) = n
  BY FS_Interval
<1>2. IsFiniteSet(SUBSET (1..n)) /\ Cardinality(SUBSET (1..n)) = 2^n
  <2>1. Cardinality(SUBSET (1..n)) = 2^Cardinality(1..n) /\ IsFiniteSet(SUBSET (1..n))
    BY <1>1, FS_SUBSET, Zenon
  <2> QED BY <1>1, <2>1, Zenon
<1>3. Cardinality(SUBSET (1..n)) \in Nat
  BY <1>2, FS_CardinalityType
<1> QED BY <1>2, <1>3, Zenon

LEMMA PowerMonotone ==
    ASSUME NEW m \in Nat, NEW n \in Nat, m <= n
    PROVE  2^m <= 2^n
<1>1. SUBSET (1..m) \in SUBSET (SUBSET (1..n))
  OBVIOUS
<1>2. Cardinality(SUBSET (1..m)) <= Cardinality(SUBSET (1..n))
  BY <1>1, PowerIsCount, FS_Subset
<1>3. Cardinality(SUBSET (1..m)) = 2^m /\ Cardinality(SUBSET (1..n)) = 2^n
  BY PowerIsCount, Zenon
<1> QED BY <1>2, <1>3, Zenon

\* The sets with n + 1 in them are as many as those without.
LEMMA PowerDoubles == ASSUME NEW n \in Nat PROVE 2^(n + 1) = 2 * 2^n
<1> DEFINE without == SUBSET (1..n)
           with == {s \in SUBSET (1..(n + 1)) : n + 1 \in s}
           f == [s \in without |-> s \cup {n + 1}]
<1>1. SUBSET (1..(n + 1)) = without \cup with /\ without \cap with = {}
  <2>1. ASSUME NEW s \in SUBSET (1..(n + 1)), s \notin with PROVE s \in without
    BY <2>1
  <2> QED BY <2>1
<1>2. f \in Bijection(without, with)
  <2>1. f \in [without -> with]
    BY DEF f
  <2>2. \A a, b \in without : f[a] = f[b] => a = b
    <3> SUFFICES ASSUME NEW a \in without, NEW b \in without, f[a] = f[b]
                 PROVE  a = b
      OBVIOUS
    <3>1. n + 1 \notin a /\ n + 1 \notin b /\ a \cup {n + 1} = b \cup {n + 1}
      OBVIOUS
    <3> QED BY <3>1
  <2>3. \A t \in with : \E s \in without : f[s] = t
    <3> SUFFICES ASSUME NEW t \in with PROVE \E s \in without : f[s] = t
      OBVIOUS
    <3>1. t \ {n + 1} \in without /\ f[t \ {n + 1}] = t
      OBVIOUS
    <3> QED BY <3>1
  <2> QED BY <2>1, <2>2, <2>3 DEF Bijection, Injection, Surjection, IsInjective
<1>3. IsFiniteSet(without) /\ Cardinality(without) = 2^n /\ 2^n \in Nat
  BY PowerIsCount, Zenon
<1>4. IsFiniteSet(with) /\ Cardinality(with) = Cardinality(without)
  <2> HIDE DEF without, with, f
  <2>1. ExistsBijection(without, with)
    BY <1>2 DEF ExistsBijection
  <2> QED BY <2>1, <1>3, FS_Bijection
<1>5. n + 1 \in Nat
  OBVIOUS
<1>6. Cardinality(SUBSET (1..(n + 1))) = 2^(n + 1)
  BY <1>5, PowerIsCount, Zenon
<1> HIDE DEF without, with, f
<1>7. Cardinality(without \cup with)
        = Cardinality(without) + Cardinality(with) - Cardinality(without \cap with)
  BY <1>3, <1>4, FS_Union, Zenon
<1>8. Cardinality(without \cap with) = 0
  BY <1>1, FS_EmptySet, Zenon
<1>9. Cardinality(without) \in Nat /\ Cardinality(with) = Cardinality(without)
  BY <1>3, <1>4, Zenon
<1>10. Cardinality(without \cup with) = 2 * Cardinality(without)
  BY <1>7, <1>8, <1>9
<1> QED BY <1>1, <1>3, <1>6, <1>10, Zenon

\* After so many pauses the window has waited for the sum of the schedule.
Pauses ==
    /\ attempt \in 0..(Attempts - 1)
    /\ pc = "backoff" => attempt < Attempts - 1
    /\ waited = BaseDelay * (2^attempt - 1)

\* What the walk has read lies in the chain.
Ranges ==
    /\ from \in 1..MaxBlock /\ to \in 0..MaxBlock
    /\ start \in from..(from + MaxBlock)
    /\ fetched \subseteq 1..MaxBlock

WalkInv == IInv /\ Pauses /\ Ranges

LEMMA FreshPauses == 0 \in 0..(Attempts - 1) /\ BaseDelay * (2^0 - 1) = 0
<1>1. 2^0 = 1
  OBVIOUS
<1> QED BY <1>1

LEMMA InitWalkInv == Init => WalkInv
<1> SUFFICES ASSUME Init PROVE WalkInv
  OBVIOUS
<1>1. Pauses
  BY FreshPauses DEF Init, Pauses
<1>2. Ranges
  BY DEF Init, Ranges
<1> QED BY <1>1, <1>2, InitIInv DEF WalkInv

LEMMA BackoffAdds ==
    ASSUME NEW n \in Nat
    PROVE  BaseDelay * (2^n - 1) + Backoff(n) = BaseDelay * (2^(n + 1) - 1)
<1> DEFINE p == 2^n
           q == 2^(n + 1)
<1>1. p \in Nat /\ q = 2 * p
  BY PowerIsCount, PowerDoubles, Zenon
<1>2. Backoff(n) = BaseDelay * p
  BY DEF Backoff
<1> HIDE DEF p, q
<1>3. BaseDelay * (p - 1) + BaseDelay * p = BaseDelay * (q - 1)
  BY <1>1
<1> QED BY <1>2, <1>3 DEF p, q

LEMMA NextWalkInv == WalkInv /\ [Next]_vars => WalkInv'
<1> SUFFICES ASSUME WalkInv, [Next]_vars PROVE WalkInv'
  OBVIOUS
<1>1. IInv'
  BY NextIInv DEF WalkInv
<1>2. CASE BackoffOver
  <2>1. /\ pc' = "call" /\ attempt' = attempt + 1 /\ attempt < Attempts - 1
        /\ waited' = waited + Backoff(attempt) /\ attempt \in Nat
        /\ waited = BaseDelay * (2^attempt - 1)
        /\ UNCHANGED <<from, to, start, fetched>>
    BY <1>2 DEF BackoffOver, WalkInv, Pauses
  <2>2. attempt + 1 \in 0..(Attempts - 1)
    BY <2>1
  <2>3. waited' = BaseDelay * (2^(attempt + 1) - 1)
    BY <2>1, BackoffAdds, Zenon
  <2>4. Pauses'
    BY <2>1, <2>2, <2>3, Zenon DEF Pauses
  <2>5. Ranges'
    BY <2>1 DEF WalkInv, Ranges
  <2> QED BY <1>1, <2>4, <2>5 DEF WalkInv
<1>3. CASE ~BackoffOver
  <2>1. Pauses'
    <3>1. CASE NextWindow
      BY <3>1, FreshPauses DEF NextWindow, WalkInv, Pauses
    <3>2. CASE ~NextWindow
      BY <1>3, <3>2 DEF Next, vars, Begin, CallAnswered, CallThrottled, CallFailed,
                        MayRetry, WalkInv, Pauses
    <3> QED BY <3>1, <3>2
  <2>2. Ranges'
    <3> USE DEF WalkInv, IInv, Position, Ranges
    <3>1. ASSUME NEW f \in 1..MaxBlock, NEW u \in 0..MaxBlock, Begin(f, u) PROVE Ranges'
      BY <3>1 DEF Begin
    <3>2. CASE CallAnswered
      <4>1. start..WindowEnd(start) \subseteq 1..MaxBlock
        BY <3>2 DEF CallAnswered, WindowEnd
      <4> QED BY <3>2, <4>1 DEF CallAnswered
    <3>3. CASE NextWindow
      BY <3>3 DEF NextWindow
    <3>4. CASE CallThrottled \/ CallFailed \/ UNCHANGED vars
      BY <3>4 DEF CallThrottled, CallFailed, vars
    <3> QED BY <1>3, <3>1, <3>2, <3>3, <3>4 DEF Next
  <2> QED BY <1>1, <2>1, <2>2 DEF WalkInv
<1> QED BY <1>2, <1>3

LEMMA WalkInductive == SafeSpec => []WalkInv
  BY InitWalkInv, NextWalkInv, PTL DEF SafeSpec

\* However often a window is throttled, its pauses stay below the doubling
\* schedule's, for every number of attempts and first pause (rangeScan.mjs
\* withRateLimitRetry).
THEOREM PausesBounded == SafeSpec => []BackoffBounded
<1>1. WalkInv => BackoffBounded
  <2> SUFFICES ASSUME WalkInv PROVE BackoffBounded
    OBVIOUS
  <2> DEFINE p == 2^attempt
             q == 2^(Attempts - 1)
  <2>1. attempt \in Nat /\ Attempts - 1 \in Nat /\ attempt <= Attempts - 1
    BY DEF WalkInv, Pauses
  <2>2. p \in Nat /\ q \in Nat /\ p <= q
    BY <2>1, PowerIsCount, PowerMonotone, Zenon
  <2>3. waited = BaseDelay * (p - 1)
    BY DEF WalkInv, Pauses
  <2> HIDE DEF p, q
  <2>4. waited < BaseDelay * q
    <3>1. BaseDelay * (p - 1) < BaseDelay * q
      BY <2>2
    <3> QED BY <2>3, <3>1
  <2> QED BY <2>4 DEF BackoffBounded, q
<1> QED BY <1>1, WalkInductive, PTL

\* Every variable of the walk keeps to its type, and the walk to its range.
THEOREM TypeCorrect == SafeSpec => []TypeOK
<1>1. WalkInv => TypeOK
  <2> SUFFICES ASSUME WalkInv PROVE TypeOK
    OBVIOUS
  <2>1. waited \in Nat
    <3> DEFINE p == 2^attempt
    <3>1. attempt \in Nat /\ waited = BaseDelay * (p - 1)
      BY DEF WalkInv, Pauses
    <3>2. p \in Nat /\ 1 <= p
      <4>1. 2^0 = 1
        OBVIOUS
      <4>2. 0 \in Nat /\ 0 <= attempt
        BY <3>1
      <4>3. p \in Nat /\ 2^0 <= p
        BY <3>1, <4>2, PowerIsCount, PowerMonotone, Zenon
      <4> QED BY <4>1, <4>3
    <3> HIDE DEF p
    <3>3. BaseDelay * (p - 1) \in Nat
      BY <3>2
    <3> QED BY <3>1, <3>3
  <2> QED BY <2>1 DEF WalkInv, IInv, Position, Pauses, Ranges, TypeOK
<1> QED BY <1>1, WalkInductive, PTL
=============================================================================
