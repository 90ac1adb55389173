-------------------------- MODULE Holdings_proofs --------------------------
(***************************************************************************)
(* Proofs about the holdings cache and the paged walks behind it, for any  *)
(* number of callers and walks, any TTL, any pages and any cap.            *)
(*                                                                         *)
(* The pages change nothing the cache looks at: a step of the paged walk   *)
(* is a step of TtlCache or leaves its variables alone.  The invariant of  *)
(* the cache ties inFlight to the one walk that runs, the entry to a walk  *)
(* that ended well, and every caller to its walk.  NoHalfList needs what   *)
(* a walk under way has folded: the listed pages before the one it waits   *)
(* for, each of them counted once.                                         *)
(***************************************************************************)
EXTENDS Holdings, FiniteSetTheorems, TLAPS

\* The walk in flight is the one that runs, and the entry is that of a walk
\* that ended well TTL before it expires.
OneRunning ==
    /\ \A w \in Walks : walks[w].status = "running" => inFlight = w
    /\ inFlight # 0 => walks[inFlight].status = "running"
    /\ entry # 0 => /\ walks[entry].status = "ok"
                    /\ expiresAt = walks[entry].ended + TTL

\* What a caller has, or waits for, fits the walk it was given.
CallerFits(c) ==
    /\ callers[c].pc # "idle" => callers[c].walk \in Walks
    /\ callers[c].pc = "waiting" =>
          walks[callers[c].walk].status = "running" /\ callers[c].asked <= now
    /\ callers[c].pc = "value" =>
          /\ walks[callers[c].walk].status = "ok"
          /\ callers[c].asked < walks[callers[c].walk].ended + TTL
    /\ callers[c].pc = "error" =>
          /\ walks[callers[c].walk].status = "failed"
          /\ callers[c].asked <= walks[callers[c].walk].ended

IInv == TypeOK /\ OneRunning /\ \A c \in Callers : CallerFits(c)

USE CacheAssumption DEF Walks

Calls == [Callers -> [pc : {"idle", "waiting", "value", "error"},
                      asked : 0..MaxTime, walk : 0..MaxWalks]]
Outcomes == [Walks -> [status : {"unstarted", "running", "ok", "failed"},
                       ended : 0..MaxTime]]

LEMMA SettleWaitersType ==
    ASSUME TypeOK, NEW w, NEW outcome \in {"value", "error"}, SettleWaiters(w, outcome)
    PROVE  callers' \in Calls
<1>1. ASSUME NEW c \in Callers
      PROVE  [callers[c] EXCEPT !.pc = outcome] \in
                [pc : {"idle", "waiting", "value", "error"},
                 asked : 0..MaxTime, walk : 0..MaxWalks]
  BY DEF TypeOK
<1> QED BY <1>1 DEF SettleWaiters, TypeOK, Calls

LEMMA InitIInv == Init => IInv
  BY DEF Init, IInv, TypeOK, OneRunning, CallerFits, Unstarted, Idle

LEMMA HitIInv == ASSUME IInv, NEW c \in Callers, Hit(c) PROVE IInv'
<1> USE DEF IInv, Hit, Fresh
<1>1. TypeOK'
  BY DEF TypeOK
<1>2. OneRunning'
  BY DEF OneRunning
<1>3. ASSUME NEW d \in Callers PROVE CallerFits(d)'
  BY DEF TypeOK, OneRunning, CallerFits
<1> QED BY <1>1, <1>2, <1>3

LEMMA JoinIInv == ASSUME IInv, NEW c \in Callers, Join(c) PROVE IInv'
<1> USE DEF IInv, Join
<1>1. Outcome(inFlight) = "waiting" /\ inFlight \in Walks
  BY DEF Outcome, OneRunning, TypeOK
<1>2. TypeOK'
  BY <1>1 DEF TypeOK
<1>3. OneRunning'
  BY DEF OneRunning
<1>4. ASSUME NEW d \in Callers PROVE CallerFits(d)'
  BY <1>1 DEF TypeOK, OneRunning, CallerFits
<1> QED BY <1>2, <1>3, <1>4

LEMMA ProduceIInv == ASSUME IInv, NEW c \in Callers, Produce(c) PROVE IInv'
<1>1. PICK w \in Walks :
        /\ walks[w].status = "unstarted"
        /\ walks' = [walks EXCEPT ![w].status = "running"]
        /\ inFlight' = w
        /\ callers' = [callers EXCEPT ![c] = [pc |-> "waiting", asked |-> now, walk |-> w]]
        /\ UNCHANGED <<now, entry, expiresAt>>
        /\ inFlight = 0
  BY DEF Produce
<1> USE DEF IInv
<1>2. TypeOK'
  <2>1. callers' \in Calls
    BY <1>1 DEF TypeOK, Calls
  <2>2. walks' \in Outcomes
    BY <1>1 DEF TypeOK, Outcomes
  <2> QED BY <1>1, <2>1, <2>2 DEF TypeOK, Calls, Outcomes
<1>3. OneRunning'
  BY <1>1 DEF TypeOK, OneRunning
<1>4. ASSUME NEW d \in Callers PROVE CallerFits(d)'
  BY <1>1 DEF TypeOK, OneRunning, CallerFits
<1> QED BY <1>2, <1>3, <1>4

LEMMA WalkSucceedsIInv == ASSUME IInv, NEW w \in Walks, WalkSucceeds(w) PROVE IInv'
<1> USE DEF IInv, WalkSucceeds
<1>1. TypeOK'
  <2>1. callers' \in Calls
    BY SettleWaitersType
  <2>2. walks' \in Outcomes
    BY DEF TypeOK, Outcomes
  <2> QED BY <2>1, <2>2 DEF TypeOK, Calls, Outcomes
<1> USE DEF SettleWaiters
<1>2. OneRunning'
  BY DEF TypeOK, OneRunning
<1>3. ASSUME NEW d \in Callers PROVE CallerFits(d)'
  BY DEF TypeOK, OneRunning, CallerFits
<1> QED BY <1>1, <1>2, <1>3

LEMMA WalkFailsIInv == ASSUME IInv, NEW w \in Walks, WalkFails(w) PROVE IInv'
<1> USE DEF IInv, WalkFails
<1>1. TypeOK'
  <2>1. callers' \in Calls
    BY SettleWaitersType
  <2>2. walks' \in Outcomes
    BY DEF TypeOK, Outcomes
  <2> QED BY <2>1, <2>2 DEF TypeOK, Calls, Outcomes
<1> USE DEF SettleWaiters
<1>2. OneRunning'
  BY DEF TypeOK, OneRunning
<1>3. ASSUME NEW d \in Callers PROVE CallerFits(d)'
  BY DEF TypeOK, OneRunning, CallerFits
<1> QED BY <1>1, <1>2, <1>3

LEMMA NextIInv == IInv /\ [Next]_vars => IInv'
<1> SUFFICES ASSUME IInv, [Next]_vars PROVE IInv'
  OBVIOUS
<1>1. CASE Tick
  BY <1>1 DEF Tick, IInv, TypeOK, OneRunning, CallerFits
<1>2. CASE Invalidate
  BY <1>2 DEF Invalidate, IInv, TypeOK, OneRunning, CallerFits
<1>3. ASSUME NEW c \in Callers, Leave(c) PROVE IInv'
  BY <1>3 DEF Leave, Idle, IInv, TypeOK, OneRunning, CallerFits
<1>4. CASE UNCHANGED vars
  BY <1>4 DEF vars, IInv, TypeOK, OneRunning, CallerFits
<1> QED BY <1>1, <1>2, <1>3, <1>4, HitIInv, JoinIInv, ProduceIInv, WalkSucceedsIInv,
           WalkFailsIInv DEF Next

-----------------------------------------------------------------------------
(* The paged walks are walks of the cache. *)

LEMMA PagedIsCached == [PagedNext]_pagedVars => [Next]_vars
<1> SUFFICES ASSUME [PagedNext]_pagedVars PROVE [Next]_vars
  OBVIOUS
<1>1. ASSUME NEW w \in Walks, PageAnswered(w) PROVE [Next]_vars
  BY <1>1 DEF PageAnswered
<1>2. ASSUME NEW w \in Walks, LastPageAnswered(w) \/ PageFailed(w) PROVE [Next]_vars
  BY <1>2 DEF LastPageAnswered, PageFailed, Next
<1>3. CASE (Tick \/ Invalidate) /\ UNCHANGED walk
  BY <1>3 DEF Next
<1>4. ASSUME NEW c \in Callers, Hit(c) \/ Join(c) \/ Produce(c) \/ Leave(c)
      PROVE  [Next]_vars
  BY <1>4 DEF Next
<1>5. CASE UNCHANGED pagedVars
  BY <1>5 DEF pagedVars
<1> QED BY <1>1, <1>2, <1>3, <1>4, <1>5 DEF PagedNext

\* Whatever the pages hold and whichever of them fails, behind the cache the
\* walks behave as the walks TtlCache takes in one step.
THEOREM PagedWalksAreWalks == PagedSpec => Init /\ [][Next]_vars
<1>1. PagedInit => Init
  BY DEF PagedInit
<1> QED BY <1>1, PagedIsCached, PTL DEF PagedSpec

LEMMA Inductive == PagedSpec => []IInv
  BY PagedWalksAreWalks, InitIInv, NextIInv, PTL

\* Every variable of the cache keeps to its type (cache.mjs).
THEOREM TypeCorrect == PagedSpec => []TypeOK
  BY Inductive, PTL DEF IInv

\* Blockscout never sees two walks of one list at once, however callers,
\* failures, expiries and invalidations interleave (cache.mjs get).
THEOREM OneWalkAtATime == PagedSpec => []SingleFlight
<1>1. ASSUME IInv PROVE SingleFlight
  <2> DEFINE R == {w \in Walks : walks[w].status = "running"}
  <2>1. R \subseteq {inFlight}
    BY <1>1 DEF IInv, OneRunning
  <2>2. IsFiniteSet({inFlight}) /\ Cardinality({inFlight}) = 1
    BY FS_Singleton
  <2>3. IsFiniteSet(R) /\ Cardinality(R) <= 1
    BY <2>1, <2>2, FS_Subset
  <2> QED BY <2>3 DEF SingleFlight
<1> QED BY <1>1, Inductive, PTL

\* No caller is given a list that was complete TTL or longer before it asked,
\* however callers join walks and walks fail (cache.mjs get).
THEOREM ServedFresh == PagedSpec => []NoStaleValue
<1>1. IInv => NoStaleValue
  BY DEF IInv, CallerFits, NoStaleValue
<1> QED BY <1>1, Inductive, PTL

\* No caller is given an error but that of the walk it waited for: a failure is
\* not kept for the callers after it (cache.mjs get).
THEOREM FailuresNotKept == PagedSpec => []NoPoisonedCaller
<1>1. IInv => NoPoisonedCaller
  BY DEF IInv, CallerFits, NoPoisonedCaller
<1> QED BY <1>1, Inductive, PTL

-----------------------------------------------------------------------------
(* What the walks fold *)

\* Where contract c is listed, standard by standard and up to the cap, and
\* which of those places come before page p of standard s.
Places(c) == {x \in (1..Len(Pages)) \X (1..MaxPages) :
                 x[2] \in Listed(x[1]) /\ Pages[x[1]][x[2]] = c}
Before(s, p, c) == {x \in Places(c) : x[1] < s \/ (x[1] = s /\ x[2] < p)}

Underway(w) ==
    /\ walk[w].standard \in 1..Len(Pages)
    /\ walk[w].page \in Listed(walk[w].standard)
    /\ \A c \in Contracts :
          walk[w].instances[c] = Cardinality(Before(walk[w].standard, walk[w].page, c))

WalkType == [standard : Nat, page : Nat, instances : [Contracts -> Nat]]

FoldInv ==
    /\ walk \in [Walks -> WalkType]
    /\ \A w \in Walks :
          IF walks[w].status = "ok"
          THEN \A c \in Contracts : walk[w].instances[c] = Held(c)
          ELSE Underway(w)

LEMMA PagesListed ==
    /\ Len(Pages) \in Nat \ {0} /\ MaxPages \in Nat \ {0}
    /\ \A s \in 1..Len(Pages) :
          /\ Pages[s] \in Seq(Contracts) /\ Len(Pages[s]) \in Nat \ {0}
          /\ Listed(s) \subseteq 1..MaxPages /\ Listed(s) \subseteq 1..Len(Pages[s])
          /\ 1 \in Listed(s)
          /\ \A p \in Listed(s) : Pages[s][p] \in Contracts
<1>1. Pages \in Seq(Seq(Contracts) \ {<<>>}) /\ Pages # <<>> /\ MaxPages \in Nat \ {0}
  BY PagesAssumption
<1>2. Len(Pages) \in Nat \ {0}
  BY <1>1
<1>3. ASSUME NEW s \in 1..Len(Pages)
      PROVE  /\ Pages[s] \in Seq(Contracts) /\ Len(Pages[s]) \in Nat \ {0}
             /\ Listed(s) \subseteq 1..MaxPages /\ Listed(s) \subseteq 1..Len(Pages[s])
             /\ 1 \in Listed(s)
             /\ \A p \in Listed(s) : Pages[s][p] \in Contracts
  <2>1. Pages[s] \in Seq(Contracts) /\ Pages[s] # <<>>
    BY <1>1
  <2>2. Len(Pages[s]) \in Nat \ {0}
    BY <2>1
  <2>3. Listed(s) \subseteq 1..MaxPages /\ Listed(s) \subseteq 1..Len(Pages[s]) /\ 1 \in Listed(s)
    BY <1>1, <2>2 DEF Listed
  <2> QED BY <2>1, <2>2, <2>3
<1> QED BY <1>1, <1>2, <1>3

LEMMA PlacesFinite ==
    ASSUME NEW c
    PROVE  /\ IsFiniteSet(Places(c)) /\ Held(c) = Cardinality(Places(c))
           /\ \A s, p : IsFiniteSet(Before(s, p, c)) /\ Cardinality(Before(s, p, c)) \in Nat
<1>1. IsFiniteSet(1..Len(Pages)) /\ IsFiniteSet(1..MaxPages)
  BY PagesListed, FS_Interval
<1>2. IsFiniteSet((1..Len(Pages)) \X (1..MaxPages))
  BY <1>1, FS_Product
<1>3. IsFiniteSet(Places(c))
  BY <1>2, FS_Subset DEF Places
<1>4. ASSUME NEW s, NEW p
      PROVE  IsFiniteSet(Before(s, p, c)) /\ Cardinality(Before(s, p, c)) \in Nat
  <2>1. Before(s, p, c) \in SUBSET Places(c)
    BY DEF Before
  <2> QED BY <1>3, <2>1, FS_Subset, FS_CardinalityType
<1> QED BY <1>3, <1>4 DEF Held, Places

\* Nothing is before the first page of the first standard.
LEMMA NothingBefore == ASSUME NEW c PROVE Before(1, 1, c) = {}
  BY PagesListed DEF Before, Places

\* The item of a page is one more of its contract, and the page after it is the
\* next of the standard, or at the end or the cap the first of the next standard.
LEMMA PageCounted ==
    ASSUME NEW s \in 1..Len(Pages), NEW p \in Listed(s), NEW c \in Contracts,
           NEW n \in Nat, n = Cardinality(Before(s, p, c)),
           NEW after, after \subseteq Places(c),
           \A x \in Places(c) :
              x \in after <=> x[1] < s \/ (x[1] = s /\ x[2] <= p)
    PROVE  Cardinality(after) = IF Pages[s][p] = c THEN n + 1 ELSE n
<1>1. s \in Nat /\ p \in Nat /\ p \in 1..MaxPages
  BY PagesListed
<1>2. \A x \in Places(c) : /\ x = <<x[1], x[2]>> /\ x[1] \in 1..Len(Pages)
                           /\ x[2] \in 1..MaxPages /\ Pages[x[1]][x[2]] = c
  BY DEF Places
<1>3. <<s, p>> \notin Before(s, p, c)
  BY <1>1 DEF Before
<1>4. IsFiniteSet(Before(s, p, c))
  BY PlacesFinite
<1>5. CASE Pages[s][p] = c
  <2>1. <<s, p>> \in Places(c)
    BY <1>1, <1>5 DEF Places
  <2>2. ASSUME NEW x \in after PROVE x \in Before(s, p, c) \cup {<<s, p>>}
    <3>1. x \in Places(c) /\ (x[1] < s \/ (x[1] = s /\ x[2] <= p))
      BY <2>2
    <3>2. x = <<x[1], x[2]>> /\ x[1] \in Nat /\ x[2] \in Nat
      BY <1>2, <3>1
    <3>3. CASE x[1] = s /\ x[2] = p
      BY <3>2, <3>3
    <3>4. CASE x[1] < s \/ (x[1] = s /\ x[2] < p)
      BY <3>1, <3>4 DEF Before
    <3> QED BY <1>1, <3>1, <3>2, <3>3, <3>4
  <2>3. ASSUME NEW x \in Before(s, p, c) PROVE x \in after
    <3>1. x \in Places(c) /\ (x[1] < s \/ (x[1] = s /\ x[2] < p))
      BY <2>3 DEF Before
    <3>2. x[1] \in Nat /\ x[2] \in Nat
      BY <1>2, <3>1
    <3> QED BY <1>1, <3>1, <3>2
  <2>4. <<s, p>> \in after
    <3>1. p <= p /\ <<s, p>>[1] = s /\ <<s, p>>[2] = p
      BY <1>1
    <3> QED BY <2>1, <3>1
  <2>5. after = Before(s, p, c) \cup {<<s, p>>}
    BY <2>2, <2>3, <2>4
  <2>6. Cardinality(Before(s, p, c) \cup {<<s, p>>}) = Cardinality(Before(s, p, c)) + 1
    BY <1>3, <1>4, FS_AddElement
  <2> QED BY <1>5, <2>5, <2>6
<1>6. CASE Pages[s][p] # c
  <2>1. ASSUME NEW x \in Places(c) PROVE ~(x[1] = s /\ x[2] = p)
    BY <1>2, <1>6
  <2>2. \A x \in Places(c) : x[1] \in Nat /\ x[2] \in Nat
    BY <1>2
  <2>3. after = Before(s, p, c)
    BY <1>1, <2>1, <2>2 DEF Before
  <2> QED BY <1>6, <2>3
<1> QED BY <1>5, <1>6

\* A walk that is under way, after one more page.
LEMMA FoldCounts ==
    ASSUME NEW w \in Walks, FoldInv, Underway(w), NEW after,
           \A c \in Contracts : after[c] \subseteq Places(c) /\
              \A x \in Places(c) :
                 x \in after[c] <=> \/ x[1] < walk[w].standard
                                    \/ (x[1] = walk[w].standard /\ x[2] <= walk[w].page)
    PROVE  /\ Folded(w, Item(w)) \in [Contracts -> Nat]
           /\ \A c \in Contracts : Folded(w, Item(w))[c] = Cardinality(after[c])
<1>1. /\ walk[w].standard \in 1..Len(Pages) /\ walk[w].page \in Listed(walk[w].standard)
      /\ walk[w].instances \in [Contracts -> Nat]
  BY DEF Underway, FoldInv, WalkType
<1>2. Item(w) = Pages[walk[w].standard][walk[w].page] /\ Item(w) \in Contracts
  BY <1>1, PagesListed DEF Item
<1>3. Folded(w, Item(w)) \in [Contracts -> Nat]
  BY <1>1, <1>2 DEF Folded
<1>4. ASSUME NEW c \in Contracts PROVE Folded(w, Item(w))[c] = Cardinality(after[c])
  <2>1. /\ walk[w].instances[c] \in Nat
        /\ walk[w].instances[c]
             = Cardinality(Before(walk[w].standard, walk[w].page, c))
    BY <1>1 DEF Underway
  <2>2. Folded(w, Item(w))[c] = IF Item(w) = c THEN walk[w].instances[c] + 1
                                ELSE walk[w].instances[c]
    BY <1>1, <1>2 DEF Folded
  <2>3. after[c] \subseteq Places(c) /\
          \A x \in Places(c) :
             x \in after[c] <=> \/ x[1] < walk[w].standard
                                \/ (x[1] = walk[w].standard /\ x[2] <= walk[w].page)
    OBVIOUS
  <2>4. Cardinality(after[c]) = IF Pages[walk[w].standard][walk[w].page] = c
                                THEN walk[w].instances[c] + 1 ELSE walk[w].instances[c]
    BY <1>1, <2>1, <2>3, PageCounted
  <2> QED BY <1>2, <2>2, <2>4
<1> QED BY <1>3, <1>4

\* At the end of a standard, or at the cap, no listed page of it is left.
LEMMA LastListed ==
    ASSUME NEW w \in Walks, FoldInv, Underway(w), ~MorePages(w)
    PROVE  \A p \in Listed(walk[w].standard) : p <= walk[w].page
<1> DEFINE s == walk[w].standard
<1>1. s \in 1..Len(Pages) /\ walk[w].page \in Listed(s)
  BY DEF Underway
<1>2. Len(Pages[s]) \in Nat /\ MaxPages \in Nat /\ walk[w].page \in Nat
  BY <1>1, PagesListed
<1>3. ~(walk[w].page < Len(Pages[s]) /\ walk[w].page < MaxPages)
  BY DEF MorePages, NamesNext
<1>4. \A p \in Listed(s) : p \in Nat /\ p <= Len(Pages[s]) /\ p <= MaxPages
  BY <1>1, <1>2, PagesListed
<1> HIDE DEF s
<1> QED BY <1>2, <1>3, <1>4 DEF s

LEMMA PlacesTyped ==
    ASSUME NEW c, NEW x \in Places(c)
    PROVE  /\ x[1] \in Nat /\ x[2] \in Nat /\ x[1] \in 1..Len(Pages)
           /\ x[2] \in Listed(x[1]) /\ x[2] >= 1
<1>1. x[1] \in 1..Len(Pages) /\ x[2] \in Listed(x[1]) /\ x[2] \in 1..MaxPages
  BY DEF Places
<1> QED BY <1>1, PagesListed

LEMMA PageAnsweredFold ==
    ASSUME IInv, FoldInv, NEW w \in Walks, PageAnswered(w)
    PROVE  FoldInv'
<1> DEFINE s == walk[w].standard
           p == walk[w].page
           t == Advanced(w).standard
           q == Advanced(w).page
<1>1. Underway(w) /\ walk[w] \in WalkType
  BY DEF PageAnswered, FoldInv
<1>2. /\ s \in 1..Len(Pages) /\ p \in Listed(s) /\ s \in Nat /\ p \in Nat
      /\ Len(Pages) \in Nat
  BY <1>1, PagesListed DEF Underway, WalkType
<1>3. /\ Advanced(w) \in WalkType
      /\ \/ MorePages(w) /\ t = s /\ q = p + 1
         \/ ~MorePages(w) /\ MoreStandards(w) /\ t = s + 1 /\ q = 1
  <2>1. CASE MorePages(w)
    BY <1>1, <1>2, <2>1 DEF Advanced, WalkType
  <2>2. CASE ~MorePages(w)
    <3>1. Advanced(w) = [walk[w] EXCEPT !.standard = @ + 1, !.page = 1]
      BY <2>2 DEF Advanced
    <3>2. Advanced(w) \in WalkType /\ t = s + 1 /\ q = 1
      <4>1. walk[w] \in [standard : Nat, page : Nat, instances : [Contracts -> Nat]]
        BY <1>1 DEF WalkType
      <4>2. s + 1 \in Nat
        BY <1>2
      <4>3. Advanced(w) = [standard |-> s + 1, page |-> 1, instances |-> walk[w].instances]
        BY <3>1, <4>1
      <4>4. walk[w].instances \in [Contracts -> Nat]
        BY <4>1
      <4> HIDE DEF s
      <4> QED BY <4>2, <4>3, <4>4 DEF WalkType
    <3>3. MoreStandards(w)
      BY <2>2 DEF PageAnswered
    <3> HIDE DEF s, p, t, q
    <3> QED BY <2>2, <3>2, <3>3
  <2> QED BY <2>1, <2>2
<1>4. t \in 1..Len(Pages) /\ q \in Listed(t)
  <2>1. CASE MorePages(w) /\ t = s /\ q = p + 1
    <3>1. /\ p < Len(Pages[s]) /\ p < MaxPages /\ 1 <= p
          /\ Len(Pages[s]) \in Nat /\ MaxPages \in Nat
      BY <1>2, <2>1, PagesListed DEF MorePages, NamesNext
    <3> HIDE DEF s, p, t, q
    <3> QED BY <1>2, <2>1, <3>1 DEF Listed
  <2>2. CASE ~MorePages(w) /\ MoreStandards(w) /\ t = s + 1 /\ q = 1
    <3>1. s < Len(Pages)
      BY <2>2 DEF MoreStandards
    <3> HIDE DEF s, p, t, q
    <3>2. t \in 1..Len(Pages)
      BY <1>2, <2>2, <3>1
    <3> QED BY <2>2, <3>2, PagesListed
  <2> QED BY <1>3, <2>1, <2>2
<1>5. ASSUME NEW c \in Contracts, NEW x \in Places(c)
      PROVE  x \in Before(t, q, c) <=> x[1] < s \/ (x[1] = s /\ x[2] <= p)
  <2>1. /\ x[1] \in Nat /\ x[2] \in Nat /\ x[2] \in Listed(x[1]) /\ x[2] >= 1
    BY PlacesTyped
  <2>2. x \in Before(t, q, c) <=> x[1] < t \/ (x[1] = t /\ x[2] < q)
    BY DEF Before
  <2>3. CASE t = s /\ q = p + 1
    <3> HIDE DEF s, p, t, q
    <3> QED BY <1>2, <2>1, <2>2, <2>3
  <2>4. CASE ~MorePages(w) /\ t = s + 1 /\ q = 1
    <3>1. x[1] = s => x[2] <= p
      BY <1>1, <2>1, <2>4, LastListed
    <3> HIDE DEF s, p, t, q
    <3> QED BY <1>2, <2>1, <2>2, <2>4, <3>1
  <2> QED BY <1>3, <2>3, <2>4
<1>6. /\ Folded(w, Item(w)) \in [Contracts -> Nat]
      /\ \A c \in Contracts : Folded(w, Item(w))[c] = Cardinality(Before(t, q, c))
  <2> DEFINE after == [c \in Contracts |-> Before(t, q, c)]
  <2>1. \A c \in Contracts : after[c] = Before(t, q, c) /\ after[c] \subseteq Places(c)
    BY DEF Before
  <2> HIDE DEF after
  <2>2. \A c \in Contracts : after[c] \subseteq Places(c) /\
              \A x \in Places(c) :
                 x \in after[c] <=> \/ x[1] < walk[w].standard
                                    \/ (x[1] = walk[w].standard /\ x[2] <= walk[w].page)
    BY <1>5, <2>1
  <2>3. /\ Folded(w, Item(w)) \in [Contracts -> Nat]
        /\ \A c \in Contracts : Folded(w, Item(w))[c] = Cardinality(after[c])
    BY <1>1, <2>2, FoldCounts
  <2> QED BY <2>1, <2>3
<1>7. /\ walk' = [walk EXCEPT ![w] = [Advanced(w) EXCEPT !.instances = Folded(w, Item(w))]]
      /\ walks' = walks /\ walks[w].status # "ok"
  BY DEF PageAnswered, vars
<1>8. /\ walk'[w].standard = t /\ walk'[w].page = q
      /\ walk'[w].instances = Folded(w, Item(w))
      /\ \A v \in Walks : v # w => walk'[v] = walk[v]
      /\ walk' \in [Walks -> WalkType]
  <2>1. walk \in [Walks -> WalkType]
    BY DEF FoldInv
  <2> DEFINE next == [Advanced(w) EXCEPT !.instances = Folded(w, Item(w))]
  <2>2. /\ next.standard = t /\ next.page = q /\ next.instances = Folded(w, Item(w))
        /\ next \in WalkType
    BY <1>3, <1>6 DEF WalkType
  <2> HIDE DEF next, t, q
  <2>3. walk' = [walk EXCEPT ![w] = next]
    BY <1>7 DEF next
  <2> QED BY <2>1, <2>2, <2>3
<1>9. Underway(w)'
  <2> HIDE DEF s, p, t, q
  <2>1. walk'[w].standard \in 1..Len(Pages) /\ walk'[w].page \in Listed(walk'[w].standard)
    BY <1>4, <1>8
  <2>2. \A c \in Contracts : walk'[w].instances[c]
                               = Cardinality(Before(walk'[w].standard, walk'[w].page, c))
    BY <1>6, <1>8
  <2> QED BY <2>1, <2>2 DEF Underway, Listed, Before, Places
<1>10. ASSUME NEW v \in Walks, v # w
       PROVE  IF walks'[v].status = "ok"
              THEN \A c \in Contracts : walk'[v].instances[c] = Held(c)
              ELSE Underway(v)'
  BY <1>7, <1>8, <1>10 DEF FoldInv, Underway
<1> QED BY <1>7, <1>8, <1>9, <1>10 DEF FoldInv, Held, Underway

LEMMA LastPageFold ==
    ASSUME IInv, FoldInv, NEW w \in Walks, LastPageAnswered(w)
    PROVE  FoldInv'
<1>1. Underway(w) /\ walk[w] \in WalkType /\ walk \in [Walks -> WalkType]
  BY DEF LastPageAnswered, WalkSucceeds, FoldInv
<1>2. ASSUME NEW c \in Contracts, NEW x \in Places(c)
      PROVE  x[1] < walk[w].standard \/ (x[1] = walk[w].standard /\ x[2] <= walk[w].page)
  <2>1. x[1] \in 1..Len(Pages) /\ x[2] \in Listed(x[1])
    BY PlacesTyped
  <2>2. walk[w].standard = Len(Pages)
    <3>1. walk[w].standard \in 1..Len(Pages) /\ ~(walk[w].standard < Len(Pages))
      BY <1>1 DEF Underway, LastPageAnswered, MoreStandards
    <3> QED BY <3>1, PagesListed
  <2>3. \A p \in Listed(walk[w].standard) : p <= walk[w].page
    BY <1>1, LastListed DEF LastPageAnswered
  <2> QED BY <2>1, <2>2, <2>3, PagesListed
<1>3. /\ Folded(w, Item(w)) \in [Contracts -> Nat]
      /\ \A c \in Contracts : Folded(w, Item(w))[c] = Held(c)
  <2> DEFINE after == [c \in Contracts |-> Places(c)]
  <2>1. \A c \in Contracts : after[c] = Places(c)
    OBVIOUS
  <2> HIDE DEF after
  <2>2. \A c \in Contracts : after[c] \subseteq Places(c) /\
              \A x \in Places(c) :
                 x \in after[c] <=> \/ x[1] < walk[w].standard
                                    \/ (x[1] = walk[w].standard /\ x[2] <= walk[w].page)
    BY <1>2, <2>1
  <2>3. /\ Folded(w, Item(w)) \in [Contracts -> Nat]
        /\ \A c \in Contracts : Folded(w, Item(w))[c] = Cardinality(after[c])
    BY <1>1, <2>2, FoldCounts
  <2> QED BY <2>1, <2>3, PlacesFinite
<1>4. /\ walk' = [walk EXCEPT ![w].instances = Folded(w, Item(w))]
      /\ walks' = [walks EXCEPT ![w] = [status |-> "ok", ended |-> now]]
  BY DEF LastPageAnswered, WalkSucceeds
<1>5. /\ walk' \in [Walks -> WalkType]
      /\ walk'[w].instances = Folded(w, Item(w))
      /\ \A v \in Walks : v # w => walk'[v] = walk[v]
  BY <1>1, <1>3, <1>4 DEF WalkType
<1>6. walks'[w].status = "ok" /\ \A v \in Walks : v # w => walks'[v] = walks[v]
  BY <1>4 DEF IInv, TypeOK
<1>7. ASSUME NEW v \in Walks, v # w
      PROVE  IF walks'[v].status = "ok"
             THEN \A c \in Contracts : walk'[v].instances[c] = Held(c)
             ELSE Underway(v)'
  BY <1>5, <1>6, <1>7 DEF FoldInv, Underway
<1> QED BY <1>3, <1>5, <1>6, <1>7 DEF FoldInv, Held

LEMMA FirstPageUnderway ==
    /\ AtFirstPage \in WalkType
    /\ \A w \in Walks : walk[w] = AtFirstPage => Underway(w)
    /\ \A w \in Walks : walk'[w] = AtFirstPage => Underway(w)'
<1>1. /\ AtFirstPage.standard = 1 /\ AtFirstPage.page = 1 /\ AtFirstPage \in WalkType
      /\ \A c \in Contracts : AtFirstPage.instances[c] = 0
  BY DEF AtFirstPage, NoItems, WalkType
<1>2. 1 \in 1..Len(Pages) /\ 1 \in Listed(1)
  BY PagesListed
<1>3. \A c : Cardinality(Before(1, 1, c)) = 0
  BY NothingBefore, FS_EmptySet
<1> QED BY <1>1, <1>2, <1>3 DEF Underway

LEMMA PageFailedFold ==
    ASSUME IInv, FoldInv, NEW w \in Walks, PageFailed(w)
    PROVE  FoldInv'
<1>1. /\ walk' = [walk EXCEPT ![w] = AtFirstPage]
      /\ walks' = [walks EXCEPT ![w] = [status |-> "failed", ended |-> now]]
  BY DEF PageFailed, WalkFails
<1>2. /\ walk' \in [Walks -> WalkType] /\ walk'[w] = AtFirstPage
      /\ \A v \in Walks : v # w => walk'[v] = walk[v]
  BY <1>1, FirstPageUnderway DEF FoldInv
<1>3. walks'[w].status # "ok" /\ \A v \in Walks : v # w => walks'[v] = walks[v]
  BY <1>1 DEF IInv, TypeOK
<1>4. Underway(w)'
  BY <1>2, FirstPageUnderway
<1>5. ASSUME NEW v \in Walks, v # w
      PROVE  IF walks'[v].status = "ok"
             THEN \A c \in Contracts : walk'[v].instances[c] = Held(c)
             ELSE Underway(v)'
  BY <1>2, <1>3, <1>5 DEF FoldInv, Underway
<1> QED BY <1>2, <1>3, <1>4, <1>5 DEF FoldInv, Held

\* What changes in the cache, but for the end of a walk, is nothing to the fold.
LEMMA CacheStepFold ==
    ASSUME FoldInv, UNCHANGED walk,
           \A v \in Walks : walks'[v].status = "ok" <=> walks[v].status = "ok"
    PROVE  FoldInv'
  BY DEF FoldInv, Underway, Held

LEMMA NextFold == IInv /\ FoldInv /\ [PagedNext]_pagedVars => FoldInv'
<1> SUFFICES ASSUME IInv, FoldInv, [PagedNext]_pagedVars PROVE FoldInv'
  OBVIOUS
<1>1. CASE (Tick \/ Invalidate) /\ UNCHANGED walk
  BY <1>1, CacheStepFold DEF Tick, Invalidate
<1>2. ASSUME NEW c \in Callers, Hit(c) \/ Join(c) \/ Leave(c), UNCHANGED walk
      PROVE  FoldInv'
  BY <1>2, CacheStepFold DEF Hit, Join, Leave
<1>3. ASSUME NEW c \in Callers, Produce(c), UNCHANGED walk PROVE FoldInv'
  <2>1. PICK w \in Walks : /\ walks[w].status = "unstarted"
                           /\ walks' = [walks EXCEPT ![w].status = "running"]
    BY <1>3 DEF Produce
  <2>2. \A v \in Walks : walks'[v].status = "ok" <=> walks[v].status = "ok"
    BY <2>1 DEF IInv, TypeOK
  <2> QED BY <1>3, <2>2, CacheStepFold
<1>4. CASE UNCHANGED pagedVars
  BY <1>4, CacheStepFold DEF pagedVars, vars
<1> QED BY <1>1, <1>2, <1>3, <1>4, PageAnsweredFold, LastPageFold, PageFailedFold
        DEF PagedNext

LEMMA InitFold == PagedInit => FoldInv
<1> SUFFICES ASSUME PagedInit PROVE FoldInv
  OBVIOUS
<1>1. \A w \in Walks : walk[w] = AtFirstPage /\ walks[w].status = "unstarted"
  BY DEF PagedInit, Init, Unstarted
<1>2. walk \in [Walks -> WalkType]
  BY FirstPageUnderway DEF PagedInit
<1> QED BY <1>1, <1>2, FirstPageUnderway DEF FoldInv

\* A list that is served counts every item of the listed pages of every standard
\* once, whatever the pages, the cap and the pages that failed before
\* (blockscout.mjs fetchNftHoldings).
THEOREM WholeListsServed == PagedSpec => []NoHalfList
<1>1. FoldInv => NoHalfList
  BY DEF FoldInv, NoHalfList
<1> QED BY <1>1, InitFold, NextFold, Inductive, PTL DEF PagedSpec
=============================================================================
