------------------------ MODULE ApprovalScan_proofs ------------------------
(***************************************************************************)
(* Proofs about the approval scanner, for any chunk, overlap, lag and      *)
(* depth of reorganisations with Overlap >= Lag + Depth, any pairs and any *)
(* number of scans.                                                        *)
(*                                                                         *)
(* MissesOnlyRecent speaks of the chain as it is; a reorganisation makes   *)
(* the chain what it was.  So the invariant (FoundIn) speaks of every tip  *)
(* f a reorganisation may still go back to: if the pair would be live      *)
(* there, an event in the blocks up to f is among those that matter.       *)
(* Which matter depends on how far a scan is: those it has still to read,  *)
(* and those the next scan from its report will read (Accepted).           *)
(***************************************************************************)
EXTENDS ApprovalScan, TLAPS

Kinds == {Passes[i] : i \in 1..3}
Events == Pairs \X Kinds \X (Nat \ {0})

-----------------------------------------------------------------------------
(* What a chain state says, as operators of its parts *)

KeptIn(tp, al, f, p) == \A b \in f..tp : al[b][p] >= al[f][p]

\* Wherever the chain may go back to, a pair that would be live there, for
\* longer than e, has an event among X.
FoundIn(tp, ck, al, ev, p, e, X) ==
    \A f \in 0..tp :
        f + Depth >= ck /\ KeptIn(tp, al, f, p) /\ al[f][p] > ck /\ al[f][p] > e
            => \E x \in ev : x \in X /\ x[1] = p /\ x[3] <= f

\* An allowance grows by events only.
GrowsIn(tp, al, ev) ==
    \A p \in Pairs : \A b \in 0..tp : \A c \in 0..tp :
        b < c /\ al[b][p] < al[c][p] =>
            \E x \in ev : x[1] = p /\ b < x[3] /\ x[3] <= c

ChainOK ==
    /\ clock <= tip + Depth
    /\ \A p \in Pairs : allow[0][p] = 0
    /\ GrowsIn(tip, allow, events)
    /\ \A p \in Pairs, b \in 0..tip : allow[b][p] > clock => lastLive[p] >= b

-----------------------------------------------------------------------------
(* What they say of one place *)

LEMMA KeptAt ==
    ASSUME NEW tp, NEW al, NEW f \in Nat, NEW p, KeptIn(tp, al, f, p),
           NEW b \in Nat, f <= b, b <= tp, tp \in Nat
    PROVE  al[b][p] >= al[f][p]
  BY DEF KeptIn

LEMMA GrowsAt ==
    ASSUME NEW tp \in Nat, NEW al, NEW ev, GrowsIn(tp, al, ev), NEW p \in Pairs,
           NEW b \in Nat, NEW c \in Nat, b < c, c <= tp, al[b][p] < al[c][p]
    PROVE  \E x \in ev : x[1] = p /\ b < x[3] /\ x[3] <= c
  <1>1. b \in 0..tp /\ c \in 0..tp
    OBVIOUS
  <1> QED BY <1>1 DEF GrowsIn

LEMMA FoundAt ==
    ASSUME NEW tp \in Nat, NEW ck, NEW al, NEW ev, NEW p, NEW e, NEW X,
           FoundIn(tp, ck, al, ev, p, e, X), NEW f \in Nat, f <= tp,
           f + Depth >= ck, KeptIn(tp, al, f, p), al[f][p] > ck, al[f][p] > e
    PROVE  \E x \in ev : x \in X /\ x[1] = p /\ x[3] <= f
  <1>1. f \in 0..tp
    OBVIOUS
  <1> QED BY <1>1 DEF FoundIn

-----------------------------------------------------------------------------
(* The chain's steps *)

ChainTyped ==
    /\ tip \in 0..MaxBlock /\ clock \in tip..MaxBlock
    /\ allow \in [0..MaxBlock -> [Pairs -> Nat]]
    /\ events \in SUBSET Events /\ \A x \in events : x[3] <= tip
    /\ changes \in 0..MaxChanges
    /\ lastLive \in [Pairs -> 0..clock]

\* A block whose events explain what it raises.
Explained(a, evs) ==
    /\ a \in [Pairs -> Nat]
    /\ evs \in SUBSET Events /\ \A x \in evs : x[3] = tip + 1
    /\ \A q \in Pairs : a[q] > allow[tip][q] => \E x \in evs : x[1] = q
    /\ NewBlock(a, evs)
    /\ changes' \in 0..MaxChanges

LEMMA ChainShape ==
    ASSUME ChainTyped, Chain
    PROVE  \/ \E a, evs : Explained(a, evs)
           \/ \E f \in 0..MaxBlock : Reorganise(f)
<1> USE ScanAssumption DEF ChainTyped
<1>0. allow[tip] \in [Pairs -> Nat] /\ tip + 1 \in Nat
  OBVIOUS
<1>1. CASE Mine
  <2>1. Explained(allow[tip], {})
    BY <1>0, <1>1 DEF Mine, Explained
  <2> QED BY <2>1
<1>2. ASSUME NEW p \in Pairs, NEW k \in Kinds, NEW e \in Nat,
             Change(p, e, {<<p, k, tip + 1>>})
      PROVE  \E a, evs : Explained(a, evs)
  <2> DEFINE a == [allow[tip] EXCEPT ![p] = e]
             evs == {<<p, k, tip + 1>>}
  <2>1. a \in [Pairs -> Nat] /\ evs \in SUBSET Events /\ \A x \in evs : x[3] = tip + 1
    BY <1>0 DEF Events
  <2>2. \A q \in Pairs : a[q] > allow[tip][q] => q = p
    BY <1>0
  <2>3. \A q \in Pairs : a[q] > allow[tip][q] => \E x \in evs : x[1] = q
    BY <2>2
  <2>4. Explained(a, evs)
    BY <1>2, <2>1, <2>3 DEF Explained, Change
  <2> QED BY <2>4
<1>3. ASSUME NEW p \in Pairs, Change(p, 0, {}) PROVE \E a, evs : Explained(a, evs)
  <2> DEFINE a == [allow[tip] EXCEPT ![p] = 0]
  <2>1. a \in [Pairs -> Nat] /\ \A q \in Pairs : ~(a[q] > allow[tip][q])
    BY <1>0
  <2>2. Explained(a, {})
    BY <1>3, <2>1 DEF Explained, Change
  <2> QED BY <2>2
<1>4. ASSUME NEW p \in Pairs, NEW k \in Kinds, Grant(p, k)
      PROVE  \E a, evs : Explained(a, evs)
  <2>1. PICK n \in Lifetimes \cup {Forever} :
           Change(p, IF n = Forever THEN Forever ELSE tip + 1 + n, {<<p, k, tip + 1>>})
    BY <1>4 DEF Grant
  <2>2. (IF n = Forever THEN Forever ELSE tip + 1 + n) \in Nat
    BY <1>0 DEF Forever
  <2> QED BY <1>2, <2>1, <2>2
<1>5. ASSUME NEW p \in Pairs, NEW k \in Kinds, Revoke(p, k)
      PROVE  \E a, evs : Explained(a, evs)
  BY <1>2, <1>5 DEF Revoke
<1>6. ASSUME NEW p \in Pairs, UseUp(p) PROVE \E a, evs : Explained(a, evs)
  BY <1>3, <1>6 DEF UseUp
<1> QED BY <1>1, <1>4, <1>5, <1>6 DEF Chain, Kinds

LEMMA BlockGrows ==
    ASSUME ChainTyped, GrowsIn(tip, allow, events), NEW a, NEW evs, Explained(a, evs)
    PROVE  GrowsIn(tip', allow', events')
<1> USE ScanAssumption DEF ChainTyped
<1>1. /\ tip' = tip + 1 /\ events' = events \cup evs
      /\ \A b \in 0..tip : allow'[b] = allow[b]
      /\ allow'[tip + 1] = a /\ a \in [Pairs -> Nat]
  BY DEF Explained, NewBlock
<1>2. ASSUME NEW p \in Pairs, NEW b \in 0..tip', NEW c \in 0..tip',
             b < c, allow'[b][p] < allow'[c][p]
      PROVE  \E x \in events' : x[1] = p /\ b < x[3] /\ x[3] <= c
  <2>1. CASE c <= tip
    <3>1. allow'[b] = allow[b] /\ allow'[c] = allow[c]
      BY <1>1, <1>2, <2>1
    <3>2. b \in Nat /\ c \in Nat /\ tip \in Nat /\ allow[b][p] < allow[c][p]
      BY <1>1, <1>2, <3>1
    <3> HIDE ScanAssumption DEF ChainTyped
    <3>3. \E x \in events : x[1] = p /\ b < x[3] /\ x[3] <= c
      BY <1>2, <2>1, <3>2, GrowsAt
    <3> QED BY <1>1, <3>3
  <2>2. CASE c = tip + 1 /\ a[p] > allow[tip][p]
    <3>1. PICK x \in evs : x[1] = p
      BY <2>2 DEF Explained
    <3>2. x[3] = tip + 1
      BY DEF Explained
    <3>3. x \in events' /\ b < tip + 1 /\ tip + 1 <= c /\ tip \in Nat
      BY <1>1, <1>2, <2>2
    <3> HIDE ScanAssumption DEF ChainTyped
    <3> QED BY <3>1, <3>2, <3>3
  <2>3. CASE c = tip + 1 /\ ~(a[p] > allow[tip][p])
    <3>1. b <= tip /\ allow'[b][p] = allow[b][p] /\ allow'[c][p] = a[p]
      BY <1>1, <1>2, <2>3
    <3>2. allow[b][p] \in Nat /\ allow[tip][p] \in Nat /\ a[p] \in Nat
      BY <1>1, <3>1
    <3>3. allow[b][p] < allow[tip][p] /\ b < tip
      BY <1>2, <2>3, <3>1, <3>2
    <3>6. b \in Nat /\ tip \in Nat /\ tip <= tip
      OBVIOUS
    <3>4. PICK x \in events : x[1] = p /\ b < x[3] /\ x[3] <= tip
      <4> HIDE ScanAssumption DEF ChainTyped
      <4> QED BY <3>6, <3>3, GrowsAt
    <3>5. x[3] \in Nat
      BY DEF Events
    <3> QED BY SMTT(30), <1>1, <2>3, <3>4, <3>5
  <2> QED BY <1>1, <1>2, <2>1, <2>2, <2>3
<1> QED BY <1>2 DEF GrowsIn

LEMMA BlockFound ==
    ASSUME ChainTyped, clock <= tip + Depth, NEW a, NEW evs, Explained(a, evs),
           NEW p \in Pairs, NEW e \in Nat, NEW X,
           \A x \in Events : x[3] > tip => x \in X,
           FoundIn(tip, clock, allow, events, p, e, X)
    PROVE  FoundIn(tip', clock', allow', events', p, e, X)
<1> USE ScanAssumption DEF ChainTyped
<1>1. /\ tip' = tip + 1 /\ events' = events \cup evs
      /\ \A b \in 0..tip : allow'[b] = allow[b]
      /\ allow'[tip + 1] = a /\ a \in [Pairs -> Nat]
      /\ clock' \in Nat /\ clock' >= clock
  BY DEF Explained, NewBlock, Larger
<1>6. tip + Depth >= clock
  OBVIOUS
<1>2. ASSUME NEW f \in 0..tip', f + Depth >= clock', KeptIn(tip', allow', f, p),
             allow'[f][p] > clock', allow'[f][p] > e
      PROVE  \E x \in events' : x \in X /\ x[1] = p /\ x[3] <= f
  <2>1. CASE f <= tip
    <3>6. f \in Nat /\ tip \in Nat /\ clock \in Nat /\ f \in 0..tip /\ f \in 0..MaxBlock
      BY <1>1, <2>1
    <3>7. allow'[f] = allow[f]
      BY <1>1, <3>6
    <3>8. allow[f][p] \in Nat
      BY <3>6
    <3>0. f \in Nat /\ tip \in Nat /\ clock \in Nat /\ allow'[f] = allow[f]
          /\ allow[f][p] \in Nat
      BY <3>6, <3>7, <3>8
    <3>1. ASSUME NEW b \in f..tip PROVE allow[b][p] >= allow[f][p]
      <4>1. b \in Nat /\ f <= b /\ b <= tip' /\ tip' \in Nat /\ allow'[b] = allow[b]
        BY SMTT(30), <1>1, <3>0
      <4>2. allow'[b][p] >= allow'[f][p]
        BY <1>2, <3>0, <4>1, KeptAt
      <4> QED BY <3>0, <4>1, <4>2
    <3>2. KeptIn(tip, allow, f, p)
      BY <3>1 DEF KeptIn
    <3>3. allow[f][p] > clock /\ allow[f][p] > e /\ f + Depth >= clock
      BY SMTT(30), <1>1, <1>2, <3>0
    <3>4. \E x \in events : x \in X /\ x[1] = p /\ x[3] <= f
      <4> HIDE ScanAssumption DEF ChainTyped
      <4> QED BY <2>1, <3>0, <3>2, <3>3, FoundAt
    <3> QED BY <1>1, <3>4
  <2>2. CASE f = tip + 1 /\ a[p] > allow[tip][p]
    <3>1. PICK x \in evs : x[1] = p
      BY <2>2 DEF Explained
    <3>2. x[3] = tip + 1 /\ x \in Events
      BY DEF Explained
    <3> QED BY SMTT(30), <1>1, <2>2, <3>1, <3>2
  <2>3. CASE f = tip + 1 /\ ~(a[p] > allow[tip][p])
    <3>1. KeptIn(tip, allow, tip, p)
      BY DEF KeptIn
    <3>2. allow[tip][p] > clock /\ allow[tip][p] > e
      BY <1>1, <1>2, <2>3
    <3>5. tip \in Nat /\ tip <= tip
      OBVIOUS
    <3>3. PICK x \in events : x \in X /\ x[1] = p /\ x[3] <= tip
      <4> HIDE ScanAssumption DEF ChainTyped
      <4> QED BY <1>6, <3>1, <3>2, <3>5, FoundAt
    <3>4. x[3] \in Nat
      BY DEF Events
    <3> QED BY SMTT(30), <1>1, <2>3, <3>3, <3>4
  <2> QED BY <1>1, <1>2, <2>1, <2>2, <2>3
<1> QED BY <1>2 DEF FoundIn

LEMMA ReorgFound ==
    ASSUME ChainTyped, ~LoweringsOrphaned, NEW g \in 0..MaxBlock, Reorganise(g),
           NEW p \in Pairs, NEW e \in Nat, NEW X,
           FoundIn(tip, clock, allow, events, p, e, X)
    PROVE  FoundIn(tip', clock', allow', events', p, e, X)
<1> USE ScanAssumption DEF ChainTyped
<1>1. /\ tip' = g /\ g < tip /\ clock' = clock
      /\ events' = {x \in events : x[3] <= g}
      /\ \A b \in 0..g : allow'[b] = allow[b]
      /\ KeptIn(tip, allow, g, p)
  BY DEF Reorganise, Kept, KeptIn
<1>2. ASSUME NEW f \in 0..tip', f + Depth >= clock', KeptIn(tip', allow', f, p),
             allow'[f][p] > clock', allow'[f][p] > e
      PROVE  \E x \in events' : x \in X /\ x[1] = p /\ x[3] <= f
  <2>0. /\ f \in Nat /\ g \in Nat /\ tip \in Nat /\ f <= g /\ f <= tip
        /\ allow'[f] = allow[f] /\ allow[f][p] \in Nat /\ allow[g][p] \in Nat
        /\ allow'[g] = allow[g]
    BY <1>1, <1>2
  <2>1. ASSUME NEW b \in f..tip PROVE allow[b][p] >= allow[f][p]
    <3>0. b \in Nat /\ f <= b /\ b <= tip /\ allow[b][p] \in Nat
      BY <2>0
    <3>1. CASE b <= g
      <4>1. allow'[b][p] >= allow'[f][p]
        BY <1>1, <1>2, <2>0, <3>0, <3>1, KeptAt
      <4> QED BY SMTT(30), <1>1, <2>0, <3>0, <3>1, <4>1
    <3>2. CASE g <= b
      <4>1. allow[b][p] >= allow[g][p]
        BY <1>1, <2>0, <3>0, <3>2, KeptAt
      <4>2. allow'[g][p] >= allow'[f][p]
        <5>1. g <= tip' /\ tip' \in Nat
          BY <1>1
        <5> HIDE ScanAssumption DEF ChainTyped
        <5> QED BY <1>2, <2>0, <5>1, KeptAt
      <4> QED BY <2>0, <3>0, <4>1, <4>2
    <3> QED BY <2>0, <3>0, <3>1, <3>2
  <2>4. KeptIn(tip, allow, f, p)
    BY <2>1 DEF KeptIn
  <2>2. PICK x \in events : x \in X /\ x[1] = p /\ x[3] <= f
    <3>1. allow[f][p] > clock /\ allow[f][p] > e /\ f + Depth >= clock
      BY <1>1, <1>2, <2>0
    <3> HIDE ScanAssumption DEF ChainTyped
    <3> QED BY <2>0, <2>4, <3>1, FoundAt
  <2>3. x[3] \in Nat
    BY DEF Events
  <2> QED BY SMTT(30), <1>1, <2>2, <2>3
<1> QED BY <1>2 DEF FoundIn

\* What matters is not lost with a step of the chain, if new events matter.
LEMMA ChainFound ==
    ASSUME ChainTyped, clock <= tip + Depth, ~LoweringsOrphaned, Chain,
           NEW p \in Pairs, NEW e \in Nat, NEW X,
           \A x \in Events : x[3] > tip => x \in X,
           FoundIn(tip, clock, allow, events, p, e, X)
    PROVE  FoundIn(tip', clock', allow', events', p, e, X)
  BY ChainShape, BlockFound, ReorgFound
LEMMA ReorgGrows ==
    ASSUME ChainTyped, GrowsIn(tip, allow, events), NEW g \in 0..MaxBlock, Reorganise(g)
    PROVE  GrowsIn(tip', allow', events')
<1>1. /\ tip' = g /\ g \in Nat /\ tip \in Nat /\ g < tip
      /\ events' = {x \in events : x[3] <= g}
      /\ \A b \in 0..g : allow'[b] = allow[b]
  BY ScanAssumption DEF Reorganise, ChainTyped
<1>2. ASSUME NEW p \in Pairs, NEW b \in 0..tip', NEW c \in 0..tip',
             b < c, allow'[b][p] < allow'[c][p]
      PROVE  \E x \in events' : x[1] = p /\ b < x[3] /\ x[3] <= c
  <2>1. /\ b \in Nat /\ c \in Nat /\ c <= tip /\ c <= g
        /\ allow'[b] = allow[b] /\ allow'[c] = allow[c]
    BY <1>1
  <2>2. PICK x \in events : x[1] = p /\ b < x[3] /\ x[3] <= c
    BY <1>1, <1>2, <2>1, GrowsAt
  <2>3. x[3] \in Nat
    BY DEF ChainTyped, Events
  <2> QED BY <1>1, <2>1, <2>2, <2>3
<1> QED BY <1>2 DEF GrowsIn

LEMMA BlockOK ==
    ASSUME ChainTyped, ChainOK, NEW a, NEW evs, Explained(a, evs)
    PROVE  ChainOK'
<1>1. /\ tip \in Nat /\ tip' = tip + 1 /\ clock \in Nat /\ clock' \in Nat
      /\ clock' >= clock /\ clock' >= tip + 1
      /\ clock' = clock \/ clock' = tip + 1
      /\ \A b \in 0..tip : allow'[b] = allow[b]
      /\ allow'[tip + 1] = a
      /\ \A p \in Pairs : lastLive'[p] = IF a[p] > clock' THEN clock' ELSE lastLive[p]
      /\ \A p \in Pairs : lastLive[p] \in 0..clock
  BY ScanAssumption DEF Explained, NewBlock, Larger, ChainTyped
<1>2. clock' <= tip' + Depth
  BY <1>1, ScanAssumption DEF ChainOK
<1>3. \A p \in Pairs : allow'[0][p] = 0
  BY <1>1 DEF ChainOK
<1>4. GrowsIn(tip', allow', events')
  BY BlockGrows DEF ChainOK
<1>5. ASSUME NEW p \in Pairs, NEW b \in 0..tip', allow'[b][p] > clock'
      PROVE  lastLive'[p] >= b
  <2>1. CASE b = tip + 1
    BY <1>1, <1>5, <2>1
  <2>2. CASE b \in 0..tip
    <3>1. allow[b] \in [Pairs -> Nat] /\ allow'[b] = allow[b]
      BY <1>1, <2>2, ScanAssumption DEF ChainTyped
    <3>2. allow[b][p] > clock
      BY <1>1, <1>5, <3>1
    <3>3. lastLive[p] >= b
      BY <2>2, <3>2 DEF ChainOK
    <3> QED BY <1>1, <2>2, <3>3
  <2> QED BY <1>1, <2>1, <2>2
<1> QED BY <1>2, <1>3, <1>4, <1>5 DEF ChainOK

LEMMA ReorgOK ==
    ASSUME ChainTyped, ChainOK, NEW g \in 0..MaxBlock, Reorganise(g)
    PROVE  ChainOK'
<1>1. /\ tip' = g /\ g \in Nat /\ tip \in Nat /\ g < tip /\ g + Depth >= clock
      /\ clock' = clock /\ clock \in Nat /\ tip <= clock
      /\ \A b \in 0..g : allow'[b] = allow[b]
      /\ \A p \in Pairs :
            lastLive'[p] = IF allow[g][p] > clock THEN clock ELSE lastLive[p]
      /\ \A p \in Pairs : lastLive[p] \in 0..clock
  BY ScanAssumption DEF Reorganise, ChainTyped
<1>2. clock' <= tip' + Depth /\ \A p \in Pairs : allow'[0][p] = 0
  BY <1>1, ScanAssumption DEF ChainOK
<1>3. GrowsIn(tip', allow', events')
  BY ReorgGrows DEF ChainOK
<1>4. ASSUME NEW p \in Pairs, NEW b \in 0..tip', allow'[b][p] > clock'
      PROVE  lastLive'[p] >= b
  <2>1. b \in 0..tip /\ allow[b][p] > clock
    BY <1>1, <1>4
  <2>2. lastLive[p] >= b
    BY <2>1 DEF ChainOK
  <2> QED BY <1>1, <2>1, <2>2
<1> QED BY <1>2, <1>3, <1>4 DEF ChainOK

LEMMA ChainKeepsOK == ASSUME ChainTyped, ChainOK, Chain PROVE ChainOK'
  BY ChainShape, BlockOK, ReorgOK

LEMMA ChainTypes ==
    ASSUME ChainTyped, Chain
    PROVE  /\ ChainTyped' /\ clock' >= clock
           /\ \A p \in Pairs : lastLive'[p] >= lastLive[p]
           /\ UNCHANGED <<file, run>>
<1> USE ScanAssumption
<1>1. ASSUME NEW a, NEW evs, Explained(a, evs)
      PROVE  /\ ChainTyped' /\ clock' >= clock
             /\ \A p \in Pairs : lastLive'[p] >= lastLive[p]
             /\ UNCHANGED <<file, run>>
  <2>1. /\ tip' \in 0..MaxBlock /\ clock' \in tip'..MaxBlock /\ clock' >= clock
        /\ tip' = tip + 1 /\ UNCHANGED <<file, run>>
    BY <1>1 DEF Explained, NewBlock, Larger, ChainTyped
  <2>2. allow' \in [0..MaxBlock -> [Pairs -> Nat]]
    BY <1>1 DEF Explained, NewBlock, ChainTyped
  <2>3. events' \in SUBSET Events /\ \A x \in events' : x[3] <= tip'
    <3>1. events' = events \cup evs
      BY <1>1 DEF Explained, NewBlock
    <3>2. \A x \in events : x[3] \in Nat /\ x[3] <= tip
      BY DEF ChainTyped, Events
    <3> QED BY <1>1, <2>1, <3>1, <3>2 DEF Explained, ChainTyped
  <2>4. lastLive' \in [Pairs -> 0..clock'] /\ \A p \in Pairs : lastLive'[p] >= lastLive[p]
    <3>1. \A p \in Pairs : lastLive[p] \in 0..clock
      BY DEF ChainTyped
    <3>2. lastLive' = [p \in Pairs |-> IF a[p] > clock' THEN clock' ELSE lastLive[p]]
      BY <1>1 DEF Explained, NewBlock
    <3>3. clock \in Nat /\ clock' \in Nat
      BY <2>1 DEF ChainTyped
    <3> HIDE ScanAssumption
    <3> QED BY <2>1, <3>1, <3>2, <3>3
  <2>5. changes' \in 0..MaxChanges
    BY <1>1 DEF Explained
  <2> QED BY <2>1, <2>2, <2>3, <2>4, <2>5 DEF ChainTyped
<1>2. ASSUME NEW g \in 0..MaxBlock, Reorganise(g)
      PROVE  /\ ChainTyped' /\ clock' >= clock
             /\ \A p \in Pairs : lastLive'[p] >= lastLive[p]
             /\ UNCHANGED <<file, run>>
  <2>1. /\ tip' \in 0..MaxBlock /\ clock' \in tip'..MaxBlock /\ clock' >= clock
        /\ tip' = g /\ changes' = changes /\ UNCHANGED <<file, run>>
    BY <1>2 DEF Reorganise, ChainTyped
  <2>2. allow' \in [0..MaxBlock -> [Pairs -> Nat]]
    BY <1>2 DEF Reorganise, ChainTyped
  <2>3. events' \in SUBSET Events /\ \A x \in events' : x[3] <= tip'
    BY <1>2, <2>1 DEF Reorganise, ChainTyped
  <2>4. lastLive' \in [Pairs -> 0..clock'] /\ \A p \in Pairs : lastLive'[p] >= lastLive[p]
    BY <1>2, <2>1 DEF Reorganise, ChainTyped
  <2> QED BY <2>1, <2>2, <2>3, <2>4 DEF ChainTyped
<1> QED BY <1>1, <1>2, ChainShape

-----------------------------------------------------------------------------
(* The scan's steps, one run's record at a time *)

Files == [whole : BOOLEAN, report : Report]
RunStates == [phase : {"idle", "planning", "scanning", "rereading", "writing"},
              full : BOOLEAN, from : Nat, report : Report, pass : 1..3,
              todo : SUBSET (0..MaxBlock), pairs : SUBSET Pairs,
              entry : [Pairs -> Nat]]
RunTyped == file \in Files /\ run \in [Runs -> RunStates]

Zero == [p \in Pairs |-> 0]

\* Run r goes on as n; the chain stays.
Becomes(r, n) ==
    n \in RunStates /\ run' = [run EXCEPT ![r] = n] /\ UNCHANGED chainVars

LEMMA IdleTyped == Idle \in RunStates /\ Idle.phase = "idle"
  BY DEF Idle, RunStates, Legacy, Report, NoAnchor

LEMMA LaunchIs ==
    ASSUME RunTyped, NEW r \in Runs, NEW full \in BOOLEAN, Launch(r, full)
    PROVE  \E n : /\ Becomes(r, n) /\ n.phase = "planning" /\ n.report = file.report
                  /\ n.pass = 1 /\ n.entry = Zero /\ file.whole /\ file' = file
<1> DEFINE n == [Idle EXCEPT !.phase = "planning", !.full = full, !.report = file.report]
<1>1. file.report \in Report /\ file.whole /\ file' = file
  BY DEF Launch, RunTyped, Files
<1>2. Idle.pass = 1 /\ Idle.entry = Zero
  BY DEF Idle, Zero
<1>3. n \in RunStates
  BY <1>1, IdleTyped DEF RunStates
<1>5. /\ n.phase = "planning" /\ n.report = file.report
      /\ n.pass = Idle.pass /\ n.entry = Idle.entry
  BY IdleTyped DEF RunStates
<1>4. Becomes(r, n)
  BY <1>3 DEF Becomes, Launch
<1> QED BY <1>1, <1>2, <1>4, <1>5

\* A full walk begins at block 0 with no pair, an incremental one at the
\* anchor's overlap with the pairs of the report before.
PlansFull(n) == n.from = 0 /\ n.pairs = {}
PlansOn(n, prev) ==
    /\ prev.to \in Nat /\ n.from = FromBlock(prev.to) /\ n.pairs = prev.live

LEMMA PlanIs ==
    ASSUME ChainTyped, RunTyped, NEW r \in Runs, NEW h \in Heads, Plan(r, h)
    PROVE  \E n : /\ Becomes(r, n) /\ n.phase = "scanning"
                  /\ n.report = [to |-> h, at |-> clock, live |-> {}]
                  /\ n.pass = run[r].pass /\ n.entry = run[r].entry
                  /\ n.todo = n.from..h
                  /\ PlansFull(n) \/ PlansOn(n, run[r].report)
                  /\ run[r].phase = "planning" /\ file' = file
<1> DEFINE prev == run[r].report
           incremental == Incremental(run[r].full, prev.to, h)
           from == IF incremental THEN FromBlock(prev.to) ELSE 0
           n == [run[r] EXCEPT !.phase = "scanning", !.full = FALSE, !.from = from,
                   !.todo = from..h, !.pairs = IF incremental THEN prev.live ELSE {},
                   !.report = [to |-> h, at |-> clock, live |-> {}]]
<1>1. /\ run[r] \in RunStates /\ prev \in Report /\ h \in Nat /\ h <= MaxBlock
      /\ clock \in Nat
  BY ScanAssumption DEF RunTyped, RunStates, Heads, ChainTyped
<1>2. incremental => prev.to \in Nat
  BY DEF Incremental
<1>3. from \in Nat
  BY <1>2, ScanAssumption DEF FromBlock
<1>4. from..h \in SUBSET (0..MaxBlock)
  BY <1>1, <1>3, ScanAssumption
<1>5. (IF incremental THEN prev.live ELSE {}) \in SUBSET Pairs
  BY <1>1 DEF Report
<1>6. [to |-> h, at |-> clock, live |-> {}] \in Report
  BY <1>1 DEF Report
<1> HIDE DEF from, incremental
<1>7. n \in RunStates
  BY <1>1, <1>3, <1>4, <1>5, <1>6 DEF RunStates
<1>8. Becomes(r, n) /\ run[r].phase = "planning" /\ file' = file
  BY <1>7 DEF Plan, Becomes, RunTyped, from, incremental
<1>9. PlansFull(n) \/ PlansOn(n, prev)
  <2>1. CASE incremental
    BY <1>1, <1>2, <2>1 DEF PlansOn, from, RunStates
  <2>2. CASE ~incremental
    BY <1>1, <2>2 DEF PlansFull, from, RunStates
  <2> QED BY <2>1, <2>2
<1> QED BY <1>1, <1>8, <1>9 DEF RunStates

LEMMA ReadWindowIs ==
    ASSUME RunTyped, NEW r \in Runs, NEW b \in run[r].todo, NEW h, ReadWindow(r, b, h)
    PROVE  \E n : /\ Becomes(r, n) /\ n.phase = "scanning" /\ run[r].phase = "scanning"
                  /\ n.report = run[r].report /\ n.from = run[r].from
                  /\ n.pass = run[r].pass /\ n.entry = run[r].entry
                  /\ n.todo = run[r].todo \ Window(r, b)
                  /\ n.pairs = run[r].pairs
                        \cup Logged(Passes[run[r].pass], Window(r, b), h)
                  /\ file' = file
<1> DEFINE n == [run[r] EXCEPT !.todo = @ \ Window(r, b),
                   !.pairs = @ \cup Logged(Passes[run[r].pass], Window(r, b), h)]
<1>1. run[r] \in RunStates
  BY DEF RunTyped
<1>2. Logged(Passes[run[r].pass], Window(r, b), h) \in SUBSET Pairs
  BY DEF Logged
<1>3. n \in RunStates
  BY <1>1, <1>2 DEF RunStates
<1>4. Becomes(r, n)
  BY <1>3 DEF ReadWindow, PairsToRecheck, Becomes, RunTyped
<1> QED BY <1>1, <1>4 DEF ReadWindow, RunStates

LEMMA PassOverIs ==
    ASSUME ChainTyped, RunTyped, NEW r \in Runs, PassOver(r), run[r].report.to <= clock
    PROVE  \E n : /\ Becomes(r, n) /\ run[r].phase = "scanning" /\ run[r].todo = {}
                  /\ n.report = run[r].report /\ n.from = run[r].from
                  /\ n.entry = run[r].entry /\ n.pairs = run[r].pairs
                  /\ \/ n.phase = "rereading" /\ run[r].pass = 3
                     \/ /\ n.phase = "scanning" /\ n.pass = run[r].pass + 1
                        /\ n.todo = n.from..n.report.to
                  /\ file' = file
<1>1. run[r] \in RunStates /\ run[r].pass \in 1..3 /\ run[r].from \in Nat
      /\ run[r].report.to \in Int
  BY DEF RunTyped, RunStates, Report, NoAnchor
<1>2. CASE LastPass(run[r].pass)
  <2> DEFINE n == [run[r] EXCEPT !.phase = "rereading"]
  <2>1. n \in RunStates
    BY <1>1 DEF RunStates
  <2>2. Becomes(r, n)
    BY <1>2, <2>1 DEF PassOver, Becomes, RunTyped
  <2> QED BY <1>1, <1>2, <2>2 DEF PassOver, RunStates, LastPass
<1>3. CASE ~LastPass(run[r].pass)
  <2> DEFINE n == [run[r] EXCEPT !.pass = @ + 1, !.todo = run[r].from..run[r].report.to]
  <2>1. run[r].from..run[r].report.to \in SUBSET (0..MaxBlock)
    BY <1>1, ScanAssumption DEF ChainTyped
  <2>2. run[r].pass + 1 \in 1..3
    BY <1>1, <1>3 DEF LastPass
  <2>3. n \in RunStates
    BY <1>1, <2>1, <2>2 DEF RunStates
  <2>4. Becomes(r, n)
    BY <1>3, <2>3 DEF PassOver, Becomes, RunTyped
  <2> QED BY <1>1, <2>4 DEF PassOver, RunStates
<1> QED BY <1>2, <1>3

LEMMA ReReadIs ==
    ASSUME ChainTyped, RunTyped, NEW r \in Runs, NEW p \in Pairs, NEW h \in Heads,
           ReRead(r, p, h)
    PROVE  \E n : /\ Becomes(r, n) /\ n.phase = "rereading" /\ run[r].phase = "rereading"
                  /\ n.report = run[r].report /\ n.pairs = run[r].pairs \ {p}
                  /\ n.entry = [run[r].entry EXCEPT ![p] = allow[h][p]]
                  /\ file' = file
<1> DEFINE n == [run[r] EXCEPT !.entry[p] = allow[h][p], !.pairs = @ \ {p}]
<1>1. run[r] \in RunStates /\ run[r].entry \in [Pairs -> Nat]
  BY DEF RunTyped, RunStates
<1>2. allow[h][p] \in Nat
  <2>1. h \in 0..MaxBlock
    BY ScanAssumption DEF Heads, ChainTyped
  <2> QED BY <2>1 DEF ChainTyped
<1>3. n.entry = [run[r].entry EXCEPT ![p] = allow[h][p]]
      /\ n.entry \in [Pairs -> Nat]
  BY <1>1, <1>2 DEF RunStates
<1>4. n \in RunStates
  BY <1>1, <1>3 DEF RunStates
<1>5. Becomes(r, n)
  BY <1>4 DEF ReRead, Becomes, RunTyped
<1> QED BY <1>1, <1>3, <1>5 DEF ReRead, RunStates

LEMMA OpenReportIs ==
    ASSUME RunTyped, NEW r \in Runs, OpenReport(r)
    PROVE  \E n : /\ Becomes(r, n) /\ n.phase = "writing"
                  /\ run[r].phase = "rereading" /\ run[r].pairs = {}
                  /\ n.report \in Report
                  /\ n.report.to = run[r].report.to /\ n.report.at = run[r].report.at
                  /\ n.report.live = {p \in Pairs : run[r].entry[p] > clock}
                  /\ file' = Torn
<1> DEFINE live == {p \in Pairs : run[r].entry[p] > clock}
           rep == [run[r].report EXCEPT !.live = live]
           n == [run[r] EXCEPT !.phase = "writing", !.report.live = live]
<1>1. run[r] \in RunStates /\ run[r].report \in Report
  BY DEF RunTyped, RunStates
<1>2. /\ rep \in Report /\ rep.to = run[r].report.to
      /\ rep.at = run[r].report.at /\ rep.live = live
  BY <1>1 DEF Report
<1>3. n.report = rep
  BY <1>1 DEF RunStates
<1>4. n \in RunStates
  BY <1>1, <1>2, <1>3 DEF RunStates
<1>5. Becomes(r, n)
  BY <1>4 DEF OpenReport, Becomes, RunTyped
<1> QED BY <1>1, <1>2, <1>3, <1>5 DEF OpenReport, RunStates

-----------------------------------------------------------------------------
(* What a run relies on, whatever a reorganisation undoes *)

\* What a report lists was live at its anchor, give or take a node's lag.
SeenIn(ll, report) ==
    \A p \in report.live : ll[p] + Lag + Depth >= report.to

BasicsIn(ck, ll, n) ==
    /\ n.phase \in {"planning", "scanning"} => n.entry = Zero
    /\ n.phase = "planning" => n.pass = 1
    /\ n.phase \in {"scanning", "rereading", "writing"}
          => n.report.to \in Nat /\ n.report.to <= ck /\ n.report.at <= ck
    /\ n.phase = "planning" /\ n.report.to # NoAnchor
          => n.report.to <= ck /\ n.report.at <= ck
    /\ n.phase = "rereading" =>
          \A p \in Pairs : n.entry[p] > ck => ll[p] + Lag + Depth >= n.report.to
    /\ n.phase = "writing" => SeenIn(ll, n.report)

Basics(n) == BasicsIn(clock, lastLive, n)

FileBasicsIn(ck, ll, f) ==
    Anchored(f) => /\ f.report.to <= ck /\ f.report.at <= ck
                   /\ SeenIn(ll, f.report)

FileBasics == FileBasicsIn(clock, lastLive, file)

Base ==
    /\ ChainTyped /\ RunTyped /\ ChainOK
    /\ \A r \in Runs : Basics(run[r])
    /\ FileBasics

LEMMA InitBase == Init => Base
<1> SUFFICES ASSUME Init PROVE Base
  OBVIOUS
<1> USE ScanAssumption DEF Init
<1>1. ChainTyped
  BY DEF ChainTyped, Events
<1>2. RunTyped
  BY IdleTyped DEF RunTyped, Files, Missing, Legacy, Report, NoAnchor
<1>3. ChainOK
  BY DEF ChainOK, GrowsIn
<1>4. Basics(Idle)
  BY IdleTyped DEF Basics, BasicsIn
<1>5. FileBasics
  BY DEF FileBasics, FileBasicsIn, Anchored, Missing, Legacy
<1> QED BY <1>1, <1>2, <1>3, <1>4, <1>5 DEF Base

LEMMA ChainBase == ASSUME Base, Chain PROVE Base'
<1>1. /\ ChainTyped' /\ clock' >= clock /\ UNCHANGED <<file, run>>
      /\ \A p \in Pairs : lastLive'[p] >= lastLive[p]
  BY ChainTypes DEF Base
<1>2. ChainOK'
  BY ChainKeepsOK DEF Base
<1>3. /\ clock \in Nat /\ clock' \in Nat
      /\ \A p \in Pairs : lastLive[p] \in Nat /\ lastLive'[p] \in Nat
  BY <1>1, ScanAssumption DEF Base, ChainTyped
<1>4. ASSUME NEW rep \in Report, rep.to \in Nat, SeenIn(lastLive, rep)
      PROVE  SeenIn(lastLive', rep)
  BY <1>1, <1>3, <1>4, ScanAssumption DEF SeenIn, Report
<1>5. ASSUME NEW n \in RunStates, Basics(n) PROVE BasicsIn(clock', lastLive', n)
  <2>1. n.report \in Report /\ \A p \in Pairs : n.entry[p] \in Nat
    BY DEF RunStates
  <2>2. n.report.to \in Int /\ n.report.at \in Nat
    BY <2>1 DEF Report, NoAnchor
  <2>3. /\ n.phase \in {"planning", "scanning"} => n.entry = Zero
        /\ n.phase = "planning" => n.pass = 1
        /\ n.phase \in {"scanning", "rereading", "writing"}
              => n.report.to \in Nat /\ n.report.to <= clock' /\ n.report.at <= clock'
        /\ n.phase = "planning" /\ n.report.to # NoAnchor
              => n.report.to <= clock' /\ n.report.at <= clock'
    BY <1>1, <1>3, <1>5, <2>2 DEF Basics, BasicsIn
  <2>4. ASSUME n.phase = "rereading", NEW p \in Pairs, n.entry[p] > clock'
        PROVE  lastLive'[p] + Lag + Depth >= n.report.to
    <3>1. lastLive[p] + Lag + Depth >= n.report.to
      BY <1>1, <1>3, <1>5, <2>1, <2>4 DEF Basics, BasicsIn
    <3> QED BY <1>1, <1>3, <2>2, <3>1, ScanAssumption
  <2>5. n.phase = "writing" => SeenIn(lastLive', n.report)
    BY <1>4, <1>5, <2>1 DEF Basics, BasicsIn
  <2> QED BY <2>3, <2>4, <2>5 DEF BasicsIn
<1>6. FileBasicsIn(clock', lastLive', file)
  <2>1. file.report \in Report
    BY DEF Base, RunTyped, Files
  <2>2. Anchored(file) => file.report.to \in Nat
    BY <2>1 DEF Anchored, Report
  <2> QED BY <1>1, <1>3, <1>4, <2>1, <2>2 DEF Base, FileBasics, FileBasicsIn, Report
<1>7. RunTyped' /\ \A r \in Runs : Basics(run[r])'
  <2>1. RunTyped'
    BY <1>1 DEF Base, RunTyped
  <2>2. \A r \in Runs : run[r] \in RunStates /\ run'[r] = run[r]
    BY <1>1 DEF Base, RunTyped
  <2> QED BY <1>5, <2>1, <2>2 DEF Base, Basics
<1>8. FileBasics'
  BY <1>1, <1>6 DEF FileBasics
<1> QED BY <1>1, <1>2, <1>7, <1>8 DEF Base

\* A step of a scan that leaves its run and the file in order.
LEMMA RunBase ==
    ASSUME Base, NEW r \in Runs, NEW n, Becomes(r, n), Basics(n),
           file' \in Files, FileBasicsIn(clock, lastLive, file')
    PROVE  Base'
<1>1. UNCHANGED <<tip, clock, allow, events, changes, lastLive>>
  BY DEF Becomes, chainVars
<1>2. ChainTyped' /\ ChainOK'
  BY <1>1 DEF Base, ChainTyped, ChainOK
<1>3. RunTyped' /\ \A s \in Runs : run'[s] = IF s = r THEN n ELSE run[s]
  BY DEF Base, RunTyped, Becomes
<1>4. \A s \in Runs : Basics(run[s])'
  BY <1>1, <1>3 DEF Base, Basics
<1>5. FileBasics'
  BY <1>1 DEF FileBasics
<1> QED BY <1>2, <1>3, <1>4, <1>5 DEF Base
LEMMA ScanBase == ASSUME Base, NEW r \in Runs, Scan(r) PROVE Base'
<1>0. /\ ChainTyped /\ RunTyped /\ ChainOK /\ Basics(run[r]) /\ FileBasics
      /\ run[r] \in RunStates /\ file \in Files
  BY DEF Base, RunTyped
<1>1. /\ tip \in Nat /\ clock \in Nat /\ tip <= clock /\ clock <= tip + Depth
      /\ \A p \in Pairs : lastLive[p] \in Nat
  BY <1>0, ScanAssumption DEF ChainTyped, ChainOK
<1>2. FileBasicsIn(clock, lastLive, file)
  BY <1>0 DEF FileBasics
<1>3. run[r].report \in Report /\ run[r].report.to \in Int /\ run[r].report.at \in Nat
  BY <1>0 DEF RunStates, Report, NoAnchor
<1>4. CASE \E full \in BOOLEAN : Launch(r, full)
  <2>1. PICK n : /\ Becomes(r, n) /\ n.phase = "planning" /\ n.report = file.report
                 /\ n.pass = 1 /\ n.entry = Zero /\ file.whole /\ file' = file
    BY <1>0, <1>4, LaunchIs
  <2>2. Basics(n)
    BY <1>2, <2>1 DEF Basics, BasicsIn, FileBasicsIn, Anchored
  <2> QED BY <1>0, <1>2, <2>1, <2>2, RunBase
<1>5. CASE \E h \in Heads : Plan(r, h)
  <2>1. PICK h \in Heads : Plan(r, h)
    BY <1>5
  <2>2. PICK n : /\ Becomes(r, n) /\ n.phase = "scanning"
                 /\ n.report = [to |-> h, at |-> clock, live |-> {}]
                 /\ n.entry = run[r].entry
                 /\ run[r].phase = "planning" /\ file' = file
    BY <1>0, <2>1, PlanIs
  <2>3. h \in Nat /\ h <= clock
    BY <1>1 DEF Heads
  <2>4. Basics(n)
    BY <1>0, <1>1, <2>2, <2>3 DEF Basics, BasicsIn
  <2> QED BY <1>0, <1>2, <2>2, <2>4, RunBase
<1>6. CASE \E b \in run[r].todo, h \in Heads : ReadWindow(r, b, h)
  <2>1. PICK n : /\ Becomes(r, n) /\ n.phase = "scanning" /\ run[r].phase = "scanning"
                 /\ n.report = run[r].report /\ n.entry = run[r].entry
                 /\ file' = file
    BY <1>0, <1>6, ReadWindowIs
  <2>2. Basics(n)
    BY <1>0, <2>1 DEF Basics, BasicsIn
  <2> QED BY <1>0, <1>2, <2>1, <2>2, RunBase
<1>7. CASE PassOver(r)
  <2>0. run[r].report.to <= clock
    BY <1>0, <1>7 DEF PassOver, Basics, BasicsIn
  <2>1. PICK n : /\ Becomes(r, n) /\ run[r].phase = "scanning"
                 /\ n.report = run[r].report /\ n.entry = run[r].entry
                 /\ n.phase = "rereading" \/ n.phase = "scanning"
                 /\ file' = file
    BY <1>0, <1>7, <2>0, PassOverIs
  <2>2. run[r].entry = Zero /\ \A p \in Pairs : ~(Zero[p] > clock)
    BY <1>0, <1>1, <2>1 DEF Basics, BasicsIn, Zero
  <2>3. Basics(n)
    BY <1>0, <2>1, <2>2 DEF Basics, BasicsIn
  <2> QED BY <1>0, <1>2, <2>1, <2>3, RunBase
<1>8. CASE \E p \in Pairs, h \in Heads : ReRead(r, p, h)
  <2>1. PICK p \in Pairs, h \in Heads : ReRead(r, p, h)
    BY <1>8
  <2>2. PICK n : /\ Becomes(r, n) /\ n.phase = "rereading" /\ run[r].phase = "rereading"
                 /\ n.report = run[r].report
                 /\ n.entry = [run[r].entry EXCEPT ![p] = allow[h][p]]
                 /\ file' = file
    BY <1>0, <2>1, ReReadIs
  <2>3. h \in 0..tip /\ h + Lag >= tip
    BY DEF Heads
  <2>4. run[r].report.to \in Nat /\ run[r].report.to <= clock /\ run[r].report.at <= clock
    BY <1>0, <2>2 DEF Basics, BasicsIn
  <2>5. ASSUME NEW q \in Pairs, n.entry[q] > clock
        PROVE  lastLive[q] + Lag + Depth >= n.report.to
    <3>0. run[r].entry \in [Pairs -> Nat]
      BY <1>0 DEF RunStates
    <3>1. CASE q = p
      <4>1. allow[h][p] > clock
        BY <2>2, <2>5, <3>0, <3>1
      <4>2. lastLive[p] >= h
        BY <1>0, <2>3, <4>1 DEF ChainOK
      <4> QED BY <1>1, <2>2, <2>3, <2>4, <3>1, <4>2, ScanAssumption
    <3>2. CASE q # p
      <4>1. run[r].entry[q] > clock
        BY <2>2, <2>5, <3>0, <3>2
      <4> QED BY <1>0, <2>2, <4>1 DEF Basics, BasicsIn
    <3> QED BY <3>1, <3>2
  <2>6. Basics(n)
    BY <2>2, <2>4, <2>5 DEF Basics, BasicsIn
  <2> QED BY <1>0, <1>2, <2>2, <2>6, RunBase
<1>9. CASE OpenReport(r)
  <2>1. PICK n : /\ Becomes(r, n) /\ n.phase = "writing" /\ run[r].phase = "rereading"
                 /\ n.report.to = run[r].report.to /\ n.report.at = run[r].report.at
                 /\ n.report.live = {p \in Pairs : run[r].entry[p] > clock}
                 /\ file' = Torn
    BY <1>0, <1>9, OpenReportIs
  <2>2. SeenIn(lastLive, n.report)
    BY <1>0, <2>1 DEF SeenIn, Basics, BasicsIn
  <2>3. Basics(n)
    BY <1>0, <2>1, <2>2 DEF Basics, BasicsIn
  <2>4. file' \in Files /\ FileBasicsIn(clock, lastLive, file')
    BY <2>1 DEF Torn, Files, Legacy, Report, NoAnchor, FileBasicsIn, Anchored
  <2> QED BY <2>1, <2>3, <2>4, RunBase
<1>10. CASE WriteReport(r)
  <2>1. Becomes(r, Idle) /\ file' = Whole(run[r].report) /\ run[r].phase = "writing"
    BY <1>10, IdleTyped DEF WriteReport, Becomes
  <2>2. Basics(Idle)
    BY IdleTyped DEF Basics, BasicsIn
  <2>3. file' \in Files /\ file'.report = run[r].report
    BY <1>3, <2>1 DEF Files, Whole
  <2>4. FileBasicsIn(clock, lastLive, file')
    BY <1>0, <2>1, <2>3 DEF FileBasicsIn, Basics, BasicsIn
  <2> QED BY <2>1, <2>2, <2>3, <2>4, RunBase
<1> QED BY <1>4, <1>5, <1>6, <1>7, <1>8, <1>9, <1>10 DEF Scan

LEMMA NextBase == ASSUME Base, [Next]_vars PROVE Base'
<1>1. CASE Chain
  BY <1>1, ChainBase
<1>2. CASE Discard
  <2>1. UNCHANGED <<tip, clock, allow, events, changes, lastLive, run>> /\ file' = Missing
    BY <1>2 DEF Discard, chainVars
  <2>2. file' \in Files /\ FileBasicsIn(clock, lastLive, file')
    BY <2>1 DEF Missing, Files, Legacy, Report, NoAnchor, FileBasicsIn, Anchored
  <2>3. ChainTyped' /\ ChainOK' /\ \A s \in Runs : Basics(run[s])'
    BY <2>1 DEF Base, ChainTyped, ChainOK, Basics
  <2>4. RunTyped' /\ FileBasics'
    BY <2>1, <2>2 DEF Base, RunTyped, FileBasics
  <2> QED BY <2>3, <2>4 DEF Base
<1>3. ASSUME NEW r \in Runs, Scan(r) PROVE Base'
  BY <1>3, ScanBase
<1>4. ASSUME NEW r \in Runs, Fail(r) PROVE Base'
  <2>1. Becomes(r, Idle) /\ file' = file
    BY <1>4, IdleTyped DEF Fail, Becomes
  <2>2. Basics(Idle)
    BY IdleTyped DEF Basics, BasicsIn
  <2>3. file' \in Files /\ FileBasicsIn(clock, lastLive, file')
    BY <2>1 DEF Base, RunTyped, FileBasics
  <2> QED BY <2>1, <2>2, <2>3, RunBase
<1>5. CASE UNCHANGED vars
  <2>1. UNCHANGED <<tip, clock, allow, events, changes, lastLive, file, run>>
    BY <1>5 DEF vars
  <2>2. ChainTyped' /\ ChainOK' /\ \A s \in Runs : Basics(run[s])'
    BY <2>1 DEF Base, ChainTyped, ChainOK, Basics
  <2>3. RunTyped' /\ FileBasics'
    BY <2>1 DEF Base, RunTyped, FileBasics
  <2> QED BY <2>2, <2>3 DEF Base
<1> QED BY <1>1, <1>2, <1>3, <1>4, <1>5 DEF Next

\* A grant the report lists was live at the anchor, or as long before it as a
\* node may be behind and a reorganisation reach back (approvalScan.mjs:14-18),
\* whatever is reorganised and however many scans overlap.
THEOREM ListedWasLive == Spec => []ReportedWasLive
<1>1. Base => ReportedWasLive
  BY DEF Base, FileBasics, FileBasicsIn, SeenIn, ReportedWasLive
<1> QED BY <1>1, InitBase, NextBase, PTL DEF Spec

-----------------------------------------------------------------------------
(* The grants a run, or the next one, will come upon *)

\* The events the next incremental scan reads, that are not older than scannedAt
\* by more than a node's lag and a reorganisation.
Accepted(report) ==
    {x \in Events : x[3] >= FromBlock(report.to) /\ x[3] + Lag + Depth > report.at}

\* The events the passes of n have still to ask for.
Unread(n) ==
    {x \in Events : /\ n.from <= x[3] /\ x[3] <= n.report.to
                    /\ \E i \in 1..3 : /\ x[2] = Passes[i]
                                       /\ i > n.pass \/ (i = n.pass /\ x[3] \in n.todo)}

ListsIn(tp, ck, al, ev, report) ==
    \A p \in Pairs \ report.live : FoundIn(tp, ck, al, ev, p, 0, Accepted(report))

CoversIn(tp, ck, al, ev, n) ==
    /\ n.phase = "planning" /\ n.report.to # NoAnchor => ListsIn(tp, ck, al, ev, n.report)
    /\ n.phase = "scanning" =>
          \A p \in Pairs \ n.pairs :
              FoundIn(tp, ck, al, ev, p, 0, Accepted(n.report) \cup Unread(n))
    /\ n.phase = "rereading" =>
          \A p \in Pairs \ n.pairs :
              FoundIn(tp, ck, al, ev, p, n.entry[p], Accepted(n.report))
    /\ n.phase = "writing" => ListsIn(tp, ck, al, ev, n.report)

Covers(n) == CoversIn(tip, clock, allow, events, n)

FileCoversIn(tp, ck, al, ev, f) ==
    Anchored(f) => ListsIn(tp, ck, al, ev, f.report)

FileCovers == FileCoversIn(tip, clock, allow, events, file)

IInv ==
    /\ Base
    /\ \A r \in Runs : Covers(run[r])
    /\ FileCovers

LEMMA FoundMore ==
    ASSUME NEW tp, NEW ck, NEW al, NEW ev, NEW p, NEW e, NEW X, NEW Y,
           FoundIn(tp, ck, al, ev, p, e, X),
           \A x \in ev : x \in X /\ x[1] = p => x \in Y
    PROVE  FoundIn(tp, ck, al, ev, p, e, Y)
  BY DEF FoundIn

\* What a node at h did not know yet, the next scan reads.
LEMMA Recent ==
    ASSUME Base, NEW report, report.to \in Nat, report.at \in Nat,
           report.to <= clock, report.at <= clock,
           NEW x \in Events, x[3] + Lag > tip
    PROVE  x \in Accepted(report)
<1>1. x[3] \in Nat /\ tip \in Nat /\ clock \in Nat /\ clock <= tip + Depth
  BY ScanAssumption DEF Base, ChainOK, ChainTyped, Events
<1>2. x[3] + Lag + Depth > report.at
  BY <1>1, ScanAssumption
<1>3. x[3] >= FromBlock(report.to)
  BY <1>1, ScanAssumption, OverlapAssumption DEF FromBlock
<1> QED BY <1>2, <1>3 DEF Accepted

LEMMA InitIInv == Init => IInv
<1> SUFFICES ASSUME Init PROVE IInv
  OBVIOUS
<1>1. Base
  BY InitBase
<1>2. Covers(Idle)
  BY IdleTyped DEF Covers, CoversIn
<1>3. FileCovers
  BY DEF Init, FileCovers, FileCoversIn, Anchored, Missing, Legacy
<1> QED BY <1>1, <1>2, <1>3 DEF Init, IInv

LEMMA ChainIInv == ASSUME IInv, ~LoweringsOrphaned, Chain PROVE IInv'
<1>1. Base' /\ UNCHANGED <<file, run>>
  BY ChainBase, ChainTypes DEF IInv, Base
<1>2. /\ Base /\ ChainTyped /\ clock <= tip + Depth
  BY DEF IInv, Base, ChainOK
<1>3. ASSUME NEW report \in Report, report.to \in Nat,
             report.to <= clock, report.at <= clock
      PROVE  \A x \in Events : x[3] > tip => x \in Accepted(report)
  <2>1. report.at \in Nat
    BY DEF Report
  <2>2. \A x \in Events : x[3] > tip => x[3] + Lag > tip
    BY <1>2, ScanAssumption DEF Events, ChainTyped
  <2> QED BY <1>2, <1>3, <2>1, <2>2, Recent
<1>4. ASSUME NEW report \in Report, report.to \in Nat,
             report.to <= clock, report.at <= clock,
             ListsIn(tip, clock, allow, events, report)
      PROVE  ListsIn(tip', clock', allow', events', report)
  <2>1. \A x \in Events : x[3] > tip => x \in Accepted(report)
    BY <1>3, <1>4
  <2>2. ASSUME NEW p \in Pairs \ report.live
        PROVE  FoundIn(tip', clock', allow', events', p, 0, Accepted(report))
    <3>1. FoundIn(tip, clock, allow, events, p, 0, Accepted(report)) /\ 0 \in Nat
      BY <1>4 DEF ListsIn
    <3> QED BY <1>2, <2>1, <3>1, ChainFound
  <2> QED BY <2>2 DEF ListsIn
<1>5. ASSUME NEW n \in RunStates, Basics(n), Covers(n)
      PROVE  CoversIn(tip', clock', allow', events', n)
  <2>1. n.report \in Report /\ n.entry \in [Pairs -> Nat]
    BY DEF RunStates
  <2>2. ASSUME n.phase = "planning", n.report.to # NoAnchor
        PROVE  ListsIn(tip', clock', allow', events', n.report)
    <3>1. n.report.to \in Nat
      BY <2>1, <2>2 DEF Report
    <3> QED BY <1>4, <1>5, <2>1, <2>2, <3>1 DEF Covers, CoversIn, Basics, BasicsIn
  <2>3. ASSUME n.phase = "writing"
        PROVE  ListsIn(tip', clock', allow', events', n.report)
    BY <1>4, <1>5, <2>1, <2>3 DEF Covers, CoversIn, Basics, BasicsIn
  <2>4. ASSUME n.phase = "scanning", NEW p \in Pairs \ n.pairs
        PROVE  FoundIn(tip', clock', allow', events', p, 0,
                       Accepted(n.report) \cup Unread(n))
    <3> DEFINE X == Accepted(n.report) \cup Unread(n)
    <3>1. \A x \in Events : x[3] > tip => x \in X
      BY <1>3, <1>5, <2>1, <2>4 DEF Basics, BasicsIn
    <3>2. FoundIn(tip, clock, allow, events, p, 0, X) /\ 0 \in Nat
      BY <1>5, <2>4 DEF Covers, CoversIn
    <3> HIDE DEF X
    <3>3. FoundIn(tip', clock', allow', events', p, 0, X)
      BY <1>2, <3>1, <3>2, ChainFound
    <3> QED BY <3>3 DEF X
  <2>5. ASSUME n.phase = "rereading", NEW p \in Pairs \ n.pairs
        PROVE  FoundIn(tip', clock', allow', events', p, n.entry[p],
                       Accepted(n.report))
    <3>1. \A x \in Events : x[3] > tip => x \in Accepted(n.report)
      BY <1>3, <1>5, <2>1, <2>5 DEF Basics, BasicsIn
    <3>2. FoundIn(tip, clock, allow, events, p, n.entry[p], Accepted(n.report))
      BY <1>5, <2>5 DEF Covers, CoversIn
    <3>3. n.entry[p] \in Nat
      BY <2>1
    <3> QED BY <1>2, <3>1, <3>2, <3>3, ChainFound
  <2> QED BY <2>2, <2>3, <2>4, <2>5 DEF CoversIn
<1>6. \A r \in Runs : Covers(run[r])'
  <2>1. \A r \in Runs : run[r] \in RunStates /\ Basics(run[r]) /\ Covers(run[r])
    BY DEF IInv, Base, RunTyped
  <2> QED BY <1>1, <1>5, <2>1 DEF Covers
<1>7. FileCovers'
  <2>1. ASSUME Anchored(file) PROVE ListsIn(tip', clock', allow', events', file.report)
    <3>1. file.report \in Report
      BY DEF IInv, Base, RunTyped, Files
    <3>2. file.report.to \in Nat
      BY <2>1, <3>1 DEF Report, Anchored
    <3> QED BY <1>4, <2>1, <3>1, <3>2 DEF IInv, Base, FileBasics, FileBasicsIn,
               FileCovers, FileCoversIn
  <2> QED BY <1>1, <2>1 DEF FileCovers, FileCoversIn
<1> QED BY <1>1, <1>6, <1>7 DEF IInv

\* A step of a scan that leaves its run and the file in order.
LEMMA RunIInv ==
    ASSUME IInv, Base', NEW r \in Runs, NEW n, Becomes(r, n), Covers(n),
           FileCoversIn(tip, clock, allow, events, file')
    PROVE  IInv'
<1>1. UNCHANGED <<tip, clock, allow, events>>
  BY DEF Becomes, chainVars
<1>2. \A s \in Runs : run'[s] = IF s = r THEN n ELSE run[s]
  BY DEF IInv, Base, RunTyped, Becomes
<1>3. \A s \in Runs : Covers(run[s])'
  BY <1>1, <1>2 DEF IInv, Covers
<1>4. FileCovers'
  BY <1>1 DEF FileCovers
<1> QED BY <1>3, <1>4 DEF IInv

\* Every grant a plan has not taken over is found among what is to be read.
LEMMA PlanCovers ==
    ASSUME IInv, NEW r \in Runs, run[r].phase = "planning", NEW h \in Heads,
           NEW n \in RunStates, n.phase = "scanning",
           n.report = [to |-> h, at |-> clock, live |-> {}],
           n.pass = run[r].pass, n.todo = n.from..h,
           PlansFull(n) \/ PlansOn(n, run[r].report)
    PROVE  Covers(n)
<1>1. /\ Base /\ ChainTyped /\ ChainOK /\ Basics(run[r]) /\ Covers(run[r])
      /\ run[r] \in RunStates
  BY DEF IInv, Base, RunTyped
<1>2. /\ tip \in Nat /\ clock \in Nat /\ tip <= clock
      /\ h \in Nat /\ h <= tip /\ h + Lag >= tip /\ n.from \in Nat
      /\ events \in SUBSET Events
  BY <1>1, ScanAssumption DEF ChainTyped, Heads, RunStates
<1>3. n.pass = 1
  BY <1>1 DEF Basics, BasicsIn
<1>4. n.report.to = h /\ n.report.at = clock
  OBVIOUS
<1>5. ASSUME NEW x \in Events, x[3] >= n.from
      PROVE  x \in Accepted(n.report) \cup Unread(n)
  <2>1. x[3] \in Nat /\ x[2] \in Kinds
    BY DEF Events
  <2>2. CASE x[3] <= h
    <3>1. PICK i \in 1..3 : x[2] = Passes[i]
      BY <2>1 DEF Kinds
    <3>2. x[3] \in n.todo
      BY <1>2, <1>5, <2>1, <2>2
    <3>3. i > n.pass \/ (i = n.pass /\ x[3] \in n.todo)
      BY <1>3, <3>2
    <3>4. n.from <= x[3] /\ x[3] <= n.report.to
      BY <1>2, <1>4, <1>5, <2>1, <2>2
    <3> QED BY <3>1, <3>3, <3>4 DEF Unread
  <2>3. CASE x[3] > h
    <3>1. x[3] + Lag > tip
      BY <1>2, <2>1, <2>3, ScanAssumption
    <3> QED BY <1>1, <1>2, <1>4, <3>1, Recent
  <2> QED BY <1>2, <2>1, <2>2, <2>3
<1>6. ASSUME NEW p \in Pairs \ n.pairs
      PROVE  FoundIn(tip, clock, allow, events, p, 0, Accepted(n.report) \cup Unread(n))
  <2>1. CASE PlansFull(n)
    <3>1. ASSUME NEW f \in 0..tip, allow[f][p] > 0
          PROVE  \E x \in events : /\ x \in Accepted(n.report) \cup Unread(n)
                                   /\ x[1] = p /\ x[3] <= f
      <4>1. allow[0][p] = 0 /\ GrowsIn(tip, allow, events)
        BY <1>1 DEF ChainOK
      <4>2. 0 < f /\ 0 \in Nat /\ f \in Nat /\ f <= tip
        BY <1>2, <3>1, <4>1
      <4>3. PICK x \in events : x[1] = p /\ 0 < x[3] /\ x[3] <= f
        BY <1>2, <3>1, <4>1, <4>2, GrowsAt
      <4>4. x \in Events /\ x[3] >= n.from
        BY <1>2, <2>1, <4>3 DEF PlansFull, Events
      <4> QED BY <1>5, <4>3, <4>4
    <3> QED BY <3>1 DEF FoundIn
  <2>2. CASE PlansOn(n, run[r].report)
    <3>1. run[r].report.to # NoAnchor
      BY <2>2 DEF PlansOn, NoAnchor
    <3>2. FoundIn(tip, clock, allow, events, p, 0, Accepted(run[r].report))
      BY <1>1, <2>2, <3>1 DEF PlansOn, Covers, CoversIn, ListsIn
    <3>3. \A x \in events : x \in Accepted(run[r].report)
             => x \in Accepted(n.report) \cup Unread(n)
      BY <1>5, <2>2 DEF PlansOn, Accepted
    <3> QED BY <3>2, <3>3, FoundMore
  <2> QED BY <2>1, <2>2
<1> QED BY <1>6 DEF Covers, CoversIn

\* What a window's answer does not bring is still unread or read next time.
LEMMA WindowCovers ==
    ASSUME IInv, NEW r \in Runs, run[r].phase = "scanning",
           NEW b, NEW h \in Heads,
           NEW n \in RunStates, n.phase = "scanning",
           n.report = run[r].report, n.from = run[r].from, n.pass = run[r].pass,
           n.todo = run[r].todo \ Window(r, b),
           n.pairs = run[r].pairs \cup Logged(Passes[run[r].pass], Window(r, b), h)
    PROVE  Covers(n)
<1>1. /\ Base /\ ChainTyped /\ Basics(run[r]) /\ Covers(run[r])
      /\ run[r] \in RunStates
  BY DEF IInv, Base, RunTyped
<1>2. /\ tip \in Nat /\ h \in Nat /\ h + Lag >= tip /\ events \in SUBSET Events
      /\ n.report \in Report
  BY <1>1, ScanAssumption DEF ChainTyped, Heads, RunStates
<1>3. /\ n.report.to \in Nat /\ n.report.to <= clock
      /\ n.report.at \in Nat /\ n.report.at <= clock
  BY <1>1, <1>2 DEF Basics, BasicsIn, Report
<1>4. ASSUME NEW p \in Pairs \ n.pairs
      PROVE  FoundIn(tip, clock, allow, events, p, 0, Accepted(n.report) \cup Unread(n))
  <2>1. FoundIn(tip, clock, allow, events, p, 0,
                Accepted(run[r].report) \cup Unread(run[r]))
    BY <1>1 DEF Covers, CoversIn
  <2>2. ASSUME NEW x \in events, x \in Unread(run[r]), x[1] = p
        PROVE  x \in Accepted(n.report) \cup Unread(n)
    <3>1. PICK i \in 1..3 : /\ x[2] = Passes[i]
                            /\ \/ i > run[r].pass
                               \/ i = run[r].pass /\ x[3] \in run[r].todo
      BY <2>2 DEF Unread
    <3>2. x \in Events /\ x[3] \in Nat /\ x = <<x[1], x[2], x[3]>>
      BY <1>2 DEF Events
    <3>3. CASE i > run[r].pass \/ x[3] \notin Window(r, b)
      BY <2>2, <3>1, <3>2, <3>3 DEF Unread
    <3>4. CASE i = run[r].pass /\ x[3] \in Window(r, b)
      <4>1. x[3] > h
        <5>1. SUFFICES ASSUME x[3] <= h PROVE FALSE
          BY <1>2, <3>2
        <5>2. <<p, Passes[run[r].pass], x[3]>> \in events
          BY <2>2, <3>1, <3>2, <3>4
        <5>3. p \in Logged(Passes[run[r].pass], Window(r, b), h)
          BY <3>4, <5>1, <5>2 DEF Logged
        <5> QED BY <5>3
      <4>2. x[3] + Lag > tip
        BY <1>2, <3>2, <4>1, ScanAssumption
      <4> QED BY <1>1, <1>3, <3>2, <4>2, Recent
    <3> QED BY <3>1, <3>3, <3>4
  <2>3. \A x \in events :
           x \in Accepted(run[r].report) \cup Unread(run[r]) /\ x[1] = p
              => x \in Accepted(n.report) \cup Unread(n)
    BY <2>2
  <2> QED BY <2>1, <2>3, FoundMore
<1> QED BY <1>4 DEF Covers, CoversIn

\* A pass without windows left has nothing unread.
LEMMA PassCovers ==
    ASSUME IInv, NEW r \in Runs, run[r].phase = "scanning", run[r].todo = {},
           NEW n \in RunStates, n.report = run[r].report, n.from = run[r].from,
           n.entry = run[r].entry, n.pairs = run[r].pairs,
           \/ n.phase = "rereading" /\ run[r].pass = 3
           \/ /\ n.phase = "scanning" /\ n.pass = run[r].pass + 1
              /\ n.todo = n.from..n.report.to
    PROVE  Covers(n)
<1>1. /\ ChainTyped /\ Basics(run[r]) /\ Covers(run[r]) /\ run[r] \in RunStates
      /\ run[r].pass \in 1..3 /\ n.from \in Nat
  BY DEF IInv, Base, RunTyped, RunStates
<1>2. n.report.to \in Nat /\ n.entry = Zero
  BY <1>1 DEF Basics, BasicsIn
<1>3. ASSUME NEW p \in Pairs \ n.pairs
      PROVE  FoundIn(tip, clock, allow, events, p, 0,
                     Accepted(n.report) \cup Unread(run[r]))
  BY <1>1, <1>3 DEF Covers, CoversIn
<1>4. CASE n.phase = "rereading" /\ run[r].pass = 3
  <2>1. Unread(run[r]) = {}
    BY <1>4 DEF Unread
  <2>2. ASSUME NEW p \in Pairs \ n.pairs
        PROVE  FoundIn(tip, clock, allow, events, p, n.entry[p], Accepted(n.report))
    <3>1. n.entry[p] = 0
      BY <1>2 DEF Zero
    <3>2. \A x \in events : x \in Accepted(n.report) \cup Unread(run[r])
             => x \in Accepted(n.report)
      BY <2>1
    <3> QED BY <1>3, <3>1, <3>2, FoundMore
  <2> QED BY <1>4, <2>2 DEF Covers, CoversIn
<1>5. CASE /\ n.phase = "scanning" /\ n.pass = run[r].pass + 1
           /\ n.todo = n.from..n.report.to
  <2>1. ASSUME NEW x \in Unread(run[r]) PROVE x \in Unread(n)
    <3>1. x \in Events /\ x[3] \in Nat
      BY DEF Unread, Events
    <3>2. PICK i \in 1..3 : x[2] = Passes[i] /\ i > run[r].pass
      BY DEF Unread
    <3>3. n.from <= x[3] /\ x[3] <= n.report.to
      BY DEF Unread
    <3>4. x[3] \in n.todo
      BY <1>1, <1>2, <1>5, <3>1, <3>3
    <3>5. i > n.pass \/ (i = n.pass /\ x[3] \in n.todo)
      BY <1>1, <1>5, <3>2, <3>4
    <3> QED BY <3>1, <3>2, <3>3, <3>5 DEF Unread
  <2>2. ASSUME NEW p \in Pairs \ n.pairs
        PROVE  FoundIn(tip, clock, allow, events, p, 0,
                       Accepted(n.report) \cup Unread(n))
    <3>1. \A x \in events : x \in Accepted(n.report) \cup Unread(run[r])
             => x \in Accepted(n.report) \cup Unread(n)
      BY <2>1
    <3> QED BY <1>3, <3>1, FoundMore
  <2> QED BY <1>5, <2>2 DEF Covers, CoversIn
<1> QED BY <1>4, <1>5

\* An allowance read at h: what it misses lies in the blocks after h.
LEMMA ReReadCovers ==
    ASSUME IInv, NEW r \in Runs, run[r].phase = "rereading",
           NEW p \in Pairs, NEW h \in Heads,
           NEW n \in RunStates, n.phase = "rereading", n.report = run[r].report,
           n.pairs = run[r].pairs \ {p},
           n.entry = [run[r].entry EXCEPT ![p] = allow[h][p]]
    PROVE  Covers(n)
<1>1. /\ Base /\ ChainTyped /\ ChainOK /\ Basics(run[r]) /\ Covers(run[r])
      /\ run[r] \in RunStates /\ run[r].entry \in [Pairs -> Nat]
  BY DEF IInv, Base, RunTyped, RunStates
<1>2. /\ tip \in Nat /\ h \in Nat /\ h <= tip /\ h + Lag >= tip
      /\ events \in SUBSET Events /\ n.report \in Report
      /\ \A f \in 0..tip : allow[f][p] \in Nat
  BY SMTT(30), <1>1, ScanAssumption DEF ChainTyped, Heads, RunStates
<1>3. /\ n.report.to \in Nat /\ n.report.to <= clock
      /\ n.report.at \in Nat /\ n.report.at <= clock
  BY <1>1, <1>2 DEF Basics, BasicsIn, Report
<1>4. ASSUME NEW f \in 0..tip, KeptIn(tip, allow, f, p), allow[f][p] > allow[h][p]
      PROVE  \E x \in events : x \in Accepted(n.report) /\ x[1] = p /\ x[3] <= f
  <2>1. f \in Nat /\ allow[f][p] \in Nat /\ allow[h][p] \in Nat
    BY <1>2
  <2>2. h < f
    <3>1. SUFFICES ASSUME f <= h PROVE FALSE
      BY <1>2, <2>1
    <3>2. allow[h][p] >= allow[f][p]
      BY <1>2, <1>4, <2>1, <3>1, KeptAt
    <3> QED BY <1>4, <2>1, <3>2
  <2>3. GrowsIn(tip, allow, events) /\ f <= tip /\ allow[h][p] < allow[f][p]
    BY <1>1, <1>4, <2>1 DEF ChainOK
  <2>4. PICK x \in events : x[1] = p /\ h < x[3] /\ x[3] <= f
    BY <1>2, <2>1, <2>2, <2>3, GrowsAt
  <2>5. x \in Events /\ x[3] \in Nat
    BY <1>2 DEF Events
  <2>6. x[3] + Lag > tip
    BY <1>2, <2>4, <2>5, ScanAssumption
  <2> QED BY <1>1, <1>3, <2>4, <2>5, <2>6, Recent
<1>5. ASSUME NEW q \in Pairs \ n.pairs
      PROVE  FoundIn(tip, clock, allow, events, q, n.entry[q], Accepted(n.report))
  <2>1. CASE q = p
    <3>1. n.entry[p] = allow[h][p]
      BY <1>1
    <3> QED BY <1>4, <2>1, <3>1 DEF FoundIn
  <2>2. CASE q # p
    <3>1. n.entry[q] = run[r].entry[q] /\ q \in Pairs \ run[r].pairs
      BY <1>1, <2>2
    <3> QED BY <1>1, <3>1 DEF Covers, CoversIn
  <2> QED BY <2>1, <2>2
<1> QED BY <1>5 DEF Covers, CoversIn

\* What is left out of the report is not live, or is found next time.
LEMMA ReportCovers ==
    ASSUME IInv, NEW r \in Runs, run[r].phase = "rereading", run[r].pairs = {},
           NEW n \in RunStates, n.phase = "writing",
           n.report.to = run[r].report.to, n.report.at = run[r].report.at,
           n.report.live = {p \in Pairs : run[r].entry[p] > clock}
    PROVE  Covers(n)
<1>1. /\ ChainTyped /\ Covers(run[r]) /\ run[r].entry \in [Pairs -> Nat]
  BY DEF IInv, Base, RunTyped, RunStates
<1>2. clock \in Nat /\ tip \in 0..MaxBlock /\ allow \in [0..MaxBlock -> [Pairs -> Nat]]
  BY <1>1, ScanAssumption DEF ChainTyped
<1>3. Accepted(n.report) = Accepted(run[r].report)
  BY DEF Accepted
<1>4. ASSUME NEW p \in Pairs \ n.report.live
      PROVE  FoundIn(tip, clock, allow, events, p, 0, Accepted(n.report))
  <2>1. FoundIn(tip, clock, allow, events, p, run[r].entry[p], Accepted(n.report))
    BY <1>1, <1>3 DEF Covers, CoversIn
  <2>2. run[r].entry[p] \in Nat /\ run[r].entry[p] <= clock
    BY <1>1, <1>2
  <2>3. \A f \in 0..tip : allow[f][p] \in Nat
    BY <1>2, ScanAssumption
  <2>4. \A f \in 0..tip : allow[f][p] > clock => allow[f][p] > run[r].entry[p]
    BY <1>2, <2>2, <2>3
  <2> QED BY <2>1, <2>4 DEF FoundIn
<1> QED BY <1>4 DEF Covers, CoversIn, ListsIn

LEMMA ScanIInv == ASSUME IInv, NEW r \in Runs, Scan(r) PROVE IInv'
<1>0. /\ Base' /\ Base /\ ChainTyped /\ RunTyped /\ Basics(run[r]) /\ Covers(run[r])
      /\ FileCoversIn(tip, clock, allow, events, file)
  BY ScanBase DEF IInv, Base, FileCovers
<1>1. CASE \E full \in BOOLEAN : Launch(r, full)
  <2>1. PICK n : /\ Becomes(r, n) /\ n.phase = "planning" /\ n.report = file.report
                 /\ file.whole /\ file' = file
    BY <1>0, <1>1, LaunchIs
  <2>2. Covers(n)
    BY <1>0, <2>1 DEF Covers, CoversIn, FileCoversIn, Anchored
  <2> QED BY <1>0, <2>1, <2>2, RunIInv
<1>2. CASE \E h \in Heads : Plan(r, h)
  <2>1. PICK h \in Heads : Plan(r, h)
    BY <1>2
  <2>2. PICK n : /\ Becomes(r, n) /\ n.phase = "scanning"
                 /\ n.report = [to |-> h, at |-> clock, live |-> {}]
                 /\ n.pass = run[r].pass /\ n.todo = n.from..h
                 /\ PlansFull(n) \/ PlansOn(n, run[r].report)
                 /\ run[r].phase = "planning" /\ file' = file
    BY <1>0, <2>1, PlanIs
  <2>3. n \in RunStates
    BY <2>2 DEF Becomes
  <2>4. Covers(n)
    BY <2>2, <2>3, PlanCovers
  <2> QED BY <1>0, <2>2, <2>4, RunIInv
<1>3. CASE \E b \in run[r].todo, h \in Heads : ReadWindow(r, b, h)
  <2>1. PICK b \in run[r].todo, h \in Heads : ReadWindow(r, b, h)
    BY <1>3
  <2>2. PICK n : /\ Becomes(r, n) /\ n.phase = "scanning" /\ run[r].phase = "scanning"
                 /\ n.report = run[r].report /\ n.from = run[r].from
                 /\ n.pass = run[r].pass
                 /\ n.todo = run[r].todo \ Window(r, b)
                 /\ n.pairs = run[r].pairs
                       \cup Logged(Passes[run[r].pass], Window(r, b), h)
                 /\ file' = file
    BY <1>0, <2>1, ReadWindowIs
  <2>3. n \in RunStates
    BY <2>2 DEF Becomes
  <2>4. Covers(n)
    BY <2>2, <2>3, WindowCovers
  <2> QED BY <1>0, <2>2, <2>4, RunIInv
<1>4. CASE PassOver(r)
  <2>1. run[r].report.to <= clock
    BY <1>0, <1>4 DEF PassOver, Basics, BasicsIn
  <2>2. PICK n : /\ Becomes(r, n) /\ run[r].phase = "scanning" /\ run[r].todo = {}
                 /\ n.report = run[r].report /\ n.from = run[r].from
                 /\ n.entry = run[r].entry /\ n.pairs = run[r].pairs
                 /\ \/ n.phase = "rereading" /\ run[r].pass = 3
                    \/ /\ n.phase = "scanning" /\ n.pass = run[r].pass + 1
                       /\ n.todo = n.from..n.report.to
                 /\ file' = file
    BY <1>0, <1>4, <2>1, PassOverIs
  <2>3. n \in RunStates
    BY <2>2 DEF Becomes
  <2>4. Covers(n)
    BY <2>2, <2>3, PassCovers
  <2> QED BY <1>0, <2>2, <2>4, RunIInv
<1>5. CASE \E p \in Pairs, h \in Heads : ReRead(r, p, h)
  <2>1. PICK p \in Pairs, h \in Heads : ReRead(r, p, h)
    BY <1>5
  <2>2. PICK n : /\ Becomes(r, n) /\ n.phase = "rereading"
                 /\ run[r].phase = "rereading"
                 /\ n.report = run[r].report /\ n.pairs = run[r].pairs \ {p}
                 /\ n.entry = [run[r].entry EXCEPT ![p] = allow[h][p]]
                 /\ file' = file
    BY <1>0, <2>1, ReReadIs
  <2>3. n \in RunStates
    BY <2>2 DEF Becomes
  <2>4. Covers(n)
    BY <2>2, <2>3, ReReadCovers
  <2> QED BY <1>0, <2>2, <2>4, RunIInv
<1>6. CASE OpenReport(r)
  <2>1. PICK n : /\ Becomes(r, n) /\ n.phase = "writing"
                 /\ run[r].phase = "rereading" /\ run[r].pairs = {}
                 /\ n.report.to = run[r].report.to /\ n.report.at = run[r].report.at
                 /\ n.report.live = {p \in Pairs : run[r].entry[p] > clock}
                 /\ file' = Torn
    BY <1>0, <1>6, OpenReportIs
  <2>2. n \in RunStates /\ ~Anchored(file')
    BY <2>1 DEF Becomes, Torn, Anchored
  <2>3. Covers(n)
    BY <2>1, <2>2, ReportCovers
  <2> QED BY <1>0, <2>1, <2>2, <2>3, RunIInv DEF FileCoversIn
<1>7. CASE WriteReport(r)
  <2>1. Becomes(r, Idle) /\ file' = Whole(run[r].report) /\ run[r].phase = "writing"
    BY <1>7, IdleTyped DEF WriteReport, Becomes
  <2>2. Covers(Idle)
    BY IdleTyped DEF Covers, CoversIn
  <2>3. FileCoversIn(tip, clock, allow, events, file')
    BY <1>0, <2>1 DEF FileCoversIn, Covers, CoversIn, Whole
  <2> QED BY <1>0, <2>1, <2>2, <2>3, RunIInv
<1> QED BY <1>1, <1>2, <1>3, <1>4, <1>5, <1>6, <1>7 DEF Scan

LEMMA NextIInv == ASSUME IInv, ~LoweringsOrphaned, [Next]_vars PROVE IInv'
<1>0. Base'
  BY NextBase DEF IInv
<1>1. CASE Chain
  BY <1>1, ChainIInv
<1>2. CASE Discard
  <2>1. UNCHANGED <<tip, clock, allow, events, run>> /\ file' = Missing
    BY <1>2 DEF Discard, chainVars
  <2>2. ~Anchored(file')
    BY <2>1 DEF Missing, Legacy, Anchored
  <2>3. \A s \in Runs : Covers(run[s])'
    BY <2>1 DEF IInv, Covers
  <2>4. FileCovers'
    BY <2>2 DEF FileCovers, FileCoversIn, Anchored
  <2> QED BY <1>0, <2>3, <2>4 DEF IInv
<1>3. ASSUME NEW r \in Runs, Scan(r) PROVE IInv'
  BY <1>3, ScanIInv
<1>4. ASSUME NEW r \in Runs, Fail(r) PROVE IInv'
  <2>1. Becomes(r, Idle) /\ file' = file
    BY <1>4, IdleTyped DEF Fail, Becomes
  <2>2. Covers(Idle)
    BY IdleTyped DEF Covers, CoversIn
  <2>3. FileCoversIn(tip, clock, allow, events, file')
    BY <2>1 DEF IInv, FileCovers
  <2> QED BY <1>0, <2>1, <2>2, <2>3, RunIInv
<1>5. CASE UNCHANGED vars
  <2>1. UNCHANGED <<tip, clock, allow, events, file, run>>
    BY <1>5 DEF vars
  <2>2. \A s \in Runs : Covers(run[s])'
    BY <2>1 DEF IInv, Covers
  <2>3. FileCovers'
    BY <2>1 DEF IInv, FileCovers
  <2> QED BY <1>0, <2>2, <2>3 DEF IInv
<1> QED BY <1>1, <1>2, <1>3, <1>4, <1>5 DEF Next

-----------------------------------------------------------------------------

\* A live grant that the report does not list has an event the next scan reads,
\* and one not older than scannedAt says.
LEMMA UnlistedIsAccepted ==
    ASSUME IInv, Anchored(file), NEW p \in Pairs, Live(p), p \notin file.report.live
    PROVE  \E x \in events : x \in Accepted(file.report) /\ x[1] = p
<1>1. /\ tip \in Nat /\ clock \in Nat /\ tip + Depth >= clock /\ allow[tip][p] \in Nat
  BY ScanAssumption DEF IInv, Base, ChainTyped, ChainOK
<1>2. KeptIn(tip, allow, tip, p)
  BY <1>1 DEF KeptIn
<1>3. allow[tip][p] > clock /\ allow[tip][p] > 0 /\ tip <= tip
  BY <1>1 DEF Live
<1>4. FoundIn(tip, clock, allow, events, p, 0, Accepted(file.report))
  BY DEF IInv, FileCovers, FileCoversIn, ListsIn
<1>5. \E x \in events : x \in Accepted(file.report) /\ x[1] = p /\ x[3] <= tip
  <2> HIDE DEF KeptIn
  <2> QED BY <1>1, <1>2, <1>3, <1>4, FoundAt
<1> QED BY <1>5

\* As long as reorganisations undo no revocation and no spending, no live grant
\* is lost behind the anchor: an unlisted one has an event in the blocks the
\* next incremental scan walks (approvalScan.mjs:24-27, :69).
THEOREM NoneLostBehindTheAnchor ==
    ASSUME ~LoweringsOrphaned PROVE Spec => []MissesOnlyRecent
<1>1. IInv => MissesOnlyRecent
  <2>1. ASSUME IInv, Anchored(file), NEW p \in Pairs, Live(p), p \notin file.report.live
        PROVE  Ahead(file.report, p)
    BY <2>1, UnlistedIsAccepted DEF Ahead, Accepted
  <2> QED BY <2>1 DEF MissesOnlyRecent
<1> QED BY <1>1, InitIInv, NextIInv, PTL DEF Spec

\* Under the same condition, scannedAt makes no report look younger than what
\* it covers (scan-approvals.mjs:195-201).
THEOREM AgeIsHonest ==
    ASSUME ~LoweringsOrphaned PROVE Spec => []AgeNotUnderstated
<1>1. IInv => AgeNotUnderstated
  <2>1. ASSUME IInv, Anchored(file), NEW p \in Pairs, Live(p), p \notin file.report.live
        PROVE  \E x \in events : x[1] = p /\ x[3] + Lag + Depth > file.report.at
    BY <2>1, UnlistedIsAccepted DEF Accepted
  <2> QED BY <2>1 DEF AgeNotUnderstated
<1> QED BY <1>1, InitIInv, NextIInv, PTL DEF Spec

\* Every variable stays in its type.
THEOREM TypeCorrect == Spec => []TypeOK
<1>1. Base => TypeOK
  <2> SUFFICES ASSUME Base PROVE TypeOK
    OBVIOUS
  <2>1. events \subseteq Pairs \X Kinds \X (1..tip)
    <3>1. SUFFICES ASSUME NEW x \in events PROVE x \in Pairs \X Kinds \X (1..tip)
      OBVIOUS
    <3>2. x \in Events /\ x[3] <= tip /\ tip \in Nat
      BY ScanAssumption DEF Base, ChainTyped
    <3> QED BY <3>2 DEF Events
  <2>2. file \in [whole : BOOLEAN, report : Report] /\ run \in [Runs -> RunStates]
    BY DEF Base, RunTyped, Files
  <2> QED BY <2>1, <2>2 DEF Base, ChainTyped, TypeOK, RunStates, Kinds
<1> QED BY <1>1, InitBase, NextBase, PTL DEF Spec
=============================================================================
