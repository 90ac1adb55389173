--------------------------- MODULE Sentinel_proofs ---------------------------
(***************************************************************************)
(* Proofs about the sentinel, for any number of overlapping runs, any      *)
(* allowances and tokens, and a chain of any length.                       *)
(***************************************************************************)
EXTENDS Sentinel, FiniteSetTheorems, TLAPS

USE SentinelAssumption

LEMMA BlankTyped == Blank \in States
  BY DEF Blank, States, Blocks

LEMMA NoRunTyped == NoRun \in Processes
  BY BlankTyped DEF NoRun, Processes, PCs, Blocks

LEMMA StateTyped ==
    ASSUME NEW st \in States, NEW d \in Detectors \union {Unversioned},
           NEW f \in SUBSET Tokens, NEW s \in SUBSET Tokens
    PROVE  [st EXCEPT !.flagged = f, !.seen = s, !.det = d] \in States
  BY DEF States

LEMMA PhaseTyped ==
    ASSUME NEW p \in Processes, NEW c \in PCs, NEW st \in States,
           NEW tokens \in SUBSET Tokens
    PROVE  /\ [p EXCEPT !.pc = c] \in Processes
           /\ [p EXCEPT !.st = st, !.pc = c] \in Processes
           /\ [p EXCEPT !.pc = c, !.st = st, !.newTokens = tokens] \in Processes
  BY DEF Processes

LEMMA ReadTyped ==
    ASSUME NEW p \in Processes, NEW live \in SUBSET Approvals, NEW todo \in SUBSET Approvals
    PROVE  [p EXCEPT !.todo = todo,
                     !.newApprovals = p.newApprovals \union (live \ p.st.alerted),
                     !.st = [p.st EXCEPT !.alerted = p.st.alerted \union live]] \in Processes
<1>1. [p.st EXCEPT !.alerted = p.st.alerted \union live] \in States
  BY DEF Processes, States
<1>2. p.newApprovals \union (live \ p.st.alerted) \in SUBSET Approvals
  BY DEF Processes
<1> QED BY <1>1, <1>2 DEF Processes

LEMMA BaselineTyped ==
    ASSUME TypeOK, NEW st \in States, NEW d \in Detectors, NEW f \in SUBSET Tokens
    PROVE  PlannedBaseline(st, d, f) \in States
  BY DEF TypeOK, PlannedBaseline, States

LEMMA ScanOverTyped ==
    ASSUME TypeOK, NEW r \in Runs, NEW st \in States, NEW tokens \in SUBSET Tokens,
           ScanOver(r, st, tokens)
    PROVE  runs' \in [Runs -> Processes]
<1>1. [st EXCEPT !.last = runs[r].latest] \in States
  BY DEF TypeOK, States, Processes
<1> DEFINE next == IF runs[r].newApprovals = {} /\ tokens = {} THEN "write" ELSE "attest"
           after == [runs[r] EXCEPT !.pc = next,
                                    !.st = [st EXCEPT !.last = runs[r].latest],
                                    !.newTokens = tokens]
<1>2. after \in Processes
  BY <1>1, PhaseTyped DEF TypeOK, PCs
<1>3. runs' = [runs EXCEPT ![r] = IF runs[r].dry THEN NoRun ELSE after]
  BY DEF ScanOver, AfterScan, NextPhase
<1> QED BY <1>2, <1>3, NoRunTyped DEF TypeOK

LEMMA InitTyped == Init => TypeOK
<1> SUFFICES ASSUME Init PROVE TypeOK
  OBVIOUS
<1>1. disk \in States
  <2>1. PICK d \in {detector, Unversioned} :
           disk = [Blank EXCEPT !.flagged = held \cap Flagged[detector],
                                !.seen = held, !.det = d]
    BY DEF Init
  <2> QED BY <2>1, BlankTyped, StateTyped DEF Init
<1>2. grant \in [Approvals -> [block : Blocks, via : {"none", "approval", "permit"}]]
  BY DEF Init, NoGrant, Blocks
<1> QED BY <1>1, <1>2, NoRunTyped DEF Init, TypeOK, Blocks, Exposures

LEMMA EnvironmentTyped == TypeOK /\ Environment => TypeOK'
<1> SUFFICES ASSUME TypeOK, Environment PROVE TypeOK'
  OBVIOUS
<1> USE DEF TypeOK, store, Mine, Blocks
<1>1. CASE EmptyBlock
  BY <1>1 DEF EmptyBlock
<1>2. ASSUME NEW k \in Approvals, Approve(k) PROVE TypeOK'
  BY <1>2 DEF Approve
<1>3. ASSUME NEW k \in Approvals, GrantByPermit(k) PROVE TypeOK'
  BY <1>3 DEF GrantByPermit
<1>4. ASSUME NEW k \in Approvals, Revoke(k) PROVE TypeOK'
  BY <1>4 DEF Revoke, NoGrant
<1>5. ASSUME NEW k \in Approvals, UseUp(k) PROVE TypeOK'
  BY <1>5 DEF UseUp, NoGrant
<1>6. ASSUME NEW t \in Tokens, Arrive(t) PROVE TypeOK'
  BY <1>6 DEF Arrive
<1>7. ASSUME NEW t \in Tokens, Leave(t) PROVE TypeOK'
  BY <1>7 DEF Leave
<1>8. ASSUME NEW d \in Detectors, Deploy(d) PROVE TypeOK'
  BY <1>8 DEF Deploy, chain
<1>9. CASE Restore
  BY <1>9 DEF Restore, chain
<1> QED BY <1>1, <1>2, <1>3, <1>4, <1>5, <1>6, <1>7, <1>8, <1>9 DEF Environment

LEMMA RunsTyped ==
    ASSUME TypeOK, UNCHANGED <<chain, detector, store, attestedAt>>,
           runs' \in [Runs -> Processes]
    PROVE  TypeOK'
  BY DEF TypeOK, chain, store

LEMMA StepTyped == ASSUME TypeOK, NEW r \in Runs, Step(r) PROVE TypeOK'
<1>0. /\ runs \in [Runs -> Processes] /\ runs[r] \in Processes
      /\ disk \in States /\ runs[r].st \in States /\ runs[r].det \in Detectors
      /\ detector \in Detectors /\ head \in Blocks
  BY DEF TypeOK, Processes
<1>1. ASSUME NEW dry \in BOOLEAN, Start(r, dry) PROVE TypeOK'
  <2>1. [NoRun EXCEPT !.pc = "load", !.dry = dry, !.det = detector, !.latest = head]
           \in Processes
    BY <1>0, NoRunTyped DEF Processes, PCs
  <2>2. runs' \in [Runs -> Processes]
    BY <1>0, <1>1, <2>1 DEF Start
  <2> QED BY <1>1, <2>2, RunsTyped DEF Start
<1>2. CASE Load(r)
  <2> DEFINE next == IF disk.last + 1 <= runs[r].latest THEN "logs" ELSE "reads"
  <2>1. next \in PCs
    BY DEF PCs
  <2>2. runs' = [runs EXCEPT ![r] = [runs[r] EXCEPT !.st = disk, !.pc = next]]
    BY <1>2 DEF Load
  <2> HIDE DEF next
  <2>3. runs' \in [Runs -> Processes]
    BY <1>0, <2>1, <2>2, PhaseTyped
  <2> QED BY <1>2, <2>3, RunsTyped DEF Load
<1>3. CASE ReadLogs(r)
  <2>1. [runs[r] EXCEPT !.pc = "reads", !.todo = Discovered(runs[r])] \in Processes
    BY <1>0 DEF Processes, PCs, Discovered
  <2>2. runs' \in [Runs -> Processes]
    BY <1>0, <1>3, <2>1 DEF ReadLogs
  <2> QED BY <1>3, <2>2, RunsTyped DEF ReadLogs
<1>4. ASSUME NEW k \in Approvals, ReadAllowance(r, k) PROVE TypeOK'
  <2> DEFINE live == {a \in {k} : Live(a)}
             todo == runs[r].todo \ {k}
             after == [runs[r] EXCEPT !.todo = todo,
                         !.newApprovals = runs[r].newApprovals \union (live \ runs[r].st.alerted),
                         !.st = [runs[r].st EXCEPT !.alerted = runs[r].st.alerted \union live]]
  <2>1. runs' = [runs EXCEPT ![r] = after]
    BY <1>4 DEF ReadAllowance
  <2>2. live \in SUBSET Approvals /\ todo \in SUBSET Approvals
    BY <1>0 DEF Processes
  <2>3. after \in Processes
    <3> HIDE DEF live, todo
    <3> QED BY <1>0, <2>2, ReadTyped
  <2> HIDE DEF after
  <2>4. runs' \in [Runs -> Processes]
    BY <1>0, <2>1, <2>3
  <2> QED BY <1>4, <2>4, RunsTyped DEF ReadAllowance
<1>5. CASE ReadHoldings(r)
  <2>1. PICK list \in SUBSET held :
           ScanOver(r, PlannedBaseline(runs[r].st, runs[r].det, list \cap Flagged[runs[r].det]),
                       PlannedTokens(runs[r].st, runs[r].det, list \cap Flagged[runs[r].det]))
    BY <1>5 DEF ReadHoldings
  <2> DEFINE f == list \cap Flagged[runs[r].det]
  <2>2. f \in SUBSET Tokens
    BY DEF TypeOK
  <2>3. PlannedTokens(runs[r].st, runs[r].det, f) \in SUBSET Tokens
    BY <2>2 DEF PlannedTokens
  <2>4. runs' \in [Runs -> Processes]
    BY <1>0, <2>1, <2>2, <2>3, BaselineTyped, ScanOverTyped
  <2> QED BY <1>5, <2>4, RunsTyped DEF ReadHoldings
<1>6. CASE HoldingsUnavailable(r)
  <2>1. runs' \in [Runs -> Processes]
    BY <1>0, <1>6, ScanOverTyped DEF HoldingsUnavailable
  <2> QED BY <1>6, <2>1, RunsTyped DEF HoldingsUnavailable
<1>7. CASE Attest(r)
  <2>1. attestedAt' \in [Exposures -> Blocks]
    BY <1>0, <1>7 DEF Attest, TypeOK
  <2>2. runs' \in [Runs -> Processes]
    BY <1>0, <1>7, PhaseTyped DEF Attest, PCs
  <2> QED BY <1>7, <2>1, <2>2 DEF Attest, TypeOK, chain, store
<1>8. CASE OpenState(r)
  <2>1. runs' \in [Runs -> Processes]
    BY <1>0, <1>8, PhaseTyped DEF OpenState, PCs
  <2> QED BY <1>8, <2>1 DEF OpenState, TypeOK, chain
<1>9. CASE WriteState(r)
  <2>1. runs' \in [Runs -> Processes]
    BY <1>0, <1>9, NoRunTyped DEF WriteState
  <2>2. disk' \in States /\ copy' \in States /\ file' \in {"whole", "empty", "mixed"}
    BY <1>0, <1>9 DEF WriteState, TypeOK
  <2> QED BY <1>9, <2>1, <2>2 DEF WriteState, TypeOK, chain
<1>10. CASE Stop(r)
  <2>1. runs' \in [Runs -> Processes]
    BY <1>0, <1>10, NoRunTyped DEF Stop
  <2> QED BY <1>10, <2>1, RunsTyped DEF Stop
<1> QED BY <1>1, <1>2, <1>3, <1>4, <1>5, <1>6, <1>7, <1>8, <1>9, <1>10 DEF Step

\* Every variable keeps to its type.
THEOREM TypeCorrect == Spec => []TypeOK
<1>1. TypeOK /\ [Next]_vars => TypeOK'
  <2>1. TypeOK /\ UNCHANGED vars => TypeOK'
    BY DEF TypeOK, vars, chain, store
  <2> QED BY <2>1, EnvironmentTyped, StepTyped DEF Next
<1> QED BY <1>1, InitTyped, PTL DEF Spec

-----------------------------------------------------------------------------
(***************************************************************************)
(* NothingSkipped.  That the state file covers the grants up to its anchor *)
(* is not inductive: the file is written by a run that loaded it earlier,  *)
(* perhaps before another run wrote.  The invariant says of each run what  *)
(* its own copy covers in each phase: while it reads, the known approvals  *)
(* and the pairs still to be read cover the grants up to `latest'.         *)
(***************************************************************************)

CoversAt(n, known) ==
    \A k \in Approvals :
        grant[k].via = "approval" /\ grant[k].block \in 1..n => k \in known

\* A grant made by approve() left its event in the block it was made in.
ChainInv ==
    \A k \in Approvals :
        /\ grant[k].block <= head
        /\ grant[k].via = "approval" /\ grant[k].block >= 1
              => grant[k].block \in events[k]

StoreInv ==
    /\ disk.last <= head /\ CoversAt(disk.last, disk.alerted)
    /\ copy.last <= head /\ CoversAt(copy.last, copy.alerted)

RunInv(p) ==
    /\ p.latest <= head
    /\ p.st.last <= head
    /\ p.pc = "logs" => CoversAt(p.st.last, p.st.alerted)
    /\ p.pc = "reads" => CoversAt(p.latest, p.st.alerted \union p.todo)
    /\ p.pc \in {"attest", "write", "writing"} => CoversAt(p.st.last, p.st.alerted)

CoverInv == TypeOK /\ ChainInv /\ StoreInv /\ \A r \in Runs : RunInv(runs[r])

\* What the wallet's steps do to the grants: new ones are beyond the tip.
GrantsMove ==
    /\ head <= head'
    /\ \A k \in Approvals :
          grant'[k] # grant[k] /\ grant'[k].via = "approval" => grant'[k].block > head

LEMMA CoversStable ==
    ASSUME TypeOK, GrantsMove, NEW n \in Blocks, n <= head, NEW known, CoversAt(n, known)
    PROVE  CoversAt(n, known)'
<1> SUFFICES ASSUME NEW k \in Approvals, grant'[k].via = "approval",
                    grant'[k].block \in 1..n
             PROVE  k \in known
  BY DEF CoversAt
<1>1. CASE grant'[k] = grant[k]
  BY <1>1 DEF CoversAt
<1>2. CASE grant'[k].block > head
  BY <1>2 DEF TypeOK, Blocks
<1> QED BY <1>1, <1>2 DEF GrantsMove

\* A step of the wallet keeps the chain's invariant, and moves grants as said.
WalletStep ==
    \/ EmptyBlock
    \/ \E k \in Approvals : Approve(k) \/ GrantByPermit(k) \/ Revoke(k) \/ UseUp(k)
    \/ \E t \in Tokens : Arrive(t) \/ Leave(t)

LEMMA WalletMoves ==
    ASSUME TypeOK, ChainInv, WalletStep
    PROVE  ChainInv' /\ GrantsMove /\ UNCHANGED <<disk, copy, runs>>
<1> DEFINE Goal == ChainInv' /\ GrantsMove /\ UNCHANGED <<disk, copy, runs>>
<1>0. /\ head \in Nat
      /\ DOMAIN grant = Approvals /\ DOMAIN events = Approvals
      /\ \A j \in Approvals : grant[j].block \in Nat /\ grant[j].block <= head
      /\ \A j \in Approvals : grant[j].via = "approval" /\ grant[j].block >= 1
                                => grant[j].block \in events[j]
  BY DEF TypeOK, Blocks, ChainInv
<1>1. ASSUME head' \in {head, head + 1}, UNCHANGED <<grant, events, store, runs>>
      PROVE  Goal
  <2>1. head <= head' /\ grant' = grant /\ events' = events
    BY <1>0, <1>1
  <2>2. ChainInv'
    BY <1>0, <1>1, <2>1 DEF ChainInv
  <2>3. GrantsMove
    BY <2>1 DEF GrantsMove
  <2>4. UNCHANGED <<disk, copy, runs>>
    BY <1>1 DEF store
  <2> QED BY <2>2, <2>3, <2>4
<1> DEFINE Moves(k) ==
             /\ head' \in {head, head + 1}
             /\ grant'[k].block \in Nat /\ grant'[k].block <= head'
             /\ grant'[k].via = "approval" =>
                   grant'[k].block > head /\ grant'[k].block \in events'[k]
             /\ \A j \in Approvals : j # k => grant'[j] = grant[j]
             /\ \A j \in Approvals : events[j] \subseteq events'[j]
             /\ UNCHANGED <<store, runs>>
<1>2. ASSUME NEW k \in Approvals, Moves(k) PROVE Goal
  <2>1. head <= head'
    BY <1>0, <1>2
  <2>2. ChainInv'
    BY <1>0, <1>2, <2>1 DEF ChainInv
  <2>3. GrantsMove
    BY <1>0, <1>2, <2>1 DEF GrantsMove
  <2>4. UNCHANGED <<disk, copy, runs>>
    BY <1>2 DEF store
  <2> QED BY <2>2, <2>3, <2>4
<1>3. CASE EmptyBlock
  BY <1>1, <1>3 DEF EmptyBlock, Mine
<1>4. ASSUME NEW k \in Approvals, Approve(k) PROVE Goal
  <2>1. /\ grant'[k].block = head' /\ head' = head + 1
        /\ events'[k] = events[k] \union {head'}
    BY <1>0, <1>4 DEF Approve, Mine
  <2>2. /\ \A j \in Approvals : j # k => grant'[j] = grant[j]
        /\ \A j \in Approvals : events[j] \subseteq events'[j]
        /\ UNCHANGED <<store, runs>>
    BY <1>0, <1>4 DEF Approve
  <2>3. Moves(k)
    BY <1>0, <2>1, <2>2
  <2> QED BY <1>2, <2>3
<1>5. ASSUME NEW k \in Approvals, GrantByPermit(k) PROVE Goal
  <2>1. grant'[k].block = head' /\ grant'[k].via = "permit" /\ head' = head + 1
    BY <1>0, <1>5 DEF GrantByPermit, Mine
  <2>2. /\ \A j \in Approvals : j # k => grant'[j] = grant[j]
        /\ UNCHANGED <<events, store, runs>>
    BY <1>0, <1>5 DEF GrantByPermit
  <2>3. Moves(k)
    BY <1>0, <2>1, <2>2
  <2> QED BY <1>2, <2>3
<1>6. ASSUME NEW k \in Approvals, Revoke(k) PROVE Goal
  <2>1. grant'[k].block = 0 /\ grant'[k].via = "none" /\ head' = head + 1
    BY <1>0, <1>6 DEF Revoke, Mine, NoGrant
  <2>2. /\ \A j \in Approvals : j # k => grant'[j] = grant[j]
        /\ \A j \in Approvals : events[j] \subseteq events'[j]
        /\ UNCHANGED <<store, runs>>
    BY <1>0, <1>6 DEF Revoke
  <2>3. Moves(k)
    BY <1>0, <2>1, <2>2
  <2> QED BY <1>2, <2>3
<1>7. ASSUME NEW k \in Approvals, UseUp(k) PROVE Goal
  <2>1. grant'[k].block = 0 /\ grant'[k].via = "none" /\ head' = head
    BY <1>0, <1>7 DEF UseUp, NoGrant
  <2>2. /\ \A j \in Approvals : j # k => grant'[j] = grant[j]
        /\ UNCHANGED <<events, store, runs>>
    BY <1>0, <1>7 DEF UseUp
  <2>3. Moves(k)
    BY <1>0, <2>1, <2>2
  <2> QED BY <1>2, <2>3
<1>8. ASSUME NEW t \in Tokens, Arrive(t) \/ Leave(t) PROVE Goal
  BY <1>1, <1>8 DEF Arrive, Leave, Mine
<1> QED BY <1>3, <1>4, <1>5, <1>6, <1>7, <1>8 DEF WalletStep

LEMMA CoverEnvironment == CoverInv /\ Environment => CoverInv'
<1> SUFFICES ASSUME CoverInv, Environment PROVE CoverInv'
  OBVIOUS
<1>0. TypeOK'
  BY EnvironmentTyped DEF CoverInv
<1>1. CASE WalletStep
  <2>1. ChainInv' /\ GrantsMove /\ UNCHANGED <<disk, copy, runs>>
    BY <1>1, WalletMoves DEF CoverInv
  <2>2. disk \in States /\ copy \in States /\ \A r \in Runs : runs[r] \in Processes
    BY DEF CoverInv, TypeOK
  <2>3. head \in Nat /\ head' \in Nat /\ head <= head'
    BY <1>0, <2>1 DEF CoverInv, TypeOK, GrantsMove, Blocks
  <2>4. StoreInv'
    <3>1. disk.last \in Blocks /\ copy.last \in Blocks
      BY <2>2 DEF States
    <3>2. CoversAt(disk.last, disk.alerted)' /\ CoversAt(copy.last, copy.alerted)'
      <4>1. CoversAt(disk.last, disk.alerted) /\ CoversAt(copy.last, copy.alerted)
            /\ disk.last <= head /\ copy.last <= head
        BY DEF CoverInv, StoreInv
      <4>2. ASSUME NEW n \in Blocks, n <= head, NEW known, CoversAt(n, known)
            PROVE  \A k \in Approvals :
                     grant'[k].via = "approval" /\ grant'[k].block \in 1..n => k \in known
        BY <2>1, <4>2, CoversStable DEF CoverInv, CoversAt
      <4> QED BY <2>1, <3>1, <4>1, <4>2 DEF CoversAt
    <3> QED BY <2>1, <2>3, <3>1, <3>2 DEF CoverInv, StoreInv, Blocks
  <2>5. ASSUME NEW r \in Runs PROVE RunInv(runs[r])'
    <3>1. runs[r].latest \in Blocks /\ runs[r].st.last \in Blocks /\ runs'[r] = runs[r]
      BY <2>1, <2>2 DEF Processes, States
    <3>2. ASSUME NEW n \in Blocks, n <= head, NEW known, CoversAt(n, known)
          PROVE  \A k \in Approvals :
                   grant'[k].via = "approval" /\ grant'[k].block \in 1..n => k \in known
      BY <2>1, <3>2, CoversStable DEF CoverInv, CoversAt
    <3>3. RunInv(runs[r])
      BY DEF CoverInv
    <3>4. /\ runs[r].latest <= head' /\ runs[r].st.last <= head'
      BY <2>3, <3>1, <3>3 DEF RunInv, Blocks
    <3>5. runs'[r].pc = "logs" => CoversAt(runs[r].st.last, runs[r].st.alerted)'
      BY <2>1, <3>1, <3>2, <3>3 DEF RunInv, CoversAt
    <3>6. runs'[r].pc = "reads" =>
             CoversAt(runs[r].latest, runs[r].st.alerted \union runs[r].todo)'
      <4> DEFINE known == runs[r].st.alerted \union runs[r].todo
      <4>1. known' = known
        BY <2>1
      <4>2. runs[r].pc = "reads" => CoversAt(runs[r].latest, known)
        BY <3>3 DEF RunInv
      <4> HIDE DEF known
      <4>3. runs[r].pc = "reads" => CoversAt(runs[r].latest, known)'
        BY <2>1, <3>1, <3>2, <3>3, <4>1, <4>2 DEF RunInv, CoversAt
      <4> QED BY <2>1, <3>1, <4>3 DEF known
    <3>7. runs'[r].pc \in {"attest", "write", "writing"} =>
             CoversAt(runs[r].st.last, runs[r].st.alerted)'
      BY <2>1, <3>1, <3>2, <3>3 DEF RunInv, CoversAt
    <3> QED BY <2>1, <3>1, <3>4, <3>5, <3>6, <3>7 DEF RunInv
  <2> QED BY <1>0, <2>1, <2>4, <2>5 DEF CoverInv
<1>2. ASSUME NEW d \in Detectors, Deploy(d) PROVE CoverInv'
  BY <1>0, <1>2 DEF Deploy, chain, store, CoverInv, ChainInv, StoreInv, RunInv, CoversAt
<1>3. CASE Restore
  BY <1>0, <1>3 DEF Restore, chain, CoverInv, ChainInv, StoreInv, RunInv, CoversAt
<1> QED BY <1>1, <1>2, <1>3 DEF Environment, WalletStep

\* After a step of run r that leaves the chain and the other runs alone, only
\* the state files and r itself are in question.
LEMMA CoverAfterStep ==
    ASSUME CoverInv, TypeOK', UNCHANGED chain, NEW r \in Runs, NEW p,
           runs' = [runs EXCEPT ![r] = p], RunInv(p),
           disk'.last <= head /\ CoversAt(disk'.last, disk'.alerted),
           copy'.last <= head /\ CoversAt(copy'.last, copy'.alerted)
    PROVE  CoverInv'
<1>1. head' = head /\ grant' = grant /\ events' = events
  BY DEF chain
<1>2. ChainInv'
  BY <1>1 DEF CoverInv, ChainInv
<1>3. StoreInv'
  BY <1>1 DEF StoreInv, CoversAt
<1>4. ASSUME NEW q \in Runs PROVE RunInv(runs[q])'
  <2>1. runs'[q] = IF q = r THEN p ELSE runs[q]
    BY DEF CoverInv, TypeOK
  <2>2. RunInv(runs'[q])
    BY <2>1 DEF CoverInv
  <2> HIDE DEF CoverInv
  <2> QED BY <1>1, <2>2 DEF RunInv, CoversAt
<1> QED BY <1>2, <1>3, <1>4 DEF CoverInv

LEMMA NoRunInv == TypeOK => RunInv(NoRun)
  BY DEF NoRun, Blank, RunInv, TypeOK, Blocks

\* When the allowances have been read, what is known covers `latest'.
LEMMA ScanOverCovers ==
    ASSUME CoverInv, NEW r \in Runs, ApprovalsScanned(r),
           NEW st \in States, st.alerted = runs[r].st.alerted,
           NEW tokens, ScanOver(r, st, tokens)
    PROVE  \E p : runs' = [runs EXCEPT ![r] = p] /\ RunInv(p)
<1> DEFINE next == IF runs[r].newApprovals = {} /\ tokens = {} THEN "write" ELSE "attest"
           state == [st EXCEPT !.last = runs[r].latest]
           after == [runs[r] EXCEPT !.pc = next, !.st = state, !.newTokens = tokens]
<1>1. runs[r] \in Processes /\ RunInv(runs[r]) /\ TypeOK
  BY DEF CoverInv, TypeOK
<1>2. runs' = [runs EXCEPT ![r] = IF runs[r].dry THEN NoRun ELSE after]
  BY DEF ScanOver, AfterScan, NextPhase
<1>3. CoversAt(runs[r].latest, runs[r].st.alerted)
  <2>1. runs[r].st.alerted \union runs[r].todo = runs[r].st.alerted
    BY DEF ApprovalsScanned
  <2> QED BY <1>1, <2>1 DEF RunInv, ApprovalsScanned
<1>4. state.last = runs[r].latest /\ state.alerted = runs[r].st.alerted
  BY DEF States
<1>5. next \in {"write", "attest"}
  OBVIOUS
<1> HIDE DEF next, state
<1>6. after.pc = next /\ after.st = state /\ after.latest = runs[r].latest
  BY <1>1 DEF Processes
<1> HIDE DEF after
<1>7. RunInv(after)
  BY <1>1, <1>3, <1>4, <1>5, <1>6 DEF RunInv
<1> QED BY <1>1, <1>2, <1>7, NoRunInv

LEMMA CoverStep == ASSUME CoverInv, NEW r \in Runs, Step(r) PROVE CoverInv'
<1>0. /\ TypeOK /\ TypeOK'
      /\ runs[r] \in Processes /\ runs[r].st \in States /\ disk \in States
      /\ RunInv(runs[r]) /\ RunInv(NoRun)
  BY StepTyped, NoRunInv DEF CoverInv, TypeOK, Processes
<1>1. /\ disk.last <= head /\ CoversAt(disk.last, disk.alerted)
      /\ copy.last <= head /\ CoversAt(copy.last, copy.alerted)
  BY DEF CoverInv, StoreInv
<1>2. ASSUME NEW p, runs' = [runs EXCEPT ![r] = p], RunInv(p), UNCHANGED <<chain, disk, copy>>
      PROVE  CoverInv'
  BY <1>0, <1>1, <1>2, CoverAfterStep
<1>3. ASSUME NEW dry \in BOOLEAN, Start(r, dry) PROVE CoverInv'
  <2> DEFINE p == [NoRun EXCEPT !.pc = "load", !.dry = dry, !.det = detector, !.latest = head]
  <2>1. RunInv(p)
    BY <1>0 DEF NoRun, Blank, RunInv, TypeOK, Blocks
  <2> QED BY <1>2, <1>3, <2>1 DEF Start, store
<1>4. CASE Load(r)
  <2> DEFINE next == IF disk.last + 1 <= runs[r].latest THEN "logs" ELSE "reads"
             p == [runs[r] EXCEPT !.st = disk, !.pc = next]
  <2>1. p.pc = next /\ p.st = disk /\ p.latest = runs[r].latest /\ p.todo = runs[r].todo
    BY <1>0 DEF Processes
  <2>2. next = "reads" => disk.last = runs[r].latest
    BY <1>0, <1>4 DEF Load, Loadable, Processes, States, Blocks
  <2>3. next \in {"logs", "reads"}
    OBVIOUS
  <2>4. runs' = [runs EXCEPT ![r] = p]
    BY <1>4 DEF Load
  <2> HIDE DEF p, next
  <2>5. RunInv(p)
    BY <1>0, <1>1, <2>1, <2>2, <2>3 DEF RunInv, CoversAt
  <2> QED BY <1>2, <1>4, <2>4, <2>5 DEF Load, store
<1>5. CASE ReadLogs(r)
  <2> DEFINE p == [runs[r] EXCEPT !.pc = "reads", !.todo = Discovered(runs[r])]
  <2>1. p.pc = "reads" /\ p.todo = Discovered(runs[r]) /\ p.latest = runs[r].latest
        /\ p.st = runs[r].st
    BY <1>0 DEF Processes
  <2>2. runs' = [runs EXCEPT ![r] = p]
    BY <1>5 DEF ReadLogs
  <2> HIDE DEF p
  <2>3. CoversAt(runs[r].latest, runs[r].st.alerted \union Discovered(runs[r]))
    <3> SUFFICES ASSUME NEW k \in Approvals, grant[k].via = "approval",
                        grant[k].block \in 1..runs[r].latest,
                        k \notin runs[r].st.alerted
                 PROVE  k \in Discovered(runs[r])
      BY DEF CoversAt
    <3>1. grant[k].block \in events[k] /\ grant[k].block <= runs[r].latest
      BY <1>0 DEF CoverInv, ChainInv, Processes, Blocks
    <3>2. runs[r].st.last + 1 <= grant[k].block
      BY <1>0, <1>5 DEF ReadLogs, RunInv, CoversAt, States, Blocks, Processes
    <3> QED BY <3>1, <3>2 DEF Discovered
  <2>4. RunInv(p)
    BY <1>0, <2>1, <2>3 DEF RunInv
  <2> QED BY <1>2, <1>5, <2>2, <2>4 DEF ReadLogs, store
<1>6. ASSUME NEW k \in Approvals, ReadAllowance(r, k) PROVE CoverInv'
  <2> DEFINE live == {a \in {k} : Live(a)}
             todo == runs[r].todo \ {k}
             known == runs[r].st.alerted \union live
             state == [runs[r].st EXCEPT !.alerted = known]
             p == [runs[r] EXCEPT !.todo = todo,
                     !.newApprovals = runs[r].newApprovals \union (live \ runs[r].st.alerted),
                     !.st = state]
  <2>1. runs' = [runs EXCEPT ![r] = p]
    BY <1>6 DEF ReadAllowance
  <2>2. CoversAt(runs[r].latest, known \union todo)
    BY <1>0, <1>6 DEF RunInv, CoversAt, ReadAllowance, Live
  <2>3. state.last = runs[r].st.last /\ state.alerted = known
    BY <1>0 DEF States
  <2> HIDE DEF known, todo, live, state
  <2>4. p.pc = runs[r].pc /\ p.todo = todo /\ p.latest = runs[r].latest /\ p.st = state
    BY <1>0 DEF Processes
  <2> HIDE DEF p
  <2>5. RunInv(p)
    BY <1>0, <1>6, <2>2, <2>3, <2>4 DEF RunInv, ReadAllowance
  <2> QED BY <1>2, <1>6, <2>1, <2>5 DEF ReadAllowance, store
<1>7. CASE ReadHoldings(r)
  <2>1. PICK list \in SUBSET held :
           ScanOver(r, PlannedBaseline(runs[r].st, runs[r].det, list \cap Flagged[runs[r].det]),
                       PlannedTokens(runs[r].st, runs[r].det, list \cap Flagged[runs[r].det]))
    BY <1>7 DEF ReadHoldings
  <2> DEFINE st == PlannedBaseline(runs[r].st, runs[r].det, list \cap Flagged[runs[r].det])
  <2>2. st \in States
    BY <1>0, BaselineTyped DEF TypeOK, Processes
  <2>3. st.alerted = runs[r].st.alerted
    BY <1>0 DEF PlannedBaseline, States
  <2>4. ApprovalsScanned(r)
    BY <1>7 DEF ReadHoldings
  <2> HIDE DEF st
  <2>5. PICK p : runs' = [runs EXCEPT ![r] = p] /\ RunInv(p)
    BY <2>1, <2>2, <2>3, <2>4, ScanOverCovers DEF st
  <2> QED BY <1>2, <1>7, <2>5 DEF ReadHoldings, store
<1>8. CASE HoldingsUnavailable(r)
  <2>1. PICK p : runs' = [runs EXCEPT ![r] = p] /\ RunInv(p)
    BY <1>0, <1>8, ScanOverCovers DEF HoldingsUnavailable
  <2> QED BY <1>2, <1>8, <2>1 DEF HoldingsUnavailable, store
<1>9. CASE Attest(r)
  <2> DEFINE p == [runs[r] EXCEPT !.pc = "write"]
  <2>1. p.pc = "write" /\ p.st = runs[r].st /\ p.latest = runs[r].latest
    BY <1>0 DEF Processes
  <2>2. runs' = [runs EXCEPT ![r] = p]
    BY <1>9 DEF Attest
  <2> HIDE DEF p
  <2>3. RunInv(p)
    BY <1>0, <1>9, <2>1 DEF RunInv, Attest
  <2> QED BY <1>2, <1>9, <2>2, <2>3 DEF Attest, store
<1>10. CASE OpenState(r)
  <2> DEFINE p == [runs[r] EXCEPT !.pc = "writing"]
  <2>1. p.pc = "writing" /\ p.st = runs[r].st /\ p.latest = runs[r].latest
    BY <1>0 DEF Processes
  <2>2. runs' = [runs EXCEPT ![r] = p]
    BY <1>10 DEF OpenState
  <2> HIDE DEF p
  <2>3. RunInv(p)
    BY <1>0, <1>10, <2>1 DEF RunInv, OpenState
  <2> QED BY <1>2, <1>10, <2>2, <2>3 DEF OpenState
<1>11. CASE WriteState(r)
  <2>1. runs[r].st.last <= head /\ CoversAt(runs[r].st.last, runs[r].st.alerted)
    BY <1>0, <1>11 DEF RunInv, WriteState
  <2>2. /\ disk'.last <= head /\ CoversAt(disk'.last, disk'.alerted)
        /\ copy'.last <= head /\ CoversAt(copy'.last, copy'.alerted)
    BY <1>1, <1>11, <2>1 DEF WriteState, CoversAt
  <2> QED BY <1>0, <1>11, <2>2, CoverAfterStep DEF WriteState
<1>12. CASE Stop(r)
  BY <1>0, <1>2, <1>12 DEF Stop, store
<1> QED BY <1>3, <1>4, <1>5, <1>6, <1>7, <1>8, <1>9, <1>10, <1>11, <1>12 DEF Step

LEMMA CoverInit == Init => CoverInv
<1> SUFFICES ASSUME Init PROVE CoverInv
  OBVIOUS
<1>1. TypeOK /\ RunInv(NoRun)
  BY InitTyped, NoRunInv
<1>2. disk.last = 0 /\ copy.last = 0
  BY DEF Init, Blank
<1>3. ChainInv
  BY DEF Init, ChainInv, NoGrant
<1>4. CoversAt(0, disk.alerted) /\ CoversAt(0, copy.alerted)
  BY DEF CoversAt
<1> QED BY <1>1, <1>2, <1>3, <1>4 DEF Init, CoverInv, StoreInv

\* No live approval at or below lastScannedBlock is unknown to the state file,
\* however runs overlap, fail, overwrite each other or are restored: what the
\* next run skips, an earlier one recorded (sentinel-run.mjs:163-179, 226).
THEOREM NeverSkipsAGrant == Spec => []NothingSkipped
<1>1. CoverInv /\ UNCHANGED vars => CoverInv'
  BY DEF CoverInv, TypeOK, ChainInv, StoreInv, RunInv, CoversAt, vars, chain, store
<1>2. CoverInv /\ [Next]_vars => CoverInv'
  BY <1>1, CoverEnvironment, CoverStep DEF Next
<1>3. CoverInv => NothingSkipped
  BY DEF CoverInv, StoreInv, CoversAt, NothingSkipped, CoversApprovals
<1> QED BY <1>2, <1>3, CoverInit, PTL DEF Spec

-----------------------------------------------------------------------------
(***************************************************************************)
(* RecordedWasAttested.  A run knows an approval either from the file it   *)
(* loaded, whose approvals were attested, or from a read of its own, which *)
(* the attestation lists; only after the attestation does it write.  And a *)
(* run with such reads saw an event, so the tip is past the baseline.      *)
(***************************************************************************)

AttestedAll(S) == \A k \in S : attestedAt[k] # 0

AttestedRun(p) ==
    /\ p.newApprovals # {} \/ p.todo # {} => p.latest >= 1
    /\ p.pc \in {"logs", "reads", "attest"} => AttestedAll(p.st.alerted \ p.newApprovals)
    /\ p.pc \in {"write", "writing"} => AttestedAll(p.st.alerted)

AttestInv ==
    /\ CoverInv
    /\ AttestedAll(disk.alerted) /\ AttestedAll(copy.alerted)
    /\ \A r \in Runs : AttestedRun(runs[r])

LEMMA AttestEnvironment == AttestInv /\ Environment => AttestInv'
<1> SUFFICES ASSUME AttestInv, Environment PROVE AttestInv'
  OBVIOUS
<1>1. CoverInv'
  BY CoverEnvironment DEF AttestInv
<1>2. /\ UNCHANGED <<runs, attestedAt>>
      /\ disk' \in {disk, copy} /\ copy' = copy
  BY DEF Environment, EmptyBlock, Approve, GrantByPermit, Revoke, UseUp, Arrive, Leave,
         Deploy, Restore, store
<1> QED BY <1>1, <1>2 DEF AttestInv, AttestedRun, AttestedAll

\* After a step of run r that attests nothing.
LEMMA AttestedAfterStep ==
    ASSUME AttestInv, CoverInv', UNCHANGED attestedAt, NEW r \in Runs, NEW p,
           runs' = [runs EXCEPT ![r] = p], AttestedRun(p),
           AttestedAll(disk'.alerted), AttestedAll(copy'.alerted)
    PROVE  AttestInv'
<1>1. ASSUME NEW q \in Runs PROVE AttestedRun(runs[q])'
  <2>1. runs'[q] = IF q = r THEN p ELSE runs[q]
    BY DEF AttestInv, CoverInv, TypeOK
  <2>2. AttestedRun(runs'[q])
    BY <2>1 DEF AttestInv
  <2> QED BY <2>2 DEF AttestedRun, AttestedAll
<1> QED BY <1>1 DEF AttestInv, AttestedAll

LEMMA NoRunAttested == AttestedRun(NoRun)
  BY DEF NoRun, AttestedRun

\* What the end of a scan hands on to the attestation or to the write.
LEMMA ScanOverAttested ==
    ASSUME AttestInv, NEW r \in Runs, ApprovalsScanned(r),
           NEW st \in States, st.alerted = runs[r].st.alerted,
           NEW tokens, ScanOver(r, st, tokens)
    PROVE  \E p : runs' = [runs EXCEPT ![r] = p] /\ AttestedRun(p)
<1> DEFINE next == IF runs[r].newApprovals = {} /\ tokens = {} THEN "write" ELSE "attest"
           state == [st EXCEPT !.last = runs[r].latest]
           after == [runs[r] EXCEPT !.pc = next, !.st = state, !.newTokens = tokens]
<1>1. runs[r] \in Processes /\ AttestedRun(runs[r])
  BY DEF AttestInv, CoverInv, TypeOK
<1>2. runs' = [runs EXCEPT ![r] = IF runs[r].dry THEN NoRun ELSE after]
  BY DEF ScanOver, AfterScan, NextPhase
<1>3. state.alerted = runs[r].st.alerted
  BY DEF States
<1>4. AttestedAll(runs[r].st.alerted \ runs[r].newApprovals)
  BY <1>1 DEF AttestedRun, ApprovalsScanned
<1>5. next = "write" => runs[r].newApprovals = {}
  OBVIOUS
<1>6. next \in {"write", "attest"}
  OBVIOUS
<1> HIDE DEF next, state
<1>7. /\ after.pc = next /\ after.st = state /\ after.latest = runs[r].latest
      /\ after.newApprovals = runs[r].newApprovals /\ after.todo = runs[r].todo
  BY <1>1 DEF Processes
<1> HIDE DEF after
<1>8. AttestedRun(after)
  BY <1>1, <1>3, <1>4, <1>5, <1>6, <1>7 DEF AttestedRun, AttestedAll
<1> QED BY <1>2, <1>8, NoRunAttested

\* The attestation names the run's new approvals, and unsays nothing.
LEMMA AttestAttests ==
    ASSUME AttestInv, CoverInv', NEW r \in Runs, Attest(r)
    PROVE  AttestInv'
<1> DEFINE p == [runs[r] EXCEPT !.pc = "write"]
<1>1. /\ runs[r] \in Processes /\ AttestedRun(runs[r]) /\ RunInv(runs[r])
      /\ head \in Nat /\ runs[r].latest \in Nat /\ runs[r].newTokens \subseteq Tokens
      /\ runs[r].st.alerted \subseteq Approvals /\ runs[r].newApprovals \subseteq Approvals
  BY DEF AttestInv, CoverInv, TypeOK, Processes, States, Blocks
<1>2. runs' = [runs EXCEPT ![r] = p] /\ UNCHANGED <<disk, copy>>
  BY DEF Attest, store
<1>3. \A k \in Approvals : attestedAt'[k] = IF k \in runs[r].newApprovals
                                            THEN head ELSE attestedAt[k]
  BY <1>1 DEF Attest, Exposures
<1>4. \A k \in runs[r].newApprovals : attestedAt'[k] # 0
  BY <1>1, <1>3 DEF AttestedRun, RunInv
<1>5. \A k \in Approvals : attestedAt[k] # 0 => attestedAt'[k] # 0
  BY <1>3, <1>4
<1>6. /\ p.pc = "write" /\ p.st = runs[r].st /\ p.latest = runs[r].latest
      /\ p.newApprovals = runs[r].newApprovals /\ p.todo = runs[r].todo
  BY <1>1 DEF Processes
<1> HIDE DEF p
<1>7. \A k \in runs[r].st.alerted : attestedAt'[k] # 0
  BY <1>1, <1>4, <1>5 DEF AttestedRun, AttestedAll, Attest
<1>8. ASSUME NEW q \in Runs PROVE AttestedRun(runs[q])'
  <2>1. runs'[q] = IF q = r THEN p ELSE runs[q]
    BY <1>2 DEF AttestInv, CoverInv, TypeOK
  <2>2. CASE q = r
    <3>1. runs'[q] = p
      BY <2>1, <2>2
    <3> QED BY <1>1, <1>6, <1>7, <3>1 DEF AttestedRun, AttestedAll
  <2>3. CASE q # r
    <3>1. runs'[q] = runs[q] /\ AttestedRun(runs[q]) /\ runs[q].st.alerted \subseteq Approvals
      BY <2>1, <2>3 DEF AttestInv, CoverInv, TypeOK, Processes, States
    <3> QED BY <1>5, <3>1 DEF AttestedRun, AttestedAll
  <2> QED BY <2>2, <2>3
<1>9. disk.alerted \subseteq Approvals /\ copy.alerted \subseteq Approvals
  BY DEF AttestInv, CoverInv, TypeOK, States
<1> QED BY <1>2, <1>5, <1>8, <1>9 DEF AttestInv, AttestedAll

LEMMA AttestStep == ASSUME AttestInv, NEW r \in Runs, Step(r) PROVE AttestInv'
<1>0. /\ CoverInv' /\ runs[r] \in Processes /\ runs[r].st \in States /\ disk \in States
      /\ AttestedRun(runs[r]) /\ AttestedAll(disk.alerted) /\ AttestedAll(copy.alerted)
  BY CoverStep DEF AttestInv, CoverInv, TypeOK, Processes
<1>1. ASSUME NEW p, runs' = [runs EXCEPT ![r] = p], AttestedRun(p),
             UNCHANGED <<disk, copy, attestedAt>>
      PROVE  AttestInv'
  BY <1>0, <1>1, AttestedAfterStep
<1>2. ASSUME NEW dry \in BOOLEAN, Start(r, dry) PROVE AttestInv'
  <2> DEFINE p == [NoRun EXCEPT !.pc = "load", !.dry = dry, !.det = detector, !.latest = head]
  <2>1. AttestedRun(p)
    BY DEF NoRun, AttestedRun
  <2> QED BY <1>1, <1>2, <2>1 DEF Start, store
<1>3. CASE Load(r)
  <2> DEFINE next == IF disk.last + 1 <= runs[r].latest THEN "logs" ELSE "reads"
             p == [runs[r] EXCEPT !.st = disk, !.pc = next]
  <2>1. /\ p.pc = next /\ p.st = disk /\ p.latest = runs[r].latest
        /\ p.todo = runs[r].todo /\ p.newApprovals = runs[r].newApprovals
    BY <1>0 DEF Processes
  <2>2. next \in {"logs", "reads"}
    OBVIOUS
  <2>3. runs' = [runs EXCEPT ![r] = p]
    BY <1>3 DEF Load
  <2> HIDE DEF p, next
  <2>4. AttestedRun(p)
    BY <1>0, <2>1, <2>2 DEF AttestedRun, AttestedAll
  <2> QED BY <1>1, <1>3, <2>3, <2>4 DEF Load, store
<1>4. CASE ReadLogs(r)
  <2> DEFINE p == [runs[r] EXCEPT !.pc = "reads", !.todo = Discovered(runs[r])]
  <2>1. /\ p.pc = "reads" /\ p.todo = Discovered(runs[r]) /\ p.latest = runs[r].latest
        /\ p.st = runs[r].st /\ p.newApprovals = runs[r].newApprovals
    BY <1>0 DEF Processes
  <2>2. runs' = [runs EXCEPT ![r] = p]
    BY <1>4 DEF ReadLogs
  <2> HIDE DEF p
  <2>3. Discovered(runs[r]) # {} => runs[r].latest >= 1
    <3>1. runs[r].st.last \in Nat /\ runs[r].latest \in Nat
      BY <1>0 DEF Processes, States, Blocks
    <3>2. \A k \in Approvals : events[k] \subseteq Nat
      BY DEF AttestInv, CoverInv, TypeOK, Blocks
    <3> QED BY <3>1, <3>2 DEF Discovered
  <2>4. AttestedRun(p)
    BY <1>0, <1>4, <2>1, <2>3 DEF AttestedRun, ReadLogs
  <2> QED BY <1>1, <1>4, <2>2, <2>4 DEF ReadLogs, store
<1>5. ASSUME NEW k \in Approvals, ReadAllowance(r, k) PROVE AttestInv'
  <2> DEFINE live == {a \in {k} : Live(a)}
             todo == runs[r].todo \ {k}
             known == runs[r].st.alerted \union live
             new == runs[r].newApprovals \union (live \ runs[r].st.alerted)
             state == [runs[r].st EXCEPT !.alerted = known]
             p == [runs[r] EXCEPT !.todo = todo, !.newApprovals = new, !.st = state]
  <2>1. runs' = [runs EXCEPT ![r] = p]
    BY <1>5 DEF ReadAllowance
  <2>2. known \ new \subseteq runs[r].st.alerted \ runs[r].newApprovals
    OBVIOUS
  <2>3. runs[r].latest >= 1 /\ runs[r].pc = "reads"
    BY <1>0, <1>5 DEF AttestedRun, ReadAllowance
  <2>4. state.alerted = known
    BY <1>0 DEF States
  <2> HIDE DEF known, todo, live, new, state
  <2>5. /\ p.pc = "reads" /\ p.todo = todo /\ p.latest = runs[r].latest
        /\ p.st = state /\ p.newApprovals = new
    BY <1>0, <2>3 DEF Processes
  <2> HIDE DEF p
  <2>6. AttestedRun(p)
    BY <1>0, <2>2, <2>3, <2>4, <2>5 DEF AttestedRun, AttestedAll
  <2> QED BY <1>1, <1>5, <2>1, <2>6 DEF ReadAllowance, store
<1>6. CASE ReadHoldings(r)
  <2>1. PICK list \in SUBSET held :
           ScanOver(r, PlannedBaseline(runs[r].st, runs[r].det, list \cap Flagged[runs[r].det]),
                       PlannedTokens(runs[r].st, runs[r].det, list \cap Flagged[runs[r].det]))
    BY <1>6 DEF ReadHoldings
  <2> DEFINE st == PlannedBaseline(runs[r].st, runs[r].det, list \cap Flagged[runs[r].det])
  <2>2. st \in States
    BY <1>0, BaselineTyped DEF AttestInv, CoverInv, TypeOK, Processes
  <2>3. st.alerted = runs[r].st.alerted
    BY <1>0 DEF PlannedBaseline, States
  <2>4. ApprovalsScanned(r)
    BY <1>6 DEF ReadHoldings
  <2> HIDE DEF st
  <2>5. PICK p : runs' = [runs EXCEPT ![r] = p] /\ AttestedRun(p)
    BY <2>1, <2>2, <2>3, <2>4, ScanOverAttested DEF st
  <2> QED BY <1>1, <1>6, <2>5 DEF ReadHoldings, store
<1>7. CASE HoldingsUnavailable(r)
  <2>1. PICK p : runs' = [runs EXCEPT ![r] = p] /\ AttestedRun(p)
    BY <1>0, <1>7, ScanOverAttested DEF HoldingsUnavailable
  <2> QED BY <1>1, <1>7, <2>1 DEF HoldingsUnavailable, store
<1>8. CASE Attest(r)
  BY <1>0, <1>8, AttestAttests
<1>9. CASE OpenState(r)
  <2> DEFINE p == [runs[r] EXCEPT !.pc = "writing"]
  <2>1. /\ p.pc = "writing" /\ p.st = runs[r].st /\ p.latest = runs[r].latest
        /\ p.todo = runs[r].todo /\ p.newApprovals = runs[r].newApprovals
    BY <1>0 DEF Processes
  <2>2. runs' = [runs EXCEPT ![r] = p]
    BY <1>9 DEF OpenState
  <2> HIDE DEF p
  <2>3. AttestedRun(p)
    BY <1>0, <1>9, <2>1 DEF AttestedRun, OpenState
  <2> QED BY <1>1, <1>9, <2>2, <2>3 DEF OpenState
<1>10. CASE WriteState(r)
  <2>1. AttestedAll(runs[r].st.alerted)
    BY <1>0, <1>10 DEF AttestedRun, WriteState
  <2>2. AttestedAll(disk'.alerted) /\ AttestedAll(copy'.alerted)
    BY <1>0, <1>10, <2>1 DEF WriteState
  <2> QED BY <1>0, <1>10, <2>2, NoRunAttested, AttestedAfterStep DEF WriteState
<1>11. CASE Stop(r)
  BY <1>1, <1>11, NoRunAttested DEF Stop, store
<1> QED BY <1>2, <1>3, <1>4, <1>5, <1>6, <1>7, <1>8, <1>9, <1>10, <1>11 DEF Step

LEMMA AttestInit == Init => AttestInv
<1> SUFFICES ASSUME Init PROVE AttestInv
  OBVIOUS
<1>1. disk.alerted = {} /\ copy = disk
  BY DEF Init, Blank
<1>2. \A r \in Runs : AttestedRun(runs[r])
  BY NoRunAttested DEF Init
<1> QED BY <1>1, <1>2, CoverInit DEF AttestInv, AttestedAll

\* Every approval the state file calls known has been attested, whatever runs
\* overlap, are killed, or fail between the attestation and the write
\* (sentinel-run.mjs:237-248).
THEOREM KnownMeansAttested == Spec => []RecordedWasAttested
<1>1. AttestInv /\ UNCHANGED vars => AttestInv'
  <2>1. CoverInv /\ UNCHANGED vars => CoverInv'
    BY DEF CoverInv, TypeOK, ChainInv, StoreInv, RunInv, CoversAt, vars, chain, store
  <2> QED BY <2>1 DEF AttestInv, AttestedRun, AttestedAll, vars, store
<1>2. AttestInv /\ [Next]_vars => AttestInv'
  BY <1>1, AttestEnvironment, AttestStep DEF Next
<1>3. AttestInv => RecordedWasAttested
  BY DEF AttestInv, AttestedAll, RecordedWasAttested
<1> QED BY <1>2, <1>3, AttestInit, PTL DEF Spec
-----------------------------------------------------------------------------
(***************************************************************************)
(* BaselineComplete, for wallets whose list fits the page cap (a longer    *)
(* one is cut off: MCSentinelTruncated).  The invariant: every state,      *)
(* on disk, in git or in a run, covers the tokens it was listed with.      *)
(***************************************************************************)

TokenInv ==
    /\ TypeOK /\ CoversTokens(disk) /\ CoversTokens(copy)
    /\ \A r \in Runs : CoversTokens(runs[r].st)

LEMMA BlankCovers == CoversTokens(Blank) /\ CoversTokens(NoRun.st)
  BY DEF CoversTokens, Blank, NoRun

\* Where the cap cuts nothing off, the list is what the wallet holds.
LEMMA ListedWhole ==
    ASSUME IsFiniteSet(Tokens), Cardinality(Tokens) <= PageCap,
           held \subseteq Tokens, NEW list \in SUBSET held, Listed(list)
    PROVE  list = held
<1>1. IsFiniteSet(held) /\ Cardinality(held) \in Nat
      /\ Cardinality(held) <= Cardinality(Tokens) /\ Cardinality(Tokens) \in Nat
  BY FS_Subset, FS_CardinalityType
<1>2. Cardinality(list) = Cardinality(held)
  BY <1>1 DEF Listed
<1> QED BY <1>1, <1>2, FS_Subset

LEMMA TokensAfterStep ==
    ASSUME TokenInv, TypeOK', NEW r \in Runs, NEW p, runs' = [runs EXCEPT ![r] = p],
           CoversTokens(p.st), CoversTokens(disk'), CoversTokens(copy')
    PROVE  TokenInv'
<1>1. \A q \in Runs : runs'[q] = IF q = r THEN p ELSE runs[q]
  BY DEF TokenInv, TypeOK
<1>2. \A q \in Runs : CoversTokens(runs'[q].st)
  BY <1>1 DEF TokenInv
<1> QED BY <1>2 DEF TokenInv, CoversTokens

LEMMA ScanOverTokens ==
    ASSUME TokenInv, NEW r \in Runs, NEW st \in States, CoversTokens(st),
           NEW tokens, ScanOver(r, st, tokens)
    PROVE  \E p : runs' = [runs EXCEPT ![r] = p] /\ CoversTokens(p.st)
<1> DEFINE state == [st EXCEPT !.last = runs[r].latest]
           p == [runs[r] EXCEPT !.pc = NextPhase(r, tokens), !.st = state,
                                !.newTokens = tokens]
<1>1. runs[r] \in Processes
  BY DEF TokenInv, TypeOK
<1>2. runs' = [runs EXCEPT ![r] = IF runs[r].dry THEN NoRun ELSE p]
  BY DEF ScanOver, AfterScan
<1>3. state.det = st.det /\ state.seen = st.seen /\ state.flagged = st.flagged
  BY DEF States
<1>4. CoversTokens(state)
  BY <1>3 DEF CoversTokens
<1> HIDE DEF state
<1>5. p.st = state
  BY <1>1 DEF Processes
<1> QED BY <1>2, <1>4, <1>5, BlankCovers

LEMMA TokenStep ==
    ASSUME IsFiniteSet(Tokens), Cardinality(Tokens) <= PageCap,
           TokenInv, NEW r \in Runs, Step(r)
    PROVE  TokenInv'
<1>0. /\ TypeOK /\ TypeOK' /\ runs[r] \in Processes /\ runs[r].st \in States
      /\ CoversTokens(disk) /\ CoversTokens(copy) /\ CoversTokens(runs[r].st)
  BY StepTyped DEF TokenInv, TypeOK, Processes
<1>1. ASSUME NEW p, runs' = [runs EXCEPT ![r] = p], CoversTokens(p.st),
             UNCHANGED <<disk, copy>>
      PROVE  TokenInv'
  BY <1>0, <1>1, TokensAfterStep
<1>2. ASSUME NEW p \in Processes, runs' = [runs EXCEPT ![r] = p], p.st = runs[r].st,
             UNCHANGED <<disk, copy>>
      PROVE  TokenInv'
  BY <1>0, <1>1, <1>2
<1>3. ASSUME NEW dry \in BOOLEAN, Start(r, dry) PROVE TokenInv'
  <2> DEFINE p == [NoRun EXCEPT !.pc = "load", !.dry = dry, !.det = detector,
                                !.latest = head]
  <2>1. p.st = NoRun.st /\ runs' = [runs EXCEPT ![r] = p]
    BY <1>3 DEF Start, NoRun
  <2> HIDE DEF p
  <2> QED BY <1>1, <1>3, <2>1, BlankCovers DEF Start, store
<1>4. CASE Load(r)
  <2> DEFINE next == IF disk.last + 1 <= runs[r].latest THEN "logs" ELSE "reads"
             p == [runs[r] EXCEPT !.st = disk, !.pc = next]
  <2>1. p.st = disk
    BY <1>0 DEF Processes
  <2>2. runs' = [runs EXCEPT ![r] = p]
    BY <1>4 DEF Load
  <2> HIDE DEF p
  <2> QED BY <1>0, <1>1, <1>4, <2>1, <2>2 DEF Load, store
<1>5. CASE ReadLogs(r)
  <2> DEFINE p == [runs[r] EXCEPT !.pc = "reads", !.todo = Discovered(runs[r])]
  <2>1. p.st = runs[r].st /\ runs' = [runs EXCEPT ![r] = p]
    BY <1>0, <1>5 DEF ReadLogs, Processes
  <2> HIDE DEF p
  <2> QED BY <1>0, <1>1, <1>5, <2>1 DEF ReadLogs, store
<1>6. ASSUME NEW k \in Approvals, ReadAllowance(r, k) PROVE TokenInv'
  <2> DEFINE live == {a \in {k} : Live(a)}
             state == [runs[r].st EXCEPT !.alerted = runs[r].st.alerted \union live]
             p == [runs[r] EXCEPT !.todo = runs[r].todo \ {k},
                     !.newApprovals = runs[r].newApprovals \union (live \ runs[r].st.alerted),
                     !.st = state]
  <2>1. runs' = [runs EXCEPT ![r] = p]
    BY <1>6 DEF ReadAllowance
  <2>2. /\ state.det = runs[r].st.det /\ state.seen = runs[r].st.seen
        /\ state.flagged = runs[r].st.flagged
    BY <1>0 DEF States
  <2>3. CoversTokens(state)
    BY <1>0, <2>2 DEF CoversTokens
  <2> HIDE DEF state
  <2>4. p.st = state
    BY <1>0 DEF Processes
  <2> HIDE DEF p
  <2> QED BY <1>1, <1>6, <2>1, <2>3, <2>4 DEF ReadAllowance, store
<1>7. CASE ReadHoldings(r)
  <2>1. PICK list \in SUBSET held :
           /\ Listed(list)
           /\ ScanOver(r, PlannedBaseline(runs[r].st, runs[r].det, list \cap Flagged[runs[r].det]),
                          PlannedTokens(runs[r].st, runs[r].det, list \cap Flagged[runs[r].det]))
    BY <1>7 DEF ReadHoldings
  <2> DEFINE st == PlannedBaseline(runs[r].st, runs[r].det, list \cap Flagged[runs[r].det])
  <2>2. list = held
    BY <1>0, <2>1, ListedWhole DEF TypeOK
  <2>3. runs[r].det \in Detectors /\ list \cap Flagged[runs[r].det] \in SUBSET Tokens
    BY <1>0 DEF Processes, TypeOK
  <2>4. st \in States
    BY <1>0, <2>3, BaselineTyped
  <2>5. /\ st.det = runs[r].det /\ st.seen = held
        /\ st.flagged = runs[r].st.flagged \union (list \cap Flagged[runs[r].det])
    BY <1>0 DEF PlannedBaseline, States
  <2> HIDE DEF st
  <2>6. CoversTokens(st)
    BY <2>2, <2>5 DEF CoversTokens
  <2>7. PICK p : runs' = [runs EXCEPT ![r] = p] /\ CoversTokens(p.st)
    BY <2>1, <2>4, <2>6, ScanOverTokens DEF st
  <2> QED BY <1>1, <1>7, <2>7 DEF ReadHoldings, store
<1>8. CASE HoldingsUnavailable(r)
  <2>1. PICK p : runs' = [runs EXCEPT ![r] = p] /\ CoversTokens(p.st)
    BY <1>0, <1>8, ScanOverTokens DEF HoldingsUnavailable
  <2> QED BY <1>1, <1>8, <2>1 DEF HoldingsUnavailable, store
<1>9. CASE Attest(r) \/ OpenState(r)
  <2>1. PICK c \in PCs : runs' = [runs EXCEPT ![r] = [runs[r] EXCEPT !.pc = c]]
    BY <1>9 DEF Attest, OpenState, PCs
  <2>2. [runs[r] EXCEPT !.pc = c] \in Processes
    BY <1>0, PhaseTyped
  <2>3. [runs[r] EXCEPT !.pc = c].st = runs[r].st
    BY <1>0 DEF Processes
  <2> QED BY <1>2, <1>9, <2>1, <2>2, <2>3 DEF Attest, OpenState, store
<1>10. CASE WriteState(r)
  <2>1. /\ runs' = [runs EXCEPT ![r] = NoRun]
        /\ disk' = runs[r].st /\ copy' \in {copy, runs[r].st}
    BY <1>10 DEF WriteState
  <2> QED BY <1>0, <2>1, BlankCovers, TokensAfterStep
<1>11. CASE Stop(r)
  BY <1>1, <1>11, BlankCovers DEF Stop, store
<1> QED BY <1>3, <1>4, <1>5, <1>6, <1>7, <1>8, <1>9, <1>10, <1>11 DEF Step

LEMMA TokenInductive ==
    ASSUME IsFiniteSet(Tokens), Cardinality(Tokens) <= PageCap
    PROVE  Spec => []TokenInv
<1>1. Init => TokenInv
  <2> SUFFICES ASSUME Init PROVE TokenInv
    OBVIOUS
  <2>1. CoversTokens(disk) /\ copy = disk
    <3>1. PICK d \in {detector, Unversioned} :
             disk = [Blank EXCEPT !.flagged = held \cap Flagged[detector],
                                  !.seen = held, !.det = d]
      BY DEF Init
    <3>2. /\ disk.flagged = held \cap Flagged[detector]
          /\ disk.seen = held /\ disk.det = d
      BY <3>1 DEF Blank
    <3>3. copy = disk
      BY DEF Init
    <3> QED BY <3>2, <3>3 DEF CoversTokens
  <2> QED BY <2>1, BlankCovers, InitTyped DEF Init, TokenInv
<1>2. TokenInv /\ [Next]_vars => TokenInv'
  <2> SUFFICES ASSUME TokenInv, [Next]_vars PROVE TokenInv'
    OBVIOUS
  <2>1. CASE Environment
    <3>1. UNCHANGED runs /\ disk' \in {disk, copy} /\ copy' = copy
      BY <2>1 DEF Environment, EmptyBlock, Approve, GrantByPermit, Revoke, UseUp,
             Arrive, Leave, Deploy, Restore, store
    <3>2. TypeOK'
      BY <2>1, EnvironmentTyped DEF TokenInv
    <3> QED BY <3>1, <3>2 DEF TokenInv, CoversTokens
  <2>2. CASE UNCHANGED vars
    BY <2>2 DEF TokenInv, TypeOK, CoversTokens, vars, chain, store
  <2> QED BY <2>1, <2>2, TokenStep DEF Next
<1> QED BY <1>1, <1>2, PTL DEF Spec

\* The suspicious tokens a wallet held when its tokens were listed are in the
\* baseline, over changes of the detector, failed holdings scans, overlapping
\* runs and restored copies, as long as no list is cut off at the page cap
\* (sentinel-run.mjs:204-225).
THEOREM BaselineKept ==
    ASSUME IsFiniteSet(Tokens), Cardinality(Tokens) <= PageCap
    PROVE  Spec => []BaselineComplete
<1>1. TokenInv => BaselineComplete
  BY DEF TokenInv, BaselineComplete
<1> QED BY <1>1, TokenInductive, PTL

\* Only a holdings scan adds to what a run reports.
LEMMA ReportsFromHoldings ==
    ASSUME TypeOK, NEW r \in Runs, NEW q \in Runs, Step(q), ~ReadHoldings(q)
    PROVE  runs'[r].newTokens \subseteq runs[r].newTokens
<1>0. runs \in [Runs -> Processes]
  BY DEF TypeOK
<1>1. ASSUME NEW p, runs' = [runs EXCEPT ![q] = p], p.newTokens \subseteq runs[q].newTokens
      PROVE  runs'[r].newTokens \subseteq runs[r].newTokens
  BY <1>0, <1>1
<1>2. NoRun.newTokens = {}
  BY DEF NoRun
<1>3. ASSUME NEW dry \in BOOLEAN, Start(q, dry)
      PROVE  runs'[r].newTokens \subseteq runs[r].newTokens
  <2> DEFINE p == [NoRun EXCEPT !.pc = "load", !.dry = dry, !.det = detector,
                                !.latest = head]
  <2>1. runs' = [runs EXCEPT ![q] = p] /\ p.newTokens = {}
    BY <1>3 DEF Start, NoRun
  <2> HIDE DEF p
  <2> QED BY <1>1, <2>1
<1>4. CASE Load(q)
  <2> DEFINE next == IF disk.last + 1 <= runs[q].latest THEN "logs" ELSE "reads"
             p == [runs[q] EXCEPT !.st = disk, !.pc = next]
  <2>1. runs' = [runs EXCEPT ![q] = p] /\ p.newTokens = runs[q].newTokens
    BY <1>0, <1>4 DEF Load, Processes
  <2> HIDE DEF p
  <2> QED BY <1>1, <2>1
<1>5. CASE ReadLogs(q)
  <2> DEFINE p == [runs[q] EXCEPT !.pc = "reads", !.todo = Discovered(runs[q])]
  <2>1. runs' = [runs EXCEPT ![q] = p] /\ p.newTokens = runs[q].newTokens
    BY <1>0, <1>5 DEF ReadLogs, Processes
  <2> HIDE DEF p
  <2> QED BY <1>1, <2>1
<1>6. ASSUME NEW k \in Approvals, ReadAllowance(q, k)
      PROVE  runs'[r].newTokens \subseteq runs[r].newTokens
  <2> DEFINE live == {a \in {k} : Live(a)}
             p == [runs[q] EXCEPT !.todo = runs[q].todo \ {k},
                     !.newApprovals = runs[q].newApprovals \union (live \ runs[q].st.alerted),
                     !.st = [runs[q].st EXCEPT !.alerted = runs[q].st.alerted \union live]]
  <2>1. runs' = [runs EXCEPT ![q] = p]
    BY <1>6 DEF ReadAllowance
  <2>2. p.newTokens = runs[q].newTokens
    BY <1>0 DEF Processes
  <2> HIDE DEF p
  <2> QED BY <1>1, <2>1, <2>2
<1>7. CASE HoldingsUnavailable(q)
  <2> DEFINE p == [runs[q] EXCEPT !.pc = NextPhase(q, {}),
                                  !.st = [runs[q].st EXCEPT !.last = runs[q].latest],
                                  !.newTokens = {}]
  <2>1. runs' = [runs EXCEPT ![q] = IF runs[q].dry THEN NoRun ELSE p]
    BY <1>7 DEF HoldingsUnavailable, ScanOver, AfterScan
  <2>2. p.newTokens = {}
    BY <1>0 DEF Processes
  <2> HIDE DEF p
  <2> QED BY <1>1, <1>2, <2>1, <2>2
<1>8. CASE Attest(q) \/ OpenState(q)
  <2>1. PICK c : runs' = [runs EXCEPT ![q] = [runs[q] EXCEPT !.pc = c]]
    BY <1>8 DEF Attest, OpenState
  <2>2. [runs[q] EXCEPT !.pc = c].newTokens = runs[q].newTokens
    BY <1>0 DEF Processes
  <2> QED BY <1>1, <2>1, <2>2
<1>9. CASE WriteState(q) \/ Stop(q)
  BY <1>1, <1>2, <1>9 DEF WriteState, Stop
<1> QED BY <1>3, <1>4, <1>5, <1>6, <1>7, <1>8, <1>9 DEF Step

\* What a holdings scan reports was not in the wallet when the tokens it is
\* compared with were listed.
LEMMA HoldingsReportArrivals ==
    ASSUME TokenInv, NEW r \in Runs, NEW q \in Runs, ReadHoldings(q),
           \A d, e \in Detectors : Fingerprint[d] = Fingerprint[e] => Flagged[d] = Flagged[e],
           NEW t \in runs'[r].newTokens \ runs[r].newTokens
    PROVE  t \notin runs[r].st.seen
<1>0. /\ runs \in [Runs -> Processes] /\ runs[q] \in Processes
      /\ CoversTokens(runs[q].st)
  BY DEF TokenInv, TypeOK
<1>1. PICK list \in SUBSET held :
         ScanOver(q, PlannedBaseline(runs[q].st, runs[q].det, list \cap Flagged[runs[q].det]),
                     PlannedTokens(runs[q].st, runs[q].det, list \cap Flagged[runs[q].det]))
  BY DEF ReadHoldings
<1> DEFINE st == PlannedBaseline(runs[q].st, runs[q].det, list \cap Flagged[runs[q].det])
           tokens == PlannedTokens(runs[q].st, runs[q].det, list \cap Flagged[runs[q].det])
           p == [runs[q] EXCEPT !.pc = NextPhase(q, tokens),
                                !.st = [st EXCEPT !.last = runs[q].latest],
                                !.newTokens = tokens]
<1>2. runs' = [runs EXCEPT ![q] = IF runs[q].dry THEN NoRun ELSE p]
  BY <1>1 DEF ScanOver, AfterScan
<1>3. p.newTokens = tokens /\ NoRun.newTokens = {}
  BY <1>0 DEF Processes, NoRun
<1> HIDE DEF p, st
<1>4. q = r /\ t \in tokens
  BY <1>0, <1>2, <1>3
<1>5. /\ runs[q].st.det \in Detectors /\ runs[q].det \in Detectors
      /\ Fingerprint[runs[q].st.det] = Fingerprint[runs[q].det]
      /\ runs[q].st.det # Unversioned
      /\ t \in Flagged[runs[q].det] /\ t \notin runs[q].st.flagged
  BY <1>0, <1>4 DEF PlannedTokens, SameRuleset, Processes, States
<1> QED BY <1>0, <1>4, <1>5 DEF CoversTokens

\* An attestation never misdates old dust: over detector changes, failed
\* holdings scans, overlapping runs and restored copies, a token is reported
\* as new only if it was not there when the tokens it is compared with were
\* listed, as long as no list is cut off at the page cap and detectors with
\* one fingerprint judge alike (tokenFindings.mjs planTokenFindings).
THEOREM OnlyArrivalsReported ==
    ASSUME IsFiniteSet(Tokens), Cardinality(Tokens) <= PageCap,
           \A d, e \in Detectors : Fingerprint[d] = Fingerprint[e] => Flagged[d] = Flagged[e]
    PROVE  Spec => ReportsOnlyArrivals
<1> DEFINE Arrivals == \A r \in Runs : \A t \in runs'[r].newTokens \ runs[r].newTokens :
                          t \notin runs[r].st.seen
<1>1. TokenInv /\ [Next]_vars => [Arrivals]_vars
  <2> SUFFICES ASSUME TokenInv, Next PROVE Arrivals
    OBVIOUS
  <2>1. CASE Environment
    BY <2>1 DEF Environment, EmptyBlock, Approve, GrantByPermit, Revoke, UseUp,
           Arrive, Leave, Deploy, Restore
  <2>2. ASSUME NEW q \in Runs, Step(q) PROVE Arrivals
    <3> SUFFICES ASSUME NEW r \in Runs, NEW t \in runs'[r].newTokens \ runs[r].newTokens
                 PROVE  t \notin runs[r].st.seen
      OBVIOUS
    <3>1. CASE ReadHoldings(q)
      BY <3>1, HoldingsReportArrivals
    <3>2. CASE ~ReadHoldings(q)
      BY <2>2, <3>2, ReportsFromHoldings DEF TokenInv
    <3> QED BY <3>1, <3>2
  <2> QED BY <2>1, <2>2 DEF Next
<1> QED BY <1>1, TokenInductive, PTL DEF Spec, ReportsOnlyArrivals

-----------------------------------------------------------------------------
(***************************************************************************)
(* AttestsOnlyUnrecorded, for runs that do not overlap (those that do      *)
(* attest twice).  The invariant: from the load on, the state file stays   *)
(* as it was loaded, and nothing it records is among the findings.         *)
(***************************************************************************)

NewTo(run, known, content) ==
    /\ run.pc = "load" => run.newApprovals = {} /\ run.newTokens = {}
    /\ run.pc \in {"logs", "reads"} =>
          /\ content = "whole"
          /\ run.newApprovals \cap known.alerted = {} /\ run.newTokens = {}
          /\ known.alerted \subseteq run.st.alerted /\ known.flagged = run.st.flagged
    /\ run.pc = "attest" =>
          /\ content = "whole"
          /\ run.newApprovals \cap known.alerted = {}
          /\ run.newTokens \cap known.flagged = {}

SoloInv == TypeOK /\ \A r \in Runs : NewTo(runs[r], disk, file)

LEMMA SoloAfterStep ==
    ASSUME \A q, r \in Runs : q = r, SoloInv, TypeOK', NEW r \in Runs, NEW p,
           runs' = [runs EXCEPT ![r] = p], NewTo(p, disk', file')
    PROVE  SoloInv'
<1>1. \A q \in Runs : runs'[q] = p
  BY DEF SoloInv, TypeOK
<1> QED BY <1>1 DEF SoloInv, NewTo

LEMMA ScanOverSolo ==
    ASSUME SoloInv, NEW r \in Runs, runs[r].pc = "reads", NEW st \in States,
           NEW tokens \in SUBSET Tokens, tokens \cap disk.flagged = {},
           ScanOver(r, st, tokens), UNCHANGED store
    PROVE  \E p : runs' = [runs EXCEPT ![r] = p] /\ NewTo(p, disk', file')
<1> DEFINE p == [runs[r] EXCEPT !.pc = NextPhase(r, tokens),
                                !.st = [st EXCEPT !.last = runs[r].latest],
                                !.newTokens = tokens]
<1>1. runs[r] \in Processes
  BY DEF SoloInv, TypeOK
<1>2. runs' = [runs EXCEPT ![r] = IF runs[r].dry THEN NoRun ELSE p]
  BY DEF ScanOver, AfterScan
<1>3. /\ p.pc \in {"write", "attest"} /\ p.newTokens = tokens
      /\ p.newApprovals = runs[r].newApprovals
  BY <1>1 DEF Processes, NextPhase
<1> HIDE DEF p
<1>4. NewTo(p, disk', file')
  BY <1>3 DEF SoloInv, NewTo, store
<1>5. NewTo(NoRun, disk', file')
  BY DEF NewTo, NoRun
<1> QED BY <1>2, <1>4, <1>5

LEMMA SoloStep ==
    ASSUME \A q, r \in Runs : q = r, SoloInv, NEW r \in Runs, Step(r)
    PROVE  SoloInv'
<1>0. /\ TypeOK /\ TypeOK' /\ runs[r] \in Processes /\ runs[r].st \in States
      /\ NewTo(runs[r], disk, file)
  BY StepTyped DEF SoloInv, TypeOK, Processes
<1>1. ASSUME NEW p, runs' = [runs EXCEPT ![r] = p], NewTo(p, disk', file')
      PROVE  SoloInv'
  BY <1>0, <1>1, SoloAfterStep
<1>2. NewTo(NoRun, disk', file')
  BY DEF NewTo, NoRun
<1>3. ASSUME NEW dry \in BOOLEAN, Start(r, dry) PROVE SoloInv'
  <2> DEFINE p == [NoRun EXCEPT !.pc = "load", !.dry = dry, !.det = detector,
                                !.latest = head]
  <2>1. /\ runs' = [runs EXCEPT ![r] = p]
        /\ p.pc = "load" /\ p.newApprovals = {} /\ p.newTokens = {}
    BY <1>3 DEF Start, NoRun
  <2> HIDE DEF p
  <2>2. NewTo(p, disk', file')
    BY <2>1 DEF NewTo
  <2> QED BY <1>1, <2>1, <2>2
<1>4. CASE Load(r)
  <2> DEFINE next == IF disk.last + 1 <= runs[r].latest THEN "logs" ELSE "reads"
             p == [runs[r] EXCEPT !.st = disk, !.pc = next]
  <2>1. /\ runs' = [runs EXCEPT ![r] = p] /\ runs[r].pc = "load"
        /\ file = "whole" /\ file' = file /\ disk' = disk
    BY <1>4 DEF Load, Loadable, store
  <2>2. /\ p.pc \in {"logs", "reads"} /\ p.st = disk
        /\ p.newApprovals = runs[r].newApprovals /\ p.newTokens = runs[r].newTokens
    BY <1>0 DEF Processes
  <2> HIDE DEF p
  <2>3. NewTo(p, disk', file')
    BY <1>0, <2>1, <2>2 DEF NewTo
  <2> QED BY <1>1, <2>1, <2>3
<1>5. CASE ReadLogs(r)
  <2> DEFINE p == [runs[r] EXCEPT !.pc = "reads", !.todo = Discovered(runs[r])]
  <2>1. /\ runs' = [runs EXCEPT ![r] = p] /\ runs[r].pc = "logs"
        /\ file' = file /\ disk' = disk
    BY <1>5 DEF ReadLogs, store
  <2>2. /\ p.pc = "reads" /\ p.st = runs[r].st
        /\ p.newApprovals = runs[r].newApprovals /\ p.newTokens = runs[r].newTokens
    BY <1>0 DEF Processes
  <2> HIDE DEF p
  <2>3. NewTo(p, disk', file')
    BY <1>0, <2>1, <2>2 DEF NewTo
  <2> QED BY <1>1, <2>1, <2>3
<1>6. ASSUME NEW k \in Approvals, ReadAllowance(r, k) PROVE SoloInv'
  <2> DEFINE live == {a \in {k} : Live(a)}
             state == [runs[r].st EXCEPT !.alerted = runs[r].st.alerted \union live]
             p == [runs[r] EXCEPT !.todo = runs[r].todo \ {k},
                     !.newApprovals = runs[r].newApprovals \union (live \ runs[r].st.alerted),
                     !.st = state]
  <2>1. /\ runs' = [runs EXCEPT ![r] = p] /\ runs[r].pc = "reads"
        /\ file' = file /\ disk' = disk
    BY <1>6 DEF ReadAllowance, store
  <2>2. /\ state.alerted = runs[r].st.alerted \union live
        /\ state.flagged = runs[r].st.flagged
    BY <1>0 DEF States
  <2> HIDE DEF state
  <2>3. /\ p.pc = "reads" /\ p.st = state /\ p.newTokens = runs[r].newTokens
        /\ p.newApprovals = runs[r].newApprovals \union (live \ runs[r].st.alerted)
    BY <1>0, <2>1 DEF Processes
  <2> HIDE DEF p, live
  <2>4. NewTo(p, disk', file')
    BY <1>0, <2>1, <2>2, <2>3 DEF NewTo
  <2> QED BY <1>1, <2>1, <2>4
<1>7. CASE ReadHoldings(r)
  <2>1. PICK list \in SUBSET held :
           ScanOver(r, PlannedBaseline(runs[r].st, runs[r].det, list \cap Flagged[runs[r].det]),
                       PlannedTokens(runs[r].st, runs[r].det, list \cap Flagged[runs[r].det]))
    BY <1>7 DEF ReadHoldings
  <2> DEFINE st == PlannedBaseline(runs[r].st, runs[r].det, list \cap Flagged[runs[r].det])
             tokens == PlannedTokens(runs[r].st, runs[r].det, list \cap Flagged[runs[r].det])
  <2>2. runs[r].det \in Detectors /\ list \cap Flagged[runs[r].det] \in SUBSET Tokens
    BY <1>0 DEF Processes, TypeOK
  <2>3. st \in States
    BY <1>0, <2>2, BaselineTyped
  <2>4. runs[r].pc = "reads" /\ UNCHANGED store
    BY <1>7 DEF ReadHoldings, ApprovalsScanned
  <2>5. tokens \in SUBSET Tokens /\ tokens \cap disk.flagged = {}
    BY <1>0, <2>2, <2>4 DEF PlannedTokens, NewTo
  <2> HIDE DEF st, tokens
  <2>6. PICK p : runs' = [runs EXCEPT ![r] = p] /\ NewTo(p, disk', file')
    BY <2>1, <2>3, <2>4, <2>5, ScanOverSolo DEF st, tokens
  <2> QED BY <1>1, <2>6
<1>8. CASE HoldingsUnavailable(r)
  <2>1. PICK p : runs' = [runs EXCEPT ![r] = p] /\ NewTo(p, disk', file')
    BY <1>0, <1>8, ScanOverSolo DEF HoldingsUnavailable, ApprovalsScanned
  <2> QED BY <1>1, <2>1
<1>9. CASE Attest(r) \/ OpenState(r)
  <2>1. PICK c \in {"write", "writing"} : runs' = [runs EXCEPT ![r] = [runs[r] EXCEPT !.pc = c]]
    BY <1>9 DEF Attest, OpenState
  <2>2. [runs[r] EXCEPT !.pc = c].pc = c
    BY <1>0 DEF Processes
  <2>3. NewTo([runs[r] EXCEPT !.pc = c], disk', file')
    BY <2>2 DEF NewTo
  <2> QED BY <1>1, <2>1, <2>3
<1>10. CASE WriteState(r) \/ Stop(r)
  BY <1>1, <1>2, <1>10 DEF WriteState, Stop
<1> QED BY <1>3, <1>4, <1>5, <1>6, <1>7, <1>8, <1>9, <1>10 DEF Step

LEMMA SoloInductive ==
    ASSUME \A q, r \in Runs : q = r
    PROVE  Spec => []SoloInv
<1>1. Init => SoloInv
  BY InitTyped DEF Init, SoloInv, NewTo, NoRun
<1>2. SoloInv /\ [Next]_vars => SoloInv'
  <2> SUFFICES ASSUME SoloInv, [Next]_vars PROVE SoloInv'
    OBVIOUS
  <2>1. CASE Environment
    <3>1. UNCHANGED runs /\ (file = "whole" => file' = file /\ disk' = disk)
      BY <2>1 DEF Environment, EmptyBlock, Approve, GrantByPermit, Revoke, UseUp,
             Arrive, Leave, Deploy, Restore, store
    <3>2. TypeOK'
      BY <2>1, EnvironmentTyped DEF SoloInv
    <3> QED BY <3>1, <3>2 DEF SoloInv, NewTo
  <2>2. CASE UNCHANGED vars
    BY <2>2 DEF SoloInv, TypeOK, NewTo, vars, chain, store
  <2> QED BY <2>1, <2>2, SoloStep DEF Next
<1> QED BY <1>1, <1>2, PTL DEF Spec

\* Runs that do not overlap attest nothing twice: whatever is attested is not
\* in the state file, however runs were cut short, copies restored and tokens
\* or allowances moved before (sentinel-run.mjs:174, :240).
THEOREM AttestedOnce ==
    ASSUME \A q, r \in Runs : q = r
    PROVE  Spec => AttestsOnlyUnrecorded
<1> DEFINE Unrecorded == \A x \in Exposures :
              attestedAt'[x] # attestedAt[x] => x \notin disk.alerted \union disk.flagged
<1>1. SoloInv /\ [Next]_vars => [Unrecorded]_vars
  <2> SUFFICES ASSUME SoloInv, Next PROVE Unrecorded
    OBVIOUS
  <2>1. ASSUME NEW r \in Runs, Attest(r) PROVE Unrecorded
    <3> SUFFICES ASSUME NEW x \in Exposures, attestedAt'[x] # attestedAt[x]
                 PROVE  x \notin disk.alerted \union disk.flagged
      OBVIOUS
    <3>1. x \in runs[r].newApprovals \union runs[r].newTokens
      BY <2>1 DEF Attest, SoloInv, TypeOK
    <3>2. /\ runs[r].newApprovals \cap disk.alerted = {}
          /\ runs[r].newTokens \cap disk.flagged = {}
      BY <2>1 DEF Attest, SoloInv, NewTo
    <3>3. /\ disk.alerted \subseteq Approvals /\ disk.flagged \subseteq Tokens
          /\ runs[r].newApprovals \subseteq Approvals /\ runs[r].newTokens \subseteq Tokens
      BY DEF SoloInv, TypeOK, States, Processes
    <3> QED BY <3>1, <3>2, <3>3
  <2>2. CASE Environment
    BY <2>2 DEF Environment, EmptyBlock, Approve, GrantByPermit, Revoke, UseUp,
           Arrive, Leave, Deploy, Restore
  <2>3. ASSUME NEW r \in Runs, Step(r), ~Attest(r) PROVE Unrecorded
    BY <2>3 DEF Step, Start, Load, ReadLogs, ReadAllowance, ReadHoldings,
           HoldingsUnavailable, OpenState, WriteState, Stop
  <2> QED BY <2>1, <2>2, <2>3 DEF Next
<1> QED BY <1>1, SoloInductive, PTL DEF Spec, AttestsOnlyUnrecorded
=============================================================================
