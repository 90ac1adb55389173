---------------------------- MODULE ApprovalScan ----------------------------
(***************************************************************************)
(* scripts/scan-approvals.mjs with agent/lib/approvalScan.mjs: a scan      *)
(* reads the previous report, takes the tip, collects the pairs with an    *)
(* allowance event since the report's anchor (or since block 0), reads     *)
(* back the allowance of those pairs and of the ones reported before, and  *)
(* writes the pairs that are live as the next report.                      *)
(*                                                                         *)
(* Every call goes to one of several public nodes.  A node may be behind   *)
(* the tip, and the last blocks may be reorganised.  The pool of workers   *)
(* is WorkerPool's: here a window, or an allowance, is answered in any     *)
(* order or the scan fails.  Time is measured in blocks.                   *)
(***************************************************************************)
EXTENDS Integers, FiniteSets

CONSTANTS
    Pairs,           \* <<token, spender>> pairs of the one wallet
    Permit2Pairs,    \* those granted through Permit2; the others are ERC-20
    Runs,            \* scan processes that may overlap
    Chunk,           \* CHUNK: blocks per eth_getLogs window
    Overlap,         \* DEFAULT_OVERLAP_BLOCKS
    Lag,             \* blocks a node may be behind the tip
    Depth,           \* blocks a reorganisation may replace
    Lifetimes,       \* blocks a Permit2 grant may be given for
    LoweringsOrphaned, \* may a reorganisation undo a revocation or a spending?
    MaxBlock,        \* highest block (bound of the model)
    MaxChanges       \* transactions that touch an allowance (bound of the model)

ASSUME ScanAssumption ==
    /\ Permit2Pairs \subseteq Pairs
    /\ Chunk \in Nat \ {0}
    /\ Overlap \in Nat /\ Lag \in Nat /\ Depth \in Nat
    /\ Lifetimes \subseteq Nat
    /\ LoweringsOrphaned \in BOOLEAN
    /\ MaxBlock \in Nat /\ MaxChanges \in Nat

\* The overlap is chosen to exceed what the chain and the nodes do.
ASSUME OverlapAssumption == Overlap >= Lag + Depth

VARIABLES
    tip,             \* highest block of the chain
    clock,           \* the highest block there has been: the time
    allow,           \* allow[b][p]: when the grant after block b expires, 0 for none
    events,          \* <<p, kind, b>>: an event of that kind for p in block b
    changes,         \* transactions so far
    lastLive,        \* the last time p was live (read by properties only)
    file,            \* agent/data/approvals-report.json
    run              \* the scans

chainVars == <<tip, clock, allow, events, changes, lastLive>>
vars == <<tip, clock, allow, events, changes, lastLive, file, run>>

\* The event filters, in the order discoverPairs queries them.
Passes == <<"Approval", "Permit2Approval", "Permit2Permit">>
KindsOf(p) == IF p \in Permit2Pairs THEN {"Permit2Approval", "Permit2Permit"}
                                    ELSE {"Approval"}
Forever == MaxBlock + 1
Larger(a, b) == IF a > b THEN a ELSE b

NoAnchor == -1       \* scannedToBlock absent, negative or not a number

\* What a report says; `at' is scannedAt.
Report == [to : Nat \cup {NoAnchor}, at : Nat, live : SUBSET Pairs]
Legacy == [to |-> NoAnchor, at |-> 0, live |-> {}]

\* A file that is missing, or cut off in the middle of a write.
Missing == [whole |-> TRUE, report |-> Legacy]
Torn    == [whole |-> FALSE, report |-> Legacy]
Whole(r) == [whole |-> TRUE, report |-> r]

Idle == [phase |-> "idle", full |-> FALSE, from |-> 0, report |-> Legacy,
         pass |-> 1, todo |-> {}, pairs |-> {}, entry |-> [p \in Pairs |-> 0]]

Init ==
    /\ tip = 0 /\ clock = 0
    /\ allow = [b \in 0..MaxBlock |-> [p \in Pairs |-> 0]]
    /\ events = {} /\ changes = 0
    /\ lastLive = [p \in Pairs |-> 0]
    /\ file = Missing
    /\ run = [r \in Runs |-> Idle]

-----------------------------------------------------------------------------
(* The chain *)

\* A block after which the allowances are a, noted by the events evs.
NewBlock(a, evs) ==
    /\ tip < MaxBlock
    /\ tip' = tip + 1
    /\ clock' = Larger(clock, tip + 1)
    /\ allow' = [b \in 0..MaxBlock |-> IF b <= tip THEN allow[b] ELSE a]
    /\ events' = events \cup evs
    /\ lastLive' = [p \in Pairs |-> IF a[p] > clock' THEN clock' ELSE lastLive[p]]
    /\ UNCHANGED <<file, run>>

Mine == NewBlock(allow[tip], {}) /\ UNCHANGED changes

Change(p, e, evs) ==
    /\ changes < MaxChanges
    /\ changes' = changes + 1
    /\ NewBlock([allow[tip] EXCEPT ![p] = e], evs)

\* approve() or, for Permit2, a signed permit.
Grant(p, k) ==
    /\ k \in KindsOf(p)
    /\ \E n \in Lifetimes \cup {Forever} :
          /\ n # Forever => p \in Permit2Pairs
          /\ Change(p, IF n = Forever THEN Forever ELSE tip + 1 + n,
                    {<<p, k, tip + 1>>})

Revoke(p, k) ==
    /\ k \in KindsOf(p) \ {"Permit2Permit"}
    /\ Change(p, 0, {<<p, k, tip + 1>>})

\* transferFrom spends the rest, or Permit2 is locked down: no event.
UseUp(p) == allow[tip][p] > 0 /\ Change(p, 0, {})

\* No block after f lowered p's allowance from what it was at f.
Kept(f, p) == \A b \in f..tip : allow[b][p] >= allow[f][p]

\* The chain beyond f is dropped; other blocks follow.
Reorganise(f) ==
    /\ f < tip /\ f + Depth >= clock
    /\ LoweringsOrphaned \/ \A p \in Pairs : Kept(f, p)
    /\ tip' = f
    /\ events' = {x \in events : x[3] <= f}
    /\ allow' = [b \in 0..MaxBlock |-> IF b <= f THEN allow[b] ELSE allow[f]]
    /\ lastLive' = [q \in Pairs |-> IF allow[f][q] > clock THEN clock
                                                        ELSE lastLive[q]]
    /\ UNCHANGED <<clock, changes, file, run>>

\* Blocks up to which the node that answers a call may know the chain.
Heads == {h \in 0..tip : h + Lag >= tip}

-----------------------------------------------------------------------------
(* The scan *)

\* readPreviousReport: a file that does not parse ends the scan, a missing
\* one is no report.
Launch(r, full) ==
    /\ run[r].phase = "idle"
    /\ file.whole
    /\ run' = [run EXCEPT ![r] = [Idle EXCEPT !.phase = "planning", !.full = full,
                                              !.report = file.report]]
    /\ UNCHANGED <<chainVars, file>>

\* Mutant: the walk resumes right after the anchor.
FromBlockAfter(anchor) == anchor + 1

\* planIncrementalScan: where the walk resumes, for a usable anchor.
FromBlock(anchor) == IF anchor > Overlap THEN anchor - Overlap + 1 ELSE 0

\* MissingScanAnchor: no anchor, or one ahead of the tip.
Incremental(full, anchor, latest) == ~full /\ anchor \in 0..latest

\* getBlockNumber answers h; scannedAt is the time of that answer.
Plan(r, h) ==
    /\ run[r].phase = "planning"
    /\ LET prev == run[r].report
           incremental == Incremental(run[r].full, prev.to, h)
           from == IF incremental THEN FromBlock(prev.to) ELSE 0
       IN  run' = [run EXCEPT ![r].phase = "scanning", ![r].full = FALSE,
                     ![r].from = from,
                     ![r].todo = from..h,
                     ![r].pairs = IF incremental THEN prev.live ELSE {},
                     ![r].report = [to |-> h, at |-> clock, live |-> {}]]
    /\ UNCHANGED <<chainVars, file>>

\* The blocks of the window that b lies in.
Window(r, b) == {c \in run[r].from..run[r].report.to :
                    (c - run[r].from) \div Chunk = (b - run[r].from) \div Chunk}

\* The pairs with an event of kind k in the blocks w, as a node at h has them.
Logged(k, w, h) == {p \in Pairs : \E c \in w : c <= h /\ <<p, k, c>> \in events}

\* pairsToRecheck: the pairs carried in and those discovered, each once.
PairsToRecheck(previousLive, discovered) == previousLive \cup discovered

\* One window of the current pass is answered by a node at h.
ReadWindow(r, b, h) ==
    /\ run[r].phase = "scanning"
    /\ b \in run[r].todo
    /\ run' = [run EXCEPT ![r].todo = @ \ Window(r, b),
                          ![r].pairs = PairsToRecheck(@,
                              Logged(Passes[run[r].pass], Window(r, b), h))]
    /\ UNCHANGED <<chainVars, file>>

LastPass(n) == n = 3

\* A pass has all its windows: the next one, or the re-read of the pairs.
PassOver(r) ==
    /\ run[r].phase = "scanning" /\ run[r].todo = {}
    /\ run' = IF LastPass(run[r].pass)
              THEN [run EXCEPT ![r].phase = "rereading"]
              ELSE [run EXCEPT ![r].pass = @ + 1,
                               ![r].todo = run[r].from..run[r].report.to]
    /\ UNCHANGED <<chainVars, file>>

\* Mutant: a pair the previous report lists is taken over unread.
ReReadNewOnly(r, p, h) ==
    /\ run[r].phase = "rereading"
    /\ p \in run[r].pairs
    /\ run' = [run EXCEPT ![r].entry[p] = IF file.whole /\ p \in file.report.live
                                         THEN Forever ELSE allow[h][p],
                          ![r].pairs = @ \ {p}]
    /\ UNCHANGED <<chainVars, file>>

\* readCurrentAllowances: the allowance of one pair, from a node at h.
ReRead(r, p, h) ==
    /\ run[r].phase = "rereading"
    /\ p \in run[r].pairs
    /\ run' = [run EXCEPT ![r].entry[p] = allow[h][p],
                          ![r].pairs = @ \ {p}]
    /\ UNCHANGED <<chainVars, file>>

\* partitionLive, and the opening half of writeFileSync: the file is emptied.
OpenReport(r) ==
    /\ run[r].phase = "rereading" /\ run[r].pairs = {}
    /\ run' = [run EXCEPT ![r].phase = "writing",
                          ![r].report.live = {p \in Pairs : run[r].entry[p] > clock}]
    /\ file' = Torn
    /\ UNCHANGED chainVars

\* Mutant: scannedAt is the time the scan ends.
WriteReportStamped(r) ==
    /\ run[r].phase = "writing"
    /\ file' = Whole([run[r].report EXCEPT !.at = clock])
    /\ run' = [run EXCEPT ![r] = Idle]
    /\ UNCHANGED chainVars

WriteReport(r) ==
    /\ run[r].phase = "writing"
    /\ file' = Whole(run[r].report)
    /\ run' = [run EXCEPT ![r] = Idle]
    /\ UNCHANGED chainVars

\* A call that no node would answer, a kill, a crash.
Fail(r) ==
    /\ run[r].phase # "idle"
    /\ run' = [run EXCEPT ![r] = Idle]
    /\ UNCHANGED <<chainVars, file>>

\* A person removes a report that does not parse.
Discard ==
    /\ ~file.whole
    /\ file' = Missing
    /\ UNCHANGED <<chainVars, run>>

Scan(r) ==
    \/ \E full \in BOOLEAN : Launch(r, full)
    \/ \E h \in Heads : Plan(r, h)
    \/ \E b \in run[r].todo, h \in Heads : ReadWindow(r, b, h)
    \/ PassOver(r)
    \/ \E p \in Pairs, h \in Heads : ReRead(r, p, h)
    \/ OpenReport(r)
    \/ WriteReport(r)

Chain ==
    \/ Mine
    \/ \E p \in Pairs, k \in {Passes[i] : i \in 1..3} : Grant(p, k) \/ Revoke(p, k)
    \/ \E p \in Pairs : UseUp(p)
    \/ \E f \in 0..MaxBlock : Reorganise(f)

Next ==
    \/ Chain
    \/ Discard
    \/ \E r \in Runs : Scan(r) \/ Fail(r)

Spec == Init /\ [][Next]_vars

-----------------------------------------------------------------------------

TypeOK ==
    /\ tip \in 0..MaxBlock /\ clock \in tip..MaxBlock
    /\ allow \in [0..MaxBlock -> [Pairs -> Nat]]
    /\ events \subseteq Pairs \X {Passes[i] : i \in 1..3} \X (1..tip)
    /\ changes \in 0..MaxChanges
    /\ lastLive \in [Pairs -> 0..clock]
    /\ file \in [whole : BOOLEAN, report : Report]
    /\ run \in [Runs -> [phase : {"idle", "planning", "scanning", "rereading", "writing"},
                         full : BOOLEAN, from : Nat, report : Report, pass : 1..3,
                         todo : SUBSET (0..MaxBlock), pairs : SUBSET Pairs,
                         entry : [Pairs -> Nat]]]

Live(p) == allow[tip][p] > clock

\* Something the next incremental scan from this report will come upon.
Ahead(report, p) == \E x \in events : x[1] = p /\ x[3] >= FromBlock(report.to)

Anchored(f) == f.whole /\ f.report.to # NoAnchor

\* A live grant the report does not list has an event in the blocks the next
\* incremental scan walks: no grant, approved or signed, is lost for good
\* behind the anchor, whatever order windows and allowances were answered in,
\* and by however stale a node (approvalScan.mjs:24-27, :69).
MissesOnlyRecent ==
    Anchored(file) =>
        \A p \in Pairs : Live(p) => p \in file.report.live \/ Ahead(file.report, p)

\* A listed grant was live at the anchor or later, as far back as a node may
\* be behind: one that was spent without an event is dropped by the next
\* scan (approvalScan.mjs:14-18).
ReportedWasLive ==
    Anchored(file) =>
        \A p \in file.report.live : lastLive[p] + Lag + Depth >= file.report.to

\* scannedAt does not make a report look younger than what it covers: a live
\* grant it does not list was made, or made again, not long before scannedAt
\* or after it, however long the scan took (scan-approvals.mjs:195-201).
AgeNotUnderstated ==
    Anchored(file) =>
        \A p \in Pairs : Live(p) /\ p \notin file.report.live =>
            \E x \in events : x[1] = p /\ x[3] + Lag + Depth > file.report.at
=============================================================================
