------------------------------ MODULE Sentinel ------------------------------
(***************************************************************************)
(* The sentinel: agent/scripts/sentinel-run.mjs with parseSentinelState    *)
(* and planTokenFindings, run by cron or by hand against a wallet that     *)
(* keeps changing.  A run reads the tip, loads the state file, reads the   *)
(* approval events since the last run, re-reads the allowance of each pair *)
(* it saw, reads the holdings, attests what is new and writes the state    *)
(* file.  Runs may overlap (nothing locks the state file), and each may    *)
(* throw or be killed at any point.                                        *)
(*                                                                         *)
(* One log walk is one step: RangeScan shows that it is all or nothing,    *)
(* and the logs of past blocks do not change (no reorg is modelled).       *)
(* Blocks are numbered from the seeded baseline, which is block 0.         *)
(***************************************************************************)
EXTENDS Naturals, FiniteSets

CONSTANTS
    Approvals,      \* allowances, each one key kind:token:spender
    Permit2Keys,    \* those of kind permit2, which a signed Permit can grant
    Tokens,         \* token contracts (NFT collections included)
    Detectors,      \* versions of the scam classifier
    Flagged,        \* [Detectors -> tokens it finds suspicious]
    Fingerprint,    \* [Detectors -> detectorFingerprint()]
    Unversioned,    \* the detector of a state file without a fingerprint
    PageCap,        \* holdings MAX_PAGES pages can list
    Runs,           \* sentinel processes that may exist at a time
    MaxBlock        \* blocks mined after the baseline (bound of the model)

ASSUME SentinelAssumption ==
    /\ Permit2Keys \subseteq Approvals
    /\ Approvals \cap Tokens = {}
    /\ Flagged \in [Detectors -> SUBSET Tokens]
    /\ DOMAIN Fingerprint = Detectors
    /\ Detectors # {}
    /\ Unversioned \notin Detectors
    /\ PageCap \in Nat
    /\ MaxBlock \in Nat

VARIABLES
    head,           \* the chain's tip
    grant,          \* [Approvals -> how and when its live allowance was set]
    events,         \* [Approvals -> blocks with an Approval event of it]
    held,           \* tokens in the wallet
    detector,       \* the deployed classifier
    disk,           \* content of sentinel-state.json when it is whole
    file,           \* "whole", or "empty" or "mixed" after a broken write
    copy,           \* the state file's latest copy in git
    runs,           \* [Runs -> the process and its locals]
    attestedAt      \* [exposure -> block of its latest attestation, 0 if none]

chain == <<head, grant, events, held>>
store == <<disk, file, copy>>
vars  == <<chain, detector, store, runs, attestedAt>>

Exposures == Approvals \union Tokens
Blocks == 0..MaxBlock

\* The state file.  `det' is the detector whose fingerprint it carries, and
\* `seen' is kept for the properties: the wallet when its tokens were listed.
States == [last : Blocks, alerted : SUBSET Approvals, flagged : SUBSET Tokens,
           det : Detectors \union {Unversioned}, seen : SUBSET Tokens]

PCs == {"idle", "load", "logs", "reads", "attest", "write", "writing"}

Processes == [pc : PCs, dry : BOOLEAN, det : Detectors, latest : Blocks,
              st : States, todo : SUBSET Approvals,
              newApprovals : SUBSET Approvals, newTokens : SUBSET Tokens]

NoGrant == [block |-> 0, via |-> "none"]
Live(k) == grant[k].via # "none"

-----------------------------------------------------------------------------
(* The wallet's owner, its counterparties and the detector's maintainers.   *)

Mine == head < MaxBlock /\ head' = head + 1

EmptyBlock ==
    /\ Mine
    /\ UNCHANGED <<grant, events, held, detector, store, runs, attestedAt>>

\* approve() with an amount: the Approval event both walks look for.
Approve(k) ==
    /\ Mine
    /\ grant' = [grant EXCEPT ![k] = [block |-> head', via |-> "approval"]]
    /\ events' = [events EXCEPT ![k] = @ \union {head'}]
    /\ UNCHANGED <<held, detector, store, runs, attestedAt>>

\* Permit2 permit(): emits Permit, which the sentinel does not query.
GrantByPermit(k) ==
    /\ k \in Permit2Keys
    /\ Mine
    /\ grant' = [grant EXCEPT ![k] = [block |-> head', via |-> "permit"]]
    /\ UNCHANGED <<events, held, detector, store, runs, attestedAt>>

\* approve(spender, 0).
Revoke(k) ==
    /\ Live(k)
    /\ Mine
    /\ grant' = [grant EXCEPT ![k] = NoGrant]
    /\ events' = [events EXCEPT ![k] = @ \union {head'}]
    /\ UNCHANGED <<held, detector, store, runs, attestedAt>>

\* transferFrom uses the allowance up, or a Permit2 expiration passes: no event.
UseUp(k) ==
    /\ Live(k)
    /\ grant' = [grant EXCEPT ![k] = NoGrant]
    /\ UNCHANGED <<head, events, held, detector, store, runs, attestedAt>>

Arrive(t) ==
    /\ t \notin held
    /\ Mine
    /\ held' = held \union {t}
    /\ UNCHANGED <<grant, events, detector, store, runs, attestedAt>>

Leave(t) ==
    /\ t \in held
    /\ Mine
    /\ held' = held \ {t}
    /\ UNCHANGED <<grant, events, detector, store, runs, attestedAt>>

Deploy(d) ==
    /\ d # detector
    /\ detector' = d
    /\ UNCHANGED <<chain, store, runs, attestedAt>>

\* A human checks out the published copy over a state file that no longer
\* parses (every run refuses it until then).
Restore ==
    /\ file # "whole"
    /\ disk' = copy /\ file' = "whole"
    /\ UNCHANGED <<chain, detector, copy, runs, attestedAt>>

Environment ==
    \/ EmptyBlock
    \/ \E k \in Approvals : Approve(k) \/ GrantByPermit(k) \/ Revoke(k) \/ UseUp(k)
    \/ \E t \in Tokens : Arrive(t) \/ Leave(t)
    \/ \E d \in Detectors : Deploy(d)
    \/ Restore

-----------------------------------------------------------------------------
(* A run of sentinel-run.mjs.                                               *)

\* A state file that records nothing and carries no fingerprint.
Blank == [last |-> 0, alerted |-> {}, flagged |-> {}, det |-> Unversioned, seen |-> {}]

\* A process that does not exist: its locals are the canonical ones.
NoRun == [pc |-> "idle", dry |-> FALSE, det |-> CHOOSE d \in Detectors : TRUE,
          latest |-> 0, st |-> Blank, todo |-> {},
          newApprovals |-> {}, newTokens |-> {}]

\* getBlockNumber answers.
Start(r, dry) ==
    /\ runs[r].pc = "idle"
    /\ runs' = [runs EXCEPT ![r] = [NoRun EXCEPT !.pc = "load", !.dry = dry,
                                    !.det = detector, !.latest = head]]
    /\ UNCHANGED <<chain, detector, store, attestedAt>>

\* parseSentinelState: a broken file or an anchor ahead of the tip is refused.
Loadable(latest) == file = "whole" /\ disk.last <= latest

\* loadState, after the tip was read: another run may have written between.
\* Without new blocks the approval half is skipped.
Load(r) ==
    /\ runs[r].pc = "load"
    /\ Loadable(runs[r].latest)
    /\ runs' = [runs EXCEPT ![r] =
         [runs[r] EXCEPT !.st = disk,
                         !.pc = IF disk.last + 1 <= runs[r].latest
                                THEN "logs" ELSE "reads"]]
    /\ UNCHANGED <<chain, detector, store, attestedAt>>

\* Mutant: the walk starts a block late.
DiscoveredLate(run) ==
    {k \in Approvals : \E b \in events[k] : run.st.last + 2 <= b /\ b <= run.latest}

\* The pairs with an event in lastScannedBlock + 1 .. latest.
Discovered(run) ==
    {k \in Approvals : \E b \in events[k] : run.st.last + 1 <= b /\ b <= run.latest}

ReadLogs(r) ==
    /\ runs[r].pc = "logs"
    /\ runs' = [runs EXCEPT ![r].pc = "reads", ![r].todo = Discovered(runs[r])]
    /\ UNCHANGED <<chain, detector, store, attestedAt>>

\* Mutant: every live allowance is a finding, known or not.
ReadAllowanceForgetful(r, k) ==
    LET run == runs[r]
        live == {a \in {k} : Live(a)}
    IN  /\ run.pc = "reads"
        /\ k \in run.todo
        /\ runs' = [runs EXCEPT ![r] =
             [run EXCEPT !.todo = run.todo \ {k},
                         !.newApprovals = run.newApprovals \union live,
                         !.st = [run.st EXCEPT !.alerted = run.st.alerted \union live]]]
        /\ UNCHANGED <<chain, detector, store, attestedAt>>

\* One allowance read, at the tip of that moment: live and not known is a
\* finding, and becomes known.
ReadAllowance(r, k) ==
    LET run == runs[r]
        live == {a \in {k} : Live(a)}
    IN  /\ run.pc = "reads"
        /\ k \in run.todo
        /\ runs' = [runs EXCEPT ![r] =
             [run EXCEPT !.todo = run.todo \ {k},
                         !.newApprovals = run.newApprovals \union (live \ run.st.alerted),
                         !.st = [run.st EXCEPT !.alerted = run.st.alerted \union live]]]
        /\ UNCHANGED <<chain, detector, store, attestedAt>>

\* Mutant: the fingerprints are not compared.
SameRulesetAssumed(st, d) == st.det # Unversioned

\* planTokenFindings: nothing is reported against another detector's baseline.
SameRuleset(st, d) == st.det # Unversioned /\ Fingerprint[st.det] = Fingerprint[d]

\* Mutant: what was found is recorded as known before it is compared.
PlannedTokensRecordedFirst(st, d, flaggedNow) ==
    IF SameRuleset(st, d) THEN flaggedNow \ (st.flagged \union flaggedNow) ELSE {}

PlannedTokens(st, d, flaggedNow) ==
    IF SameRuleset(st, d) THEN flaggedNow \ st.flagged ELSE {}
PlannedBaseline(st, d, flaggedNow) ==
    [st EXCEPT !.flagged = @ \union flaggedNow, !.det = d, !.seen = held]

\* A holdings list stops at the page cap and is used all the same.
Listed(list) ==
    /\ list \subseteq held
    /\ Cardinality(list) = IF Cardinality(held) < PageCap THEN Cardinality(held)
                                                          ELSE PageCap

\* The process after a scan: what it does next, its state, its findings.
AfterScan(r, pc, st, tokens) ==
    runs' = [runs EXCEPT ![r] = [runs[r] EXCEPT !.pc = pc, !.st = st, !.newTokens = tokens]]
NextPhase(r, tokens) ==
    IF runs[r].newApprovals = {} /\ tokens = {} THEN "write" ELSE "attest"

\* Mutant: the anchor is moved to the tip of this moment.
ScanOverNewTip(r, st, tokens) ==
    IF runs[r].dry THEN runs' = [runs EXCEPT ![r] = NoRun]
    ELSE AfterScan(r, NextPhase(r, tokens), [st EXCEPT !.last = head], tokens)

\* Mutant: a dry run skips the attestation and still writes.
ScanOverDryWrites(r, st, tokens) ==
    AfterScan(r, IF runs[r].dry THEN "write" ELSE NextPhase(r, tokens),
              [st EXCEPT !.last = runs[r].latest], tokens)

\* The scan is over: attest if there is something to attest, then write.  A
\* dry run does neither.
ScanOver(r, st, tokens) ==
    IF runs[r].dry THEN runs' = [runs EXCEPT ![r] = NoRun]
    ELSE AfterScan(r, NextPhase(r, tokens), [st EXCEPT !.last = runs[r].latest], tokens)

ApprovalsScanned(r) == runs[r].pc = "reads" /\ runs[r].todo = {}

ReadHoldings(r) ==
    /\ ApprovalsScanned(r)
    /\ \E list \in SUBSET held :
         LET flaggedNow == list \cap Flagged[runs[r].det] IN
         /\ Listed(list)
         /\ ScanOver(r, PlannedBaseline(runs[r].st, runs[r].det, flaggedNow),
                        PlannedTokens(runs[r].st, runs[r].det, flaggedNow))
    /\ UNCHANGED <<chain, detector, store, attestedAt>>

\* Mutant: the fingerprint is updated also when no token was listed.
HoldingsUnavailableVersioned(r) ==
    /\ ApprovalsScanned(r)
    /\ ScanOver(r, [runs[r].st EXCEPT !.det = runs[r].det, !.seen = held], {})
    /\ UNCHANGED <<chain, detector, store, attestedAt>>

\* Either walk failed: the approval half is still reported and recorded.
HoldingsUnavailable(r) ==
    /\ ApprovalsScanned(r)
    /\ ScanOver(r, runs[r].st, {})
    /\ UNCHANGED <<chain, detector, store, attestedAt>>

\* The attestation lands.
Attest(r) ==
    /\ runs[r].pc = "attest"
    /\ attestedAt' = [x \in Exposures |->
         IF x \in runs[r].newApprovals \union runs[r].newTokens
         THEN head ELSE attestedAt[x]]
    /\ runs' = [runs EXCEPT ![r].pc = "write"]
    /\ UNCHANGED <<chain, detector, store>>

\* writeFileSync truncates the file ...
OpenState(r) ==
    /\ runs[r].pc = "write"
    /\ file' = "empty"
    /\ runs' = [runs EXCEPT ![r].pc = "writing"]
    /\ UNCHANGED <<chain, detector, disk, copy, attestedAt>>

\* ... and writes it.  Over what another run wrote since, the longer text
\* leaves its tail.  The run is over; its cycle may publish the file to git.
WriteState(r) ==
    /\ runs[r].pc = "writing"
    /\ disk' = runs[r].st
    /\ file' \in IF file = "empty" THEN {"whole"} ELSE {"whole", "mixed"}
    /\ copy' \in {copy, runs[r].st}
    /\ runs' = [runs EXCEPT ![r] = NoRun]
    /\ UNCHANGED <<chain, detector, attestedAt>>

\* An exception (a refused state file, a failed call, a failed attestation,
\* one that landed but was not confirmed) or a kill.
Stop(r) ==
    /\ runs[r].pc # "idle"
    /\ runs' = [runs EXCEPT ![r] = NoRun]
    /\ UNCHANGED <<chain, detector, store, attestedAt>>

Step(r) ==
    \/ \E dry \in BOOLEAN : Start(r, dry)
    \/ Load(r)
    \/ ReadLogs(r)
    \/ \E k \in Approvals : ReadAllowance(r, k)
    \/ ReadHoldings(r)
    \/ HoldingsUnavailable(r)
    \/ Attest(r)
    \/ OpenState(r)
    \/ WriteState(r)
    \/ Stop(r)

-----------------------------------------------------------------------------

\* The baseline: whatever the wallet holds, its flagged tokens recorded as
\* known by hand (with a fingerprint or from before there was one), and
\* allowances inherited from before block 0.
Init ==
    /\ head = 0
    /\ \E inherited \in SUBSET Approvals :
         grant = [k \in Approvals |-> IF k \in inherited
                    THEN [block |-> 0, via |-> "approval"] ELSE NoGrant]
    /\ events = [k \in Approvals |-> {}]
    /\ held \in SUBSET Tokens
    /\ detector \in Detectors
    /\ disk \in {[Blank EXCEPT !.flagged = held \cap Flagged[detector],
                              !.seen = held, !.det = d] : d \in {detector, Unversioned}}
    /\ file = "whole"
    /\ copy = disk
    /\ runs = [r \in Runs |-> NoRun]
    /\ attestedAt = [x \in Exposures |-> 0]

Next == Environment \/ \E r \in Runs : Step(r)

Spec == Init /\ [][Next]_vars

(* A process does not hang: its calls time out.  Cron starts real runs for  *)
(* ever.  Failures are transient and blind to what a run has found, so a    *)
(* step of a real run that is possible again and again is taken in the end, *)
(* also among the runs that carry a given exposure: strong fairness, since  *)
(* a failure sends a run back to the start.  A human does restore a state   *)
(* file that every run complains of.  Nothing is assumed of dry runs, the   *)
(* wallet, Deploy, or Stop.                                                 *)
Real(r) == ~runs[r].dry
Carries(r, x) == x \in runs[r].st.alerted \union runs[r].st.flagged

Fairness ==
    /\ \A r \in Runs :
         /\ WF_vars(Step(r))
         /\ SF_vars(Start(r, FALSE))
         /\ SF_vars(Real(r) /\ Load(r))
         /\ SF_vars(Real(r) /\ ReadLogs(r))
         /\ \A k \in Approvals : SF_vars(Real(r) /\ ReadAllowance(r, k))
         /\ SF_vars(Real(r) /\ ReadHoldings(r))
         /\ \A x \in Exposures :
              /\ SF_vars(Carries(r, x) /\ Attest(r))
              /\ SF_vars(Carries(r, x) /\ OpenState(r))
              /\ SF_vars(Carries(r, x) /\ WriteState(r))
    /\ WF_vars(Restore)

FairSpec == Spec /\ Fairness

-----------------------------------------------------------------------------

TypeOK ==
    /\ head \in Blocks
    /\ grant \in [Approvals -> [block : Blocks, via : {"none", "approval", "permit"}]]
    /\ events \in [Approvals -> SUBSET Blocks]
    /\ held \subseteq Tokens
    /\ detector \in Detectors
    /\ disk \in States /\ copy \in States
    /\ file \in {"whole", "empty", "mixed"}
    /\ runs \in [Runs -> Processes]
    /\ attestedAt \in [Exposures -> Blocks]

\* An allowance granted by approve() after the baseline, at or below a state's
\* anchor, and live, is recorded in that state.
CoversApprovals(st) ==
    \A k \in Approvals :
        grant[k].via = "approval" /\ grant[k].block \in 1..st.last
            => k \in st.alerted

\* The anchor never passes a live approval the sentinel has not recorded: what
\* a run skips because it is at or below lastScannedBlock is known.  This must
\* survive failed runs, overlapping runs that move the anchor back or write
\* over each other, allowances spent or re-granted while they are read, and
\* restoring an older copy (sentinel-run.mjs:163, 169-179, 226, 248).
NothingSkipped == CoversApprovals(disk)

\* The suspicious tokens that were in the wallet when a state's tokens were
\* listed are in its baseline.
CoversTokens(st) ==
    st.det # Unversioned => st.seen \cap Flagged[st.det] \subseteq st.flagged

\* The token half of the same promise, over detector changes and cycles whose
\* holdings scan failed (sentinel-run.mjs:204-225).
BaselineComplete == CoversTokens(disk)

\* Everything the state file calls known was attested first: however a run is
\* cut short, no approval is silenced without a word on-chain
\* (sentinel-run.mjs:240 before 248).
RecordedWasAttested == \A k \in disk.alerted : attestedAt[k] # 0

\* A token is reported as new only if it was not in the wallet when the tokens
\* it is compared with were listed: an attestation never misdates old dust
\* (sentinel-run.mjs:188-190, tokenFindings.mjs:3-7).
ReportsOnlyArrivals ==
    [][ \A r \in Runs : \A t \in runs'[r].newTokens \ runs[r].newTokens :
          t \notin runs[r].st.seen ]_vars

\* What the state file records is not attested again, by any later run (runs
\* that overlap do attest twice: the attestation is at least once).
AttestsOnlyUnrecorded ==
    [][ \A x \in Exposures :
          attestedAt'[x] # attestedAt[x] => x \notin disk.alerted \union disk.flagged ]_vars

\* A new approval that stays live is attested in the end.
NewApprovalAttested ==
    \A k \in Approvals :
        (grant[k].via = "approval" /\ grant[k].block > 0)
            ~> (attestedAt[k] # 0 \/ grant[k].via # "approval")

\* A suspicious token that the state file does not record, and whose listing
\* would be compared with it, is attested in the end unless it leaves or an older
\* copy without a fingerprint makes the next run a re-baseline.  Checked with one
\* detector: a run begun under another one re-baselines too, and may do so over
\* a copy restored meanwhile (sentinel-run.mjs:202-225, tokenFindings.mjs:33).
NewTokenAttested ==
    \A t \in Tokens :
        (t \in held /\ t \in Flagged[detector] /\ t \notin disk.flagged
            /\ SameRuleset(disk, detector))
            ~> (attestedAt[t] # 0 \/ t \notin held \/ ~SameRuleset(disk, detector))
=============================================================================
