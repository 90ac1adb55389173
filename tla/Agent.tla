------------------------------- MODULE Agent -------------------------------
(***************************************************************************)
(* What the HTTP agent of agent/app.mjs says, and how true it is: the      *)
(* wallet changes, a scan and the sentinel write their files to the        *)
(* repository, a deployment bundles the files it finds there, and the      *)
(* routes answer from the bundle.  The routes write nothing, so an answer  *)
(* is an operator of the state.  What the sentinel and the scanner do is   *)
(* Sentinel's and ApprovalScan's; here they are one step each.             *)
(***************************************************************************)
EXTENDS Integers, FiniteSets, FiniteSetsExt, Heuristics

CONSTANTS
    Erc20, Permit2,  \* the <<token, spender>> pairs, by the way they are approved
    StaleAfter,      \* STALE_AFTER_SECONDS
    Expected,        \* EXPECTED_INTERVAL_SECONDS
    MaxLag,          \* MAX_LAG_SECONDS
    Lists,           \* holdings Blockscout may list: sequences of tokens
    MaxNow,          \* last instant of the clock (bound of the model)
    MaxChanges       \* changes of an allowance (bound of the model)

ASSUME AgentAssumption ==
    /\ Erc20 \cap Permit2 = {}
    /\ IsFiniteSet(Erc20) /\ IsFiniteSet(Permit2)
    /\ StaleAfter \in Nat /\ Expected \in Nat /\ MaxLag \in Nat
    /\ MaxNow \in Nat /\ MaxChanges \in Nat

VARIABLES
    now,
    live,            \* live[p]: what pair p allows
    lived,           \* lived[t]: what `live' was at time t (ghost)
    ranAt,           \* when the sentinel last completed a run (ghost)
    changes,
    repo,            \* the report and the state file in the repository
    bundle           \* ... and in the deployment

agentVars == <<now, live, lived, ranAt, changes, repo, bundle>>

Pairs == Erc20 \cup Permit2
Never == -1          \* no date, or none that parses
None  == "none"
Unavailable == << "unavailable" >>

ASSUME ListsAssumption ==
    /\ Unavailable \notin Lists
    /\ \A list \in Lists : Len(list) \in Nat /\ DOMAIN list = 1..Len(list)

\* An ERC-20 amount that does not parse counts as unlimited, a Permit2 grant
\* with the highest expiration as one that does not expire.
Classes(p) == IF p \in Erc20 THEN {"finite", "unlimited"} ELSE {"expiring", "unexpiring"}

\* Files that are missing or do not parse are not usable.
NoReport == [usable |-> FALSE, at |-> Never, live |-> [p \in Pairs |-> None]]
NoState  == [usable |-> FALSE, ranAt |-> Never, alerted |-> {}]

AgentInit ==
    /\ now = 0
    /\ live = [p \in Pairs |-> None]
    /\ lived = [t \in 0..MaxNow |-> IF t = 0 THEN {live} ELSE {}]
    /\ ranAt = Never /\ changes = 0
    /\ repo \in [report : {NoReport}, state : {NoState, [NoState EXCEPT !.usable = TRUE]}]
    /\ bundle = repo

Tick ==
    /\ now < MaxNow
    /\ now' = now + 1
    /\ lived' = [lived EXCEPT ![now + 1] = {live}]
    /\ UNCHANGED <<live, ranAt, changes, repo, bundle>>

\* The owner approves, changes or revokes an allowance, or it is spent.
Allow(p, class) ==
    /\ changes < MaxChanges /\ class # live[p]
    /\ live' = [live EXCEPT ![p] = class]
    /\ lived' = [lived EXCEPT ![now] = @ \cup {live'}]
    /\ changes' = changes + 1
    /\ UNCHANGED <<now, ranAt, repo, bundle>>

\* scan-approvals.mjs writes a report of the wallet as it was at `scannedAt'.
ScanWritten(t, seen) ==
    /\ t <= now /\ seen \in lived[t]
    /\ repo' = [repo EXCEPT !.report = [usable |-> TRUE, at |-> t, live |-> seen]]
    /\ UNCHANGED <<now, live, lived, ranAt, changes, bundle>>

\* sentinel-run.mjs ends, having alerted of some live approvals.
SentinelRan(new) ==
    /\ \A p \in new : live[p] # None
    /\ repo' = [repo EXCEPT !.state = [usable |-> TRUE, ranAt |-> now,
                                       alerted |-> @.alerted \cup new]]
    /\ ranAt' = now
    /\ UNCHANGED <<now, live, lived, changes, bundle>>

\* A deployment takes the files as they are, or finds one broken.
Deploy ==
    /\ bundle' \in [report : {repo.report, NoReport}, state : {repo.state, NoState}]
    /\ UNCHANGED <<now, live, lived, ranAt, changes, repo>>

AgentNext ==
    \/ Tick
    \/ \E p \in Pairs : \E class \in Classes(p) \cup {None} : Allow(p, class)
    \/ \E t \in 0..now : \E seen \in lived[t] : ScanWritten(t, seen)
    \/ \E new \in SUBSET Pairs : SentinelRan(new)
    \/ Deploy

AgentSpec == AgentInit /\ [][AgentNext]_agentVars

-----------------------------------------------------------------------------
(* The answers *)

AtLeast0(n) == IF n > 0 THEN n ELSE 0

\* Mutant: a date that does not parse has no age, and nothing is older than that.
StaleLax(at, bound) == at # Never /\ AtLeast0(now - at) > bound

\* describeFreshness, and overdue of readSentinelReport: without a date, yes.
Stale(at, bound) == at = Never \/ AtLeast0(now - at) > bound

Listed(report) == {p \in Pairs : report.live[p] # None}

\* GET /exposure.
Exposure ==
    IF ~bundle.report.usable THEN [status |-> 202]
    ELSE [status |-> 200, stale |-> Stale(bundle.report.at, StaleAfter),
          live |-> bundle.report.live]

\* describeInheritedExposure: the listed pairs the sentinel never alerted of.
Inherited == Listed(bundle.report) \ bundle.state.alerted

\* readSentinelReport; the detectors' fingerprints are in Heuristics.
SentinelReport == [ranAt    |-> bundle.state.ranAt,
                   overdue  |-> Stale(bundle.state.ranAt, Expected),
                   alerted  |-> bundle.state.alerted]

\* GET /sentinel; without a snapshot nothing is said of what is inherited.
SentinelAnswer ==
    IF ~bundle.state.usable THEN [status |-> 202]
    ELSE [status    |-> 200,
          ranAt     |-> SentinelReport.ranAt,
          overdue   |-> SentinelReport.overdue,
          alerted   |-> SentinelReport.alerted,
          inherited |-> IF bundle.report.usable THEN {Inherited} ELSE {}]

\* failure: a status and a code, and nothing of what the error says.
Failure(status) == [status |-> status]

\* GET /healthz, when the node's latest block is of time `block'.
Healthz(block) ==
    IF block = Never THEN Failure(503)
    ELSE [status |-> IF AtLeast0(now - block) > MaxLag THEN 503 ELSE 200]

Flagged(list) == Cardinality({i \in DOMAIN list : Suspicious(list[i])})

\* Mutant: an unexpiring Permit2 grant costs what an expiring one does (v2).
WeightV2(class) == CASE class = "unlimited" -> 25 [] class = "finite" -> 8
                     [] class \in {"expiring", "unexpiring"} -> 5 [] OTHER -> 0

\* WEIGHTS of hygieneScore.mjs.
Weight(class) == CASE class = "unlimited"  -> 25 [] class = "finite"   -> 8
                   [] class = "unexpiring" -> 8  [] class = "expiring" -> 5
                   [] OTHER -> 0

AirdropPenalty(flagged) == IF flagged < 10 THEN flagged ELSE 10

\* How many allowances are of a class, and what they cost.
Granted(allowed, class) == Cardinality({p \in Pairs : allowed[p] = class})
Cost(allowed, class)    == Granted(allowed, class) * Weight(class)

\* computeHygieneScore, for a report that exists.
HygieneScore(allowed, flagged) ==
    AtLeast0(100 - (Cost(allowed, "unlimited") + Cost(allowed, "finite")
                      + Cost(allowed, "expiring") + Cost(allowed, "unexpiring"))
                 - AirdropPenalty(flagged))

Meaningless == {<< >>, <<"-">>, <<".">>, <<"?">>}

\* Mutant: a contract that is listed twice collides with itself.
GroupedTwice(groups, held) ==
    LET symbol == Lowered(held.symbol)
    IN  IF symbol \in Meaningless THEN groups
        ELSE [groups EXCEPT ![symbol] = Append(@, held)]

\* One round of findSymbolCollisions' loop: the first listing of a contract.
Grouped(groups, held) ==
    LET symbol == Lowered(held.symbol)
    IN  IF \/ symbol \in Meaningless
           \/ \E i \in DOMAIN groups[symbol] : groups[symbol][i].address = held.address
        THEN groups
        ELSE [groups EXCEPT ![symbol] = Append(@, held)]

Claimed(list) == {Lowered(list[i].symbol) : i \in DOMAIN list}
Groups(list)  == FoldLeft(Grouped, [symbol \in Claimed(list) |-> << >>], list)

\* findSymbolCollisions: the symbols several contracts claim, and how many do.
SymbolCollisions(list) ==
    LET groups == Groups(list)
    IN  {[symbol |-> s, contracts |-> Len(groups[s]), flagged |-> Flagged(groups[s])] :
            s \in {t \in Claimed(list) : Len(groups[t]) > 1}}

\* What Blockscout names no standard for is an ERC-20.
Standard(held) == IF held.standard = "" THEN "ERC-20" ELSE held.standard
Standards(list) == {Standard(list[i]) : i \in DOMAIN list}
Rows(list, s)   == {i \in DOMAIN list : Standard(list[i]) = s}

\* scanHoldings.
ScanHoldings ==
    [list \in Lists |-> [scanned    |-> Len(list), flagged |-> Flagged(list),
                         byStandard |-> [s \in Standards(list) |-> Cardinality(Rows(list, s))],
                         collisions |-> SymbolCollisions(list)]]

\* calibrate-heuristics.mjs: what the rules flag of each standard, and how
\* often each of them fires.
Calibration ==
    [list \in Lists |->
        LET reasons == [i \in DOMAIN list |-> ClassifyToken(Known, list[i])]
        IN  [flagged |-> [s \in Standards(list) |->
                             Cardinality({i \in Rows(list, s) : reasons[i] # {}})],
             hits    |-> [id \in UNION Range(reasons) |->
                             Cardinality({i \in DOMAIN list : id \in reasons[i]})],
             total   |-> Cardinality({i \in DOMAIN list : reasons[i] # {}})]]

\* GET /drops, when Blockscout lists `holdings' or is unavailable.
Drops(holdings) ==
    IF holdings = Unavailable THEN Failure(502)
    ELSE LET scan == ScanHoldings[holdings]
         IN  [status     |-> 200,
              scanned    |-> scan.scanned,    flagged    |-> scan.flagged,
              byStandard |-> scan.byStandard, collisions |-> scan.collisions]

\* computeAudit, behind what Storefront says of GET /audit.
ComputeAudit(holdings) ==
    IF holdings = Unavailable THEN Failure(502)
    ELSE [status     |-> 200,
          stale      |-> Stale(bundle.report.at, StaleAfter),
          score      |-> IF bundle.report.usable
                         THEN HygieneScore(bundle.report.live, ScanHoldings[holdings].flagged)
                         ELSE Never,
          collisions |-> ScanHoldings[holdings].collisions]

-----------------------------------------------------------------------------

\* What is served as fresh, not overdue or healthy is so: the approvals were
\* the wallet's, all of them, not longer ago than the answer admits, and a
\* run was completed; and what is not called inherited was alerted of.  An old
\* file deployed again, one that never had a date and one that broke do not
\* pass for news (freshness.mjs:5-8, sentinelReport.mjs:36-38, app.mjs:289-292).
AnswersAreRecent ==
    /\ Exposure.status = 200 /\ ~Exposure.stale =>
          \E t \in 0..now : t + StaleAfter >= now /\ Exposure.live \in lived[t]
    /\ SentinelAnswer.status = 200 /\ ~SentinelAnswer.overdue =>
          ranAt # Never /\ ranAt + Expected >= now
    /\ SentinelAnswer.status = 200 =>
          \A unseen \in SentinelAnswer.inherited :
              Listed(bundle.report) \ unseen \subseteq repo.state.alerted
    /\ \A block \in 0..now : Healthz(block).status = 200 => block + MaxLag >= now
    /\ \A list \in Lists :
         LET audit == ComputeAudit(list)
         IN  ~audit.stale /\ audit.score # Never =>
               \E t \in 0..now : \E seen \in lived[t] :
                   /\ t + StaleAfter >= now
                   /\ audit.score = HygieneScore(seen, ScanHoldings[list].flagged)

\* How much an allowance exposes: a grant that never ends is worse than one
\* that does, an unlimited one than a finite one.
Worse(c, d) == \/ c = d \/ d = None
               \/ c = "unlimited" /\ d = "finite"
               \/ c = "unexpiring" /\ d = "expiring"

\* The score follows what the owner decides and not what the wallet is sent:
\* exposure that grows or worsens strictly lowers it (until it is 0), and no
\* number of airdrops costs more than 10 points (hygieneScore.mjs:9-18).
ScoreTracksExposure ==
    \A list \in Lists :
        LET old == HygieneScore(bundle.report.live, ScanHoldings[list].flagged)
            new == HygieneScore(live, ScanHoldings[list].flagged)
        IN  /\ old + 10 >= HygieneScore(bundle.report.live, 0)
            /\ (\A p \in Pairs : Worse(live[p], bundle.report.live[p])) =>
                  \/ live = bundle.report.live
                  \/ new < old \/ new = 0

SumOf(count) == MapThenSumSet(LAMBDA x : count[x], DOMAIN count)

\* A collision is named exactly when two contracts claim the ticker, with the
\* count of the contracts that do; a contract listed once per token id, or
\* under two spellings, is one.  Where it is a known ticker all but one of
\* them are flagged.  What /drops gives away is what /audit sells, and the
\* rules are calibrated on what it counts: the same tokens, standard by
\* standard, every one under a rule the fingerprint knows
\* (symbolCollisions.mjs:42-45, app.mjs:75-77, calibrate-heuristics.mjs:60-62).
CollisionsExact ==
    \A list \in Lists :
        LET drops == Drops(list)
            rules == Calibration[list]
        IN  /\ \A s \in Claimed(list) \ Meaningless :
                 LET claims == {list[i].address : i \in
                                   {j \in DOMAIN list : Lowered(list[j].symbol) = s}}
                     told   == {c \in ComputeAudit(list).collisions : c.symbol = s}
                 IN  /\ {c.contracts : c \in told}
                          = IF Cardinality(claims) > 1 THEN {Cardinality(claims)} ELSE {}
                     /\ \A c \in told : s \in {<< t >> : t \in DOMAIN Known}
                                          => c.contracts - c.flagged <= 1
                     /\ told \subseteq drops.collisions
            /\ drops.flagged = rules.total
            /\ drops.flagged = SumOf(rules.flagged) /\ drops.scanned = SumOf(drops.byStandard)
            /\ DOMAIN rules.hits \subseteq Fingerprint(Known)
            /\ drops.flagged <= SumOf(rules.hits)
=============================================================================
