------------------------------- MODULE Cycle -------------------------------
(***************************************************************************)
(* The cron cycle around the sentinel: sentinel-cron.sh with its daily     *)
(* cap, stand-down and jitter, the heartbeat it publishes as it ends       *)
(* (sentinel-heartbeat.sh) and the publication of the state file           *)
(* (publish-state.sh).  Cycles may overlap (cron and by hand) in one       *)
(* working copy, so they share its files and its FETCH_HEAD; the remote    *)
(* takes a push only when it is a fast-forward.  The scan itself is        *)
(* Sentinel's: here it fails, or writes another version of the state file. *)
(***************************************************************************)
EXTENDS Integers, FiniteSets

CONSTANTS
    Cycles,          \* cycles that may be under way at once
    MaxActions,      \* MAX_ACTIONS_PER_DAY
    MaxDay,          \* last day of the calendar (bound of the model)
    MaxStarts,       \* cycles started (bound of the model)
    MaxCommits       \* commits others push to main (bound of the model)

ASSUME CycleAssumption ==
    /\ MaxActions \in Nat /\ MaxDay \in Nat
    /\ MaxStarts \in Nat /\ MaxCommits \in Nat

VARIABLES
    day,             \* the date
    at,              \* at[c]: what cycle c does next
    today,           \* today[c]: the date c read when it started
    outcome,         \* outcome[c]: what c tells the heartbeat
    noted,           \* noted[c]: the count c is about to write
    log,             \* ACTIONS_LOG
    file,            \* the state file: its version, or Torn
    fetchHead,       \* FETCH_HEAD of the working copy
    parent, blob,    \* parent[c], blob[c]: of the commit publish-state.sh builds
    main, beats,     \* the tips of the remote's main and sentinel-heartbeat
    starts, commits, \* cycles started, commits pushed by others (ghosts)
    version,         \* versions of the state file written so far (ghost)
    wrote,           \* wrote[c]: the version c's own scan wrote, or 0 (ghost)
    beat,            \* beat[c]: the heartbeat c tried to publish (ghost)
    disturbed,       \* a cycle overlapped another, failed, was killed (ghost)
    acted            \* acted[d]: cycles that attested on day d, until then (ghost)

vars == <<day, at, today, outcome, noted, log, file, fetchHead, parent, blob,
          main, beats, starts, commits, version, wrote, beat, acted, disturbed>>

files    == <<log, file>>
remote   == <<main, beats>>
building == <<parent, blob>>
ghosts   == <<starts, commits, version, wrote, beat, acted, disturbed>>

Torn     == -1
NoLog    == [day |-> -1, count |-> 0]     \* no file, or one that does not parse
NoCommit == [branch |-> "none", seq |-> 0, others |-> 0, state |-> 0]
NoBlob   == -2
NoBeat   == [outcome |-> "none", state |-> 0]
Skipped  == [outcome |-> "skipped", state |-> 0]

Idle == {"over", "killed"}

Init ==
    /\ day = 0
    /\ at = [c \in Cycles |-> "killed"]
    /\ today = [c \in Cycles |-> 0]
    /\ outcome = [c \in Cycles |-> "none"]
    /\ noted = [c \in Cycles |-> 0]
    /\ log = NoLog
    /\ file = 0 /\ version = 0
    /\ fetchHead = NoCommit
    /\ parent = [c \in Cycles |-> NoCommit]
    /\ blob = [c \in Cycles |-> NoBlob]
    /\ main = [NoCommit EXCEPT !.branch = "main"]
    /\ beats = [NoCommit EXCEPT !.branch = "sentinel-heartbeat"]
    /\ starts = 0 /\ commits = 0
    /\ wrote = [c \in Cycles |-> 0]
    /\ beat = [c \in Cycles |-> NoBeat]
    /\ acted = [d \in 0..MaxDay |-> 0]
    /\ disturbed = FALSE

\* What publish-state.sh of cycle c was building goes with its process.
Discard(c) ==
    /\ parent' = [parent EXCEPT ![c] = NoCommit]
    /\ blob' = [blob EXCEPT ![c] = NoBlob]

-----------------------------------------------------------------------------
(* Around the cycles *)

Midnight ==
    /\ day < MaxDay
    /\ day' = day + 1
    /\ UNCHANGED <<at, today, outcome, noted, files, fetchHead, building, remote, ghosts>>

OthersPush ==
    /\ commits < MaxCommits
    /\ commits' = commits + 1
    /\ main' = [main EXCEPT !.seq = @ + 1, !.others = @ + 1]
    /\ UNCHANGED <<day, at, today, outcome, noted, files, fetchHead, building, beats,
                   starts, version, wrote, beat, acted, disturbed>>

\* The session ends (sentinel-cron.sh:67-68); a file being written stays torn.
Kill(c) ==
    /\ at[c] \notin Idle
    /\ at' = [at EXCEPT ![c] = "killed"]
    /\ today' = [today EXCEPT ![c] = 0]
    /\ outcome' = [outcome EXCEPT ![c] = "none"]
    /\ noted' = [noted EXCEPT ![c] = 0]
    /\ wrote' = [wrote EXCEPT ![c] = 0]
    /\ beat' = [beat EXCEPT ![c] = NoBeat]
    /\ Discard(c)
    /\ disturbed' = TRUE
    /\ UNCHANGED <<day, files, fetchHead, remote, starts, commits, version, acted>>

-----------------------------------------------------------------------------
(* sentinel-cron.sh *)

\* Actions the log counts for the day that starts the cycle.
Counted == IF log.day = day THEN log.count ELSE 0

\* Where cycle c goes from the start of the script, and what it will tell.
Goes(c, place, told) ==
    /\ at' = [at EXCEPT ![c] = place]
    /\ outcome' = [outcome EXCEPT ![c] = told]

\* A node binary that cannot be run is told; none at all, in PATH or under nvm,
\* ends the script in the failing ls (set -e, pipefail) before anything is.
\* Then the cap, the stand-down roll, or on to the jitter.
Start(c) ==
    /\ at[c] \in Idle /\ starts < MaxStarts
    /\ starts' = starts + 1
    /\ today' = [today EXCEPT ![c] = day]
    /\ \/ Goes(c, "over", "none")
       \/ Goes(c, "beat", "failed")
       \/ Counted >= MaxActions /\ Goes(c, "beat", "capped")
       \/ Counted < MaxActions /\ Goes(c, "beat", "stand-down")
       \/ Counted < MaxActions /\ Goes(c, "scan", "none")
    /\ wrote' = [wrote EXCEPT ![c] = 0]
    /\ beat' = [beat EXCEPT ![c] = NoBeat]
    /\ disturbed' = (disturbed \/ \E d \in Cycles : at[d] \notin Idle)
    /\ UNCHANGED <<day, noted, files, fetchHead, building, remote, commits, version, acted>>

\* sentinel-run.mjs exits with an error, before its attestation or after it.
ScanFails(c) ==
    /\ at[c] = "scan"
    /\ outcome' = [outcome EXCEPT ![c] = "failed"]
    /\ at' = [at EXCEPT ![c] = "beat"]
    /\ disturbed' = TRUE
    /\ UNCHANGED <<day, today, noted, files, fetchHead, building, remote,
                   starts, commits, version, wrote, beat, acted>>

\* ... or has attested what it found, if anything, and truncates the file,
ScanWrites(c) ==
    /\ at[c] = "scan"
    /\ \/ outcome' = [outcome EXCEPT ![c] = "clean"] /\ UNCHANGED acted
       \/ outcome' = [outcome EXCEPT ![c] = "findings"]
          /\ acted' = IF disturbed THEN acted ELSE [acted EXCEPT ![day] = @ + 1]
    /\ file' = Torn
    /\ at' = [at EXCEPT ![c] = "write"]
    /\ UNCHANGED <<day, today, noted, log, fetchHead, building, remote,
                   starts, commits, version, wrote, beat, disturbed>>

\* ... and fills it: of two at once, perhaps a mixture.
ScanEnds(c) ==
    /\ at[c] = "write"
    /\ version' = version + 1
    /\ wrote' = [wrote EXCEPT ![c] = version']
    /\ \/ file' = version'
       \/ (\E d \in Cycles \ {c} : at[d] = "write") /\ file' = Torn
    /\ at' = [at EXCEPT ![c] = "beat"]
    /\ UNCHANGED <<day, today, outcome, noted, log, fetchHead, building, remote,
                   starts, commits, beat, acted, disturbed>>

\* What follows the heartbeat.
AfterBeat(c) == CASE outcome[c] = "findings" -> "count"
                  [] outcome[c] = "clean"    -> "fetch"
                  [] OTHER                   -> "over"

\* Mutant: a day's first action is not counted.
CountLate(c) == IF log.day = today[c] THEN log.count + 1 ELSE 0

Count(c) == IF log.day = today[c] THEN log.count + 1 ELSE 1

\* The log is read and truncated,
CountAction(c) ==
    /\ at[c] = "count"
    /\ noted' = [noted EXCEPT ![c] = Count(c)]
    /\ log' = NoLog
    /\ at' = [at EXCEPT ![c] = "note"]
    /\ UNCHANGED <<day, today, outcome, file, fetchHead, building, remote, ghosts>>

\* ... and written.
NoteAction(c) ==
    /\ at[c] = "note"
    /\ log' = [day |-> today[c], count |-> noted[c]]
    /\ noted' = [noted EXCEPT ![c] = 0]
    /\ at' = [at EXCEPT ![c] = "fetch"]
    /\ UNCHANGED <<day, today, outcome, file, fetchHead, building, remote, ghosts>>

-----------------------------------------------------------------------------
(* sentinel-heartbeat.sh *)

\* The payload is built from the state file and the branch fetched (or not);
BeatSent(c) ==
    /\ beat' = [beat EXCEPT ![c] = [outcome |-> outcome[c], state |-> file]]
    /\ fetchHead' \in {beats, NoCommit}
    /\ at' = [at EXCEPT ![c] = "beatPush"]

\* when there is no payload, or git cannot store it, that is the end of it.
BeatSkipped(c) ==
    /\ beat' = [beat EXCEPT ![c] = Skipped]
    /\ at' = [at EXCEPT ![c] = AfterBeat(c)]
    /\ UNCHANGED fetchHead

\* Mutant: the grep that finds no findings ends the script (set -e).
BeatFetchAborted(c) ==
    /\ at[c] = "beat"
    /\ \/ outcome[c] # "clean" /\ (BeatSent(c) \/ BeatSkipped(c))
       \/ outcome[c] = "clean" /\ at' = [at EXCEPT ![c] = "over"]
          /\ UNCHANGED <<beat, fetchHead>>
    /\ UNCHANGED <<day, today, outcome, noted, files, building, remote,
                   starts, commits, version, wrote, acted, disturbed>>

BeatFetch(c) ==
    /\ at[c] = "beat"
    /\ BeatSent(c) \/ BeatSkipped(c)
    /\ UNCHANGED <<day, today, outcome, noted, files, building, remote,
                   starts, commits, version, wrote, acted, disturbed>>

\* Mutant: push --force.
FastForwardForced(base, tip) == TRUE

\* The remote takes a commit on `base' when that is its tip.
FastForward(base, tip) == base = tip

\* ... and the commit pushed, on whatever FETCH_HEAD names now.
BeatPush(c) ==
    /\ at[c] = "beatPush"
    /\ \/ FastForward(fetchHead, beats)
          /\ beats' = [beats EXCEPT !.seq = @ + 1]
       \/ UNCHANGED beats
    /\ at' = [at EXCEPT ![c] = AfterBeat(c)]
    /\ UNCHANGED <<day, today, outcome, noted, files, fetchHead, building, main, ghosts>>

-----------------------------------------------------------------------------
(* publish-state.sh *)

\* PUBLISH_STATE=0, or nothing that can be fetched.
Unpublished(c) ==
    /\ at[c] \in {"fetch", "base"}
    /\ at' = [at EXCEPT ![c] = "over"]
    /\ fetchHead' \in IF at[c] = "fetch" THEN {fetchHead, NoCommit} ELSE {fetchHead}
    /\ UNCHANGED <<day, today, outcome, noted, files, building, remote, ghosts>>

Fetch(c) ==
    /\ at[c] = "fetch"
    /\ fetchHead' = main
    /\ at' = [at EXCEPT ![c] = "base"]
    /\ UNCHANGED <<day, today, outcome, noted, files, building, remote, ghosts>>

\* The parent and its tree are what FETCH_HEAD names now,
Base(c) ==
    /\ at[c] = "base" /\ fetchHead # NoCommit
    /\ parent' = [parent EXCEPT ![c] = fetchHead]
    /\ at' = [at EXCEPT ![c] = "hash"]
    /\ UNCHANGED <<day, today, outcome, noted, files, fetchHead, blob, remote, ghosts>>

\* Mutant: the version this cycle wrote.
BlobOwn(c) == wrote[c]

\* the state file what it is now, whole or not;
Blob(c) == file

Hash(c) ==
    /\ at[c] = "hash"
    /\ blob' = [blob EXCEPT ![c] = Blob(c)]
    /\ at' = [at EXCEPT ![c] = "push"]
    /\ UNCHANGED <<day, today, outcome, noted, files, fetchHead, parent, remote, ghosts>>

\* a tree that is the parent's needs no commit, and a push may be refused.
Push(c) ==
    /\ at[c] = "push"
    /\ \/ FastForward(parent[c], main) /\ blob[c] # parent[c].state
          /\ main' = [branch |-> "main", seq |-> main.seq + 1,
                      others |-> parent[c].others, state |-> blob[c]]
       \/ UNCHANGED main
    /\ Discard(c)
    /\ at' = [at EXCEPT ![c] = "over"]
    /\ UNCHANGED <<day, today, outcome, noted, files, fetchHead, beats, ghosts>>

-----------------------------------------------------------------------------

Step(c) ==
    \/ Start(c) \/ Kill(c)
    \/ ScanFails(c) \/ ScanWrites(c) \/ ScanEnds(c)
    \/ BeatFetch(c) \/ BeatPush(c)
    \/ CountAction(c) \/ NoteAction(c)
    \/ Unpublished(c) \/ Fetch(c) \/ Base(c) \/ Hash(c) \/ Push(c)

Next == Midnight \/ OthersPush \/ \E c \in Cycles : Step(c)

Spec == Init /\ [][Next]_vars

-----------------------------------------------------------------------------

Commits == [branch : {"none", "main", "sentinel-heartbeat"}, seq : Nat, others : Nat,
            state : Nat \cup {Torn}]

Outcomes == {"none", "failed", "capped", "stand-down", "clean", "findings"}

TypeOK ==
    /\ day \in 0..MaxDay
    /\ at \in [Cycles -> {"scan", "write", "beat", "beatPush", "count", "note",
                          "fetch", "base", "hash", "push", "over", "killed"}]
    /\ today \in [Cycles -> 0..MaxDay]
    /\ outcome \in [Cycles -> Outcomes]
    /\ noted \in [Cycles -> Nat]
    /\ log \in [day : -1..MaxDay, count : Nat]
    /\ file \in Nat \cup {Torn} /\ version \in Nat
    /\ fetchHead \in Commits /\ main \in Commits /\ beats \in Commits
    /\ parent \in [Cycles -> Commits]
    /\ blob \in [Cycles -> Nat \cup {Torn, NoBlob}]
    /\ starts \in 0..MaxStarts /\ commits \in 0..MaxCommits
    /\ wrote \in [Cycles -> Nat]
    /\ beat \in [Cycles -> [outcome : Outcomes \cup {"skipped"}, state : Nat \cup {Torn}]]
    /\ acted \in [0..MaxDay -> Nat]
    /\ disturbed \in BOOLEAN

\* Publishing reverts nothing that others pushed to main, though two cycles
\* share one FETCH_HEAD and it may name the heartbeat's branch when the parent
\* is taken from it (publish-state.sh:63-65, 107-110).
OthersKept == main.others = commits

\* The state main shows never goes back to an older version, however cycles
\* overlap: what is pushed was hashed after the tip it replaces was fetched
\* (publish-state.sh:63-65).
PublishedNeverGoesBack ==
    [][main.state # Torn /\ main'.state # Torn => main'.state >= main.state]_vars

\* A cycle that got as far as an outcome and was not killed has handed it to
\* the heartbeat, which skips it or says it: clean or findings only of a scan
\* that wrote, and with the state it wrote or a later one, unless that is torn.
\* One that ends without an outcome has not scanned (sentinel-cron.sh:15-31, 87-95).
HeartbeatTellsAll ==
    \A c \in Cycles : at[c] = "over" =>
        IF outcome[c] = "none" THEN wrote[c] = 0
        ELSE /\ outcome[c] \in {"clean", "findings"} <=> wrote[c] > 0
             /\ \/ beat[c] = Skipped
                \/ /\ beat[c].outcome = outcome[c]
                   /\ beat[c].state # Torn => beat[c].state >= wrote[c]

\* As long as cycles come one at a time and none fails or is killed, no day's
\* cycles act more often than the cap allows, whatever the jitter carries over
\* midnight (sentinel-cron.sh:39-55, 97-109).
CapHolds ==
    ~disturbed => \A d \in 0..MaxDay : acted[d] <= MaxActions + (IF d > 0 THEN 1 ELSE 0)
=============================================================================
