---------------------------- MODULE Cycle_proofs ----------------------------
(***************************************************************************)
(* Proofs about the cron cycle, the heartbeat and the publication, for any *)
(* number of overlapping cycles, any cap and any calendar.                 *)
(*                                                                         *)
(* PublishedNeverGoesBack needs that nothing hashed or pushed is newer     *)
(* than the file, and that a commit whose parent is still the tip holds    *)
(* what was hashed after that tip was there (Ordered).  HeartbeatTellsAll  *)
(* needs where each cycle's outcome stands on its way (Told).              *)
(***************************************************************************)
EXTENDS Cycle, TLAPS

Places == {"scan", "write", "beat", "beatPush", "count", "note",
           "fetch", "base", "hash", "push", "over", "killed"}

Hashed == \A c \in Cycles : at[c] = "push" => blob[c] # NoBlob

Beats == [outcome : Outcomes \cup {"skipped"}, state : Nat \cup {Torn}]

LEMMA Recounted ==
    ASSUME NEW x \in Commits, NEW m \in Nat, NEW n \in Nat
    PROVE  [x EXCEPT !.seq = m, !.others = n] \in Commits /\ [x EXCEPT !.seq = m] \in Commits
<1>1. [x EXCEPT !.seq = m, !.others = n] \in Commits
  BY DEF Commits
<1>2. [x EXCEPT !.seq = m] \in Commits
  BY DEF Commits
<1> QED BY <1>1, <1>2

LEMMA MoreCommits ==
    ASSUME NEW x \in Commits
    PROVE  /\ [x EXCEPT !.seq = @ + 1] \in Commits
           /\ [x EXCEPT !.seq = @ + 1, !.others = @ + 1] \in Commits
<1>1. x.seq + 1 \in Nat /\ x.others + 1 \in Nat
  BY DEF Commits
<1> QED BY <1>1, Recounted

LEMMA InitTypeOK == Init => TypeOK
<1> SUFFICES ASSUME Init PROVE TypeOK
  OBVIOUS
<1> USE CycleAssumption DEF Init
<1>1. parent \in [Cycles -> Commits] /\ blob \in [Cycles -> Nat \cup {Torn, NoBlob}]
  BY DEF Commits, NoCommit, NoBlob, Torn
<1>2. main \in Commits /\ beats \in Commits /\ fetchHead \in Commits
  BY DEF Commits, NoCommit
<1>3. beat \in [Cycles -> Beats] /\ outcome \in [Cycles -> Outcomes]
  BY DEF Beats, Outcomes, NoBeat
<1>4. log \in [day : -1..MaxDay, count : Nat]
  BY DEF NoLog
<1>5. acted \in [0..MaxDay -> Nat] /\ wrote \in [Cycles -> Nat] /\ noted \in [Cycles -> Nat]
  OBVIOUS
<1>7. disturbed \in BOOLEAN
  OBVIOUS
<1>6. /\ day \in 0..MaxDay /\ at \in [Cycles -> Places] /\ today \in [Cycles -> 0..MaxDay]
      /\ file \in Nat \cup {Torn} /\ version \in Nat
      /\ starts \in 0..MaxStarts /\ commits \in 0..MaxCommits
  BY DEF Places
<1> QED BY <1>1, <1>2, <1>3, <1>4, <1>5, <1>6, <1>7 DEF TypeOK, Beats, Places

LEMMA MidnightTypeOK == ASSUME TypeOK, Midnight PROVE TypeOK'
<1> USE CycleAssumption
<1>1. day' \in 0..MaxDay
  BY DEF Midnight, TypeOK
<1> QED BY <1>1 DEF Midnight, TypeOK, Places, Beats, files, remote, building,
           ghosts

LEMMA OthersPushTypeOK == ASSUME TypeOK, OthersPush PROVE TypeOK'
<1> USE CycleAssumption
<1>1. main' \in Commits
  BY MoreCommits DEF OthersPush, TypeOK
<1>2. commits' \in 0..MaxCommits
  BY DEF OthersPush, TypeOK
<1> QED BY <1>1, <1>2 DEF OthersPush, TypeOK, Places, Beats, files, remote,
           building, ghosts

LEMMA StartTypeOK == ASSUME TypeOK, NEW c \in Cycles, Start(c) PROVE TypeOK'
<1> USE CycleAssumption
<1>1. starts' \in 0..MaxStarts
  BY DEF Start, Goes, Counted, TypeOK
<1>2. today' \in [Cycles -> 0..MaxDay]
  BY DEF Start, Goes, Counted, TypeOK
<1>3. outcome' \in [Cycles -> Outcomes]
  BY DEF Start, Goes, Counted, TypeOK, Outcomes
<1>4. at' \in [Cycles -> Places]
  BY DEF Start, Goes, Counted, TypeOK, Places, Outcomes
<1>5. wrote' \in [Cycles -> Nat]
  BY DEF Start, Goes, Counted, TypeOK
<1>6. beat' \in [Cycles -> Beats]
  BY DEF Start, Goes, Counted, TypeOK, Beats, Outcomes, NoBeat, Skipped, Torn
<1>7. disturbed' \in BOOLEAN
  BY DEF Start, Goes, Counted, TypeOK, Idle
<1> QED BY <1>1, <1>2, <1>3, <1>4, <1>5, <1>6, <1>7 DEF Start, Goes, TypeOK, Places,
           Beats, files, remote, building, ghosts

LEMMA KillTypeOK == ASSUME TypeOK, NEW c \in Cycles, Kill(c) PROVE TypeOK'
<1> USE CycleAssumption
<1>1. at' \in [Cycles -> Places]
  BY DEF Kill, Discard, TypeOK, Places, Outcomes
<1>2. today' \in [Cycles -> 0..MaxDay]
  BY DEF Kill, Discard, TypeOK
<1>3. outcome' \in [Cycles -> Outcomes]
  BY DEF Kill, Discard, TypeOK, Outcomes
<1>4. noted' \in [Cycles -> Nat]
  BY DEF Kill, Discard, TypeOK
<1>5. wrote' \in [Cycles -> Nat]
  BY DEF Kill, Discard, TypeOK
<1>6. beat' \in [Cycles -> Beats]
  BY DEF Kill, Discard, TypeOK, Beats, Outcomes, NoBeat, Skipped, Torn
<1>7. parent' \in [Cycles -> Commits]
  BY DEF Kill, Discard, TypeOK, Commits, NoCommit
<1>8. blob' \in [Cycles -> Nat \cup {Torn, NoBlob}]
  BY DEF Kill, Discard, TypeOK, NoBlob, Torn
<1>9. disturbed' \in BOOLEAN
  BY DEF Kill, Discard, TypeOK, Idle
<1> QED BY <1>1, <1>2, <1>3, <1>4, <1>5, <1>6, <1>7, <1>8, <1>9 DEF Kill,
           TypeOK, Places, Beats, files, remote, building, ghosts, Discard

LEMMA ScanFailsTypeOK == ASSUME TypeOK, NEW c \in Cycles, ScanFails(c) PROVE TypeOK'
<1> USE CycleAssumption
<1>1. outcome' \in [Cycles -> Outcomes]
  BY DEF ScanFails, TypeOK, Outcomes
<1>2. at' \in [Cycles -> Places]
  BY DEF ScanFails, TypeOK, Places, Outcomes
<1>3. disturbed' \in BOOLEAN
  BY DEF ScanFails, TypeOK, Idle
<1> QED BY <1>1, <1>2, <1>3 DEF ScanFails, TypeOK, Places, Beats, files,
           remote, building, ghosts

LEMMA ScanWritesTypeOK == ASSUME TypeOK, NEW c \in Cycles, ScanWrites(c) PROVE TypeOK'
<1> USE CycleAssumption
<1>1. outcome' \in [Cycles -> Outcomes]
  BY DEF ScanWrites, TypeOK, Outcomes
<1>2. acted' \in [0..MaxDay -> Nat]
  BY SMTT(30) DEF ScanWrites, TypeOK
<1>3. file' \in Nat \cup {Torn}
  BY DEF ScanWrites, TypeOK, Torn
<1>4. at' \in [Cycles -> Places]
  BY DEF ScanWrites, TypeOK, Places, Outcomes
<1> QED BY <1>1, <1>2, <1>3, <1>4 DEF ScanWrites, TypeOK, Places, Beats,
           files, remote, building, ghosts

LEMMA ScanEndsTypeOK == ASSUME TypeOK, NEW c \in Cycles, ScanEnds(c) PROVE TypeOK'
<1> USE CycleAssumption
<1>1. version' \in Nat
  BY DEF ScanEnds, TypeOK
<1>2. wrote' \in [Cycles -> Nat]
  BY DEF ScanEnds, TypeOK
<1>3. file' \in Nat \cup {Torn}
  BY DEF ScanEnds, TypeOK, Torn
<1>4. at' \in [Cycles -> Places]
  BY DEF ScanEnds, TypeOK, Places, Outcomes
<1> QED BY <1>1, <1>2, <1>3, <1>4 DEF ScanEnds, TypeOK, Places, Beats, files,
           remote, building, ghosts

LEMMA BeatFetchTypeOK == ASSUME TypeOK, NEW c \in Cycles, BeatFetch(c) PROVE TypeOK'
<1> USE CycleAssumption
<1>0. /\ beat \in [Cycles -> Beats] /\ outcome[c] \in Outcomes /\ file \in Nat \cup {Torn}
      /\ fetchHead \in Commits /\ beats \in Commits /\ at \in [Cycles -> Places]
  BY DEF TypeOK, Beats, Places
<1>1. Skipped \in Beats /\ [outcome |-> outcome[c], state |-> file] \in Beats
  BY <1>0 DEF Beats, Skipped
<1>2. beat' \in [Cycles -> Beats]
  BY <1>0, <1>1 DEF BeatFetch, BeatSent, BeatSkipped
<1>3. NoCommit \in Commits
  BY DEF NoCommit, Commits
<1>4. fetchHead' \in Commits
  BY <1>0, <1>3 DEF BeatFetch, BeatSent, BeatSkipped
<1>5. AfterBeat(c) \in Places /\ "beatPush" \in Places
  BY DEF AfterBeat, Places
<1>6. at' \in [Cycles -> Places]
  BY <1>0, <1>5 DEF BeatFetch, BeatSent, BeatSkipped
<1> QED BY <1>2, <1>4, <1>6 DEF BeatFetch, TypeOK, Places, Beats, files,
           remote, building, ghosts

LEMMA BeatPushTypeOK == ASSUME TypeOK, NEW c \in Cycles, BeatPush(c) PROVE TypeOK'
<1> USE CycleAssumption
<1>1. beats' \in Commits
  BY MoreCommits DEF BeatPush, TypeOK
<1>2. at' \in [Cycles -> Places]
  BY DEF BeatPush, FastForward, AfterBeat, TypeOK, Places, Outcomes
<1> QED BY <1>1, <1>2 DEF BeatPush, TypeOK, Places, Beats, files, remote,
           building, ghosts

LEMMA CountActionTypeOK == ASSUME TypeOK, NEW c \in Cycles, CountAction(c) PROVE TypeOK'
<1> USE CycleAssumption
<1>1. noted' \in [Cycles -> Nat]
  BY DEF CountAction, Count, TypeOK
<1>2. log' \in [day : -1..MaxDay, count : Nat]
  BY DEF CountAction, Count, TypeOK, NoLog
<1>3. at' \in [Cycles -> Places]
  BY DEF CountAction, Count, TypeOK, Places, Outcomes
<1> QED BY <1>1, <1>2, <1>3 DEF CountAction, TypeOK, Places, Beats, files,
           remote, building, ghosts

LEMMA NoteActionTypeOK == ASSUME TypeOK, NEW c \in Cycles, NoteAction(c) PROVE TypeOK'
<1> USE CycleAssumption
<1>1. log' \in [day : -1..MaxDay, count : Nat]
  BY DEF NoteAction, TypeOK, NoLog
<1>2. noted' \in [Cycles -> Nat]
  BY DEF NoteAction, TypeOK
<1>3. at' \in [Cycles -> Places]
  BY DEF NoteAction, TypeOK, Places, Outcomes
<1> QED BY <1>1, <1>2, <1>3 DEF NoteAction, TypeOK, Places, Beats, files,
           remote, building, ghosts

LEMMA UnpublishedTypeOK == ASSUME TypeOK, NEW c \in Cycles, Unpublished(c) PROVE TypeOK'
<1> USE CycleAssumption
<1>1. at' \in [Cycles -> Places]
  BY DEF Unpublished, TypeOK, Places, Outcomes
<1>2. fetchHead' \in Commits
  BY SMTT(30) DEF Unpublished, TypeOK, Commits, NoCommit
<1> QED BY <1>1, <1>2 DEF Unpublished, TypeOK, Places, Beats, files, remote,
           building, ghosts

LEMMA FetchTypeOK == ASSUME TypeOK, NEW c \in Cycles, Fetch(c) PROVE TypeOK'
<1> USE CycleAssumption
<1>1. fetchHead' \in Commits
  BY DEF Fetch, TypeOK, Commits, NoCommit
<1>2. at' \in [Cycles -> Places]
  BY DEF Fetch, TypeOK, Places, Outcomes
<1> QED BY <1>1, <1>2 DEF Fetch, TypeOK, Places, Beats, files, remote,
           building, ghosts

LEMMA BaseTypeOK == ASSUME TypeOK, NEW c \in Cycles, Base(c) PROVE TypeOK'
<1> USE CycleAssumption
<1>1. parent' \in [Cycles -> Commits]
  BY DEF Base, TypeOK, Commits, NoCommit
<1>2. at' \in [Cycles -> Places]
  BY DEF Base, TypeOK, Places, Outcomes
<1> QED BY <1>1, <1>2 DEF Base, TypeOK, Places, Beats, files, remote,
           building, ghosts

LEMMA HashTypeOK == ASSUME TypeOK, NEW c \in Cycles, Hash(c) PROVE TypeOK'
<1> USE CycleAssumption
<1>1. blob' \in [Cycles -> Nat \cup {Torn, NoBlob}]
  BY DEF Hash, Blob, TypeOK, NoBlob, Torn
<1>2. at' \in [Cycles -> Places]
  BY DEF Hash, Blob, TypeOK, Places, Outcomes
<1> QED BY <1>1, <1>2 DEF Hash, TypeOK, Places, Beats, files, remote,
           building, ghosts

LEMMA PushTypeOK == ASSUME Hashed, TypeOK, NEW c \in Cycles, Push(c) PROVE TypeOK'
<1> USE CycleAssumption
<1>1. main' \in Commits
  <2>1. blob[c] \in Nat \cup {Torn}
    BY DEF Push, Hashed, TypeOK
  <2>2. main.seq \in Nat /\ parent[c].others \in Nat
    BY DEF TypeOK, Commits
  <2>3. [branch |-> "main", seq |-> main.seq + 1,
         others |-> parent[c].others, state |-> blob[c]] \in Commits
    BY <2>1, <2>2 DEF Commits
  <2> QED BY <2>3 DEF Push, TypeOK
<1>2. parent' \in [Cycles -> Commits]
  BY DEF Push, Discard, FastForward, TypeOK, Commits, NoCommit
<1>3. blob' \in [Cycles -> Nat \cup {Torn, NoBlob}]
  BY DEF Push, Discard, FastForward, TypeOK, NoBlob, Torn
<1>4. at' \in [Cycles -> Places]
  BY DEF Push, Discard, FastForward, TypeOK, Places, Outcomes
<1> QED BY <1>1, <1>2, <1>3, <1>4 DEF Push, TypeOK, Places, Beats, files,
           remote, building, ghosts, Discard

LEMMA NextHashed == TypeOK /\ Hashed /\ [Next]_vars => Hashed'
<1> SUFFICES ASSUME TypeOK, Hashed, [Next]_vars PROVE Hashed'
  OBVIOUS
<1>1. CASE Midnight
  BY <1>1 DEF Midnight, TypeOK, Hashed, building, ghosts, Blob, NoBlob, Torn
<1>2. CASE OthersPush
  BY <1>2 DEF OthersPush, TypeOK, Hashed, building, ghosts, Blob, NoBlob, Torn
<1>3. ASSUME NEW c \in Cycles, Start(c) PROVE Hashed'
  BY <1>3 DEF Start, Goes, Counted, TypeOK, Hashed, building, ghosts, Blob, NoBlob,
         Torn
<1>4. ASSUME NEW c \in Cycles, Kill(c) PROVE Hashed'
  BY <1>4 DEF Kill, Discard, TypeOK, Hashed, building, ghosts, Blob, NoBlob,
         Torn
<1>5. ASSUME NEW c \in Cycles, ScanFails(c) PROVE Hashed'
  BY <1>5 DEF ScanFails, TypeOK, Hashed, building, ghosts, Blob, NoBlob, Torn
<1>6. ASSUME NEW c \in Cycles, ScanWrites(c) PROVE Hashed'
  BY <1>6 DEF ScanWrites, TypeOK, Hashed, building, ghosts, Blob, NoBlob, Torn
<1>7. ASSUME NEW c \in Cycles, ScanEnds(c) PROVE Hashed'
  BY <1>7 DEF ScanEnds, TypeOK, Hashed, building, ghosts, Blob, NoBlob, Torn
<1>8. ASSUME NEW c \in Cycles, BeatFetch(c) PROVE Hashed'
  BY <1>8 DEF BeatFetch, BeatSent, BeatSkipped, AfterBeat, TypeOK, Hashed, building, ghosts, Blob, NoBlob, Torn
<1>9. ASSUME NEW c \in Cycles, BeatPush(c) PROVE Hashed'
  BY <1>9 DEF BeatPush, FastForward, AfterBeat, TypeOK, Hashed, building,
         ghosts, Blob, NoBlob, Torn
<1>10. ASSUME NEW c \in Cycles, CountAction(c) PROVE Hashed'
  BY <1>10 DEF CountAction, Count, TypeOK, Hashed, building, ghosts, Blob,
         NoBlob, Torn
<1>11. ASSUME NEW c \in Cycles, NoteAction(c) PROVE Hashed'
  BY <1>11 DEF NoteAction, TypeOK, Hashed, building, ghosts, Blob, NoBlob,
         Torn
<1>12. ASSUME NEW c \in Cycles, Unpublished(c) PROVE Hashed'
  BY <1>12 DEF Unpublished, TypeOK, Hashed, building, ghosts, Blob, NoBlob,
         Torn
<1>13. ASSUME NEW c \in Cycles, Fetch(c) PROVE Hashed'
  BY <1>13 DEF Fetch, TypeOK, Hashed, building, ghosts, Blob, NoBlob, Torn
<1>14. ASSUME NEW c \in Cycles, Base(c) PROVE Hashed'
  BY <1>14 DEF Base, TypeOK, Hashed, building, ghosts, Blob, NoBlob, Torn
<1>15. ASSUME NEW c \in Cycles, Hash(c) PROVE Hashed'
  BY <1>15 DEF Hash, Blob, TypeOK, Hashed, building, ghosts, Blob, NoBlob,
         Torn
<1>16. ASSUME NEW c \in Cycles, Push(c) PROVE Hashed'
  BY <1>16 DEF Push, Discard, FastForward, TypeOK, Hashed, building, ghosts,
         Blob, NoBlob, Torn
<1>17. CASE UNCHANGED vars
  BY <1>17 DEF vars, TypeOK, Hashed, building, ghosts, Blob, NoBlob, Torn
<1> QED BY <1>1, <1>2, <1>3, <1>4, <1>5, <1>6, <1>7, <1>8, <1>9, <1>10, <1>11,
           <1>12, <1>13, <1>14, <1>15, <1>16, <1>17 DEF Next, Step

LEMMA NextTypeOK == TypeOK /\ Hashed /\ [Next]_vars => TypeOK'
<1> SUFFICES ASSUME TypeOK, Hashed, [Next]_vars PROVE TypeOK'
  OBVIOUS
<1>1. CASE Midnight
  BY <1>1, MidnightTypeOK
<1>2. CASE OthersPush
  BY <1>2, OthersPushTypeOK
<1>3. ASSUME NEW c \in Cycles, Start(c) PROVE TypeOK'
  BY <1>3, StartTypeOK
<1>4. ASSUME NEW c \in Cycles, Kill(c) PROVE TypeOK'
  BY <1>4, KillTypeOK
<1>5. ASSUME NEW c \in Cycles, ScanFails(c) PROVE TypeOK'
  BY <1>5, ScanFailsTypeOK
<1>6. ASSUME NEW c \in Cycles, ScanWrites(c) PROVE TypeOK'
  BY <1>6, ScanWritesTypeOK
<1>7. ASSUME NEW c \in Cycles, ScanEnds(c) PROVE TypeOK'
  BY <1>7, ScanEndsTypeOK
<1>8. ASSUME NEW c \in Cycles, BeatFetch(c) PROVE TypeOK'
  BY <1>8, BeatFetchTypeOK
<1>9. ASSUME NEW c \in Cycles, BeatPush(c) PROVE TypeOK'
  BY <1>9, BeatPushTypeOK
<1>10. ASSUME NEW c \in Cycles, CountAction(c) PROVE TypeOK'
  BY <1>10, CountActionTypeOK
<1>11. ASSUME NEW c \in Cycles, NoteAction(c) PROVE TypeOK'
  BY <1>11, NoteActionTypeOK
<1>12. ASSUME NEW c \in Cycles, Unpublished(c) PROVE TypeOK'
  BY <1>12, UnpublishedTypeOK
<1>13. ASSUME NEW c \in Cycles, Fetch(c) PROVE TypeOK'
  BY <1>13, FetchTypeOK
<1>14. ASSUME NEW c \in Cycles, Base(c) PROVE TypeOK'
  BY <1>14, BaseTypeOK
<1>15. ASSUME NEW c \in Cycles, Hash(c) PROVE TypeOK'
  BY <1>15, HashTypeOK
<1>16. ASSUME NEW c \in Cycles, Push(c) PROVE TypeOK'
  BY <1>16, PushTypeOK
<1>17. CASE UNCHANGED vars
  BY <1>17 DEF vars, TypeOK, files, remote, building, ghosts
<1> QED BY <1>1, <1>2, <1>3, <1>4, <1>5, <1>6, <1>7, <1>8, <1>9, <1>10, <1>11,
           <1>12, <1>13, <1>14, <1>15, <1>16, <1>17 DEF Next, Step

\* Every variable of the cycle keeps to its type.
THEOREM TypeCorrect == Spec => []TypeOK
<1>1. Init => Hashed
  BY DEF Init, Hashed
<1> QED BY <1>1, InitTypeOK, NextTypeOK, NextHashed, PTL DEF Spec

-----------------------------------------------------------------------------
(* What is published *)

\* Nothing published or hashed is newer than the file, unless that is torn, and
\* a commit that could still be pushed holds no older a version than the tip.
OrderedTip ==
    /\ main.branch = "main" /\ beats.branch # "main"
    /\ main.state <= version /\ file <= version
    /\ file # Torn => main.state <= file
    /\ fetchHead.branch = "main" => fetchHead.seq <= main.seq

OrderedIn(c) ==
    /\ parent[c].branch = "main" => parent[c].seq <= main.seq
    /\ blob[c] <= version
    /\ file # Torn => blob[c] <= file
    /\ at[c] = "push" /\ parent[c] = main /\ blob[c] # Torn => main.state <= blob[c]

Ordered == OrderedTip /\ \A c \in Cycles : OrderedIn(c)

LEMMA InitOrdered == Init => Ordered
  BY DEF Init, Ordered, OrderedTip, OrderedIn, NoCommit, NoBlob, Torn

LEMMA Typed ==
    ASSUME TypeOK
    PROVE  /\ version \in Nat /\ file \in Int /\ file >= -1
           /\ main.state \in Int /\ main.seq \in Nat
           /\ fetchHead.seq \in Nat
           /\ at \in [Cycles -> Places] /\ blob \in [Cycles -> Int]
           /\ parent \in [Cycles -> Commits]
           /\ \A c \in Cycles : parent[c].seq \in Nat
  BY DEF TypeOK, Places, Commits, Torn, NoBlob

LEMMA NextOrdered == TypeOK /\ Ordered /\ [Next]_vars => Ordered'
<1> SUFFICES ASSUME TypeOK, Ordered, [Next]_vars PROVE Ordered'
  OBVIOUS
<1>1. CASE Midnight
  BY <1>1 DEF Midnight, Torn, NoBlob, NoCommit, files, remote, building,
         ghosts, Ordered, OrderedTip, OrderedIn, Blob, TypeOK, Commits
<1>2. CASE OthersPush
  <2>0. /\ main'.branch = "main" /\ main'.seq = main.seq + 1 /\ main'.state = main.state
        /\ UNCHANGED <<at, file, version, fetchHead, beats, parent, blob>>
    BY <1>2 DEF OthersPush, TypeOK, Commits, files, building, Ordered, OrderedTip
  <2>1. OrderedTip'
    BY <2>0, Typed DEF Ordered, OrderedTip, OrderedIn, Torn, NoBlob, NoCommit
  <2>2. ASSUME NEW d \in Cycles PROVE OrderedIn(d)'
    BY <2>0, Typed DEF Ordered, OrderedTip, OrderedIn, Torn, NoBlob, NoCommit
  <2> QED BY <2>1, <2>2 DEF Ordered
<1>3. ASSUME NEW c \in Cycles, Start(c) PROVE Ordered'
  BY <1>3 DEF Start, Goes, Counted, Torn, NoBlob, NoCommit, files, remote, building,
         ghosts, Ordered, OrderedTip, OrderedIn, Blob, TypeOK, Commits
<1>4. ASSUME NEW c \in Cycles, Kill(c) PROVE Ordered'
  <2>1. OrderedTip'
    BY <1>4, Typed DEF Kill, Discard, Torn, NoBlob, NoCommit, files, remote,
           building, ghosts, Ordered, OrderedTip, OrderedIn
  <2>2. ASSUME NEW d \in Cycles PROVE OrderedIn(d)'
    BY <1>4, Typed DEF Kill, Discard, Torn, NoBlob, NoCommit, files, remote,
           building, ghosts, Ordered, OrderedTip, OrderedIn
  <2> QED BY <2>1, <2>2 DEF Ordered
<1>5. ASSUME NEW c \in Cycles, ScanFails(c) PROVE Ordered'
  BY <1>5 DEF ScanFails, Torn, NoBlob, NoCommit, files, remote, building,
         ghosts, Ordered, OrderedTip, OrderedIn, Blob, TypeOK, Commits
<1>6. ASSUME NEW c \in Cycles, ScanWrites(c) PROVE Ordered'
  BY <1>6 DEF ScanWrites, Torn, NoBlob, NoCommit, files, remote, building,
         ghosts, Ordered, OrderedTip, OrderedIn, Blob, TypeOK, Commits
<1>7. ASSUME NEW c \in Cycles, ScanEnds(c) PROVE Ordered'
  <2>1. OrderedTip'
    BY <1>7, Typed DEF ScanEnds, Torn, NoBlob, NoCommit, files, remote,
           building, ghosts, Ordered, OrderedTip, OrderedIn
  <2>2. ASSUME NEW d \in Cycles PROVE OrderedIn(d)'
    BY <1>7, Typed DEF ScanEnds, Torn, NoBlob, NoCommit, files, remote,
           building, ghosts, Ordered, OrderedTip, OrderedIn
  <2> QED BY <2>1, <2>2 DEF Ordered
<1>8. ASSUME NEW c \in Cycles, BeatFetch(c) PROVE Ordered'
  <2>1. OrderedTip'
    BY <1>8, Typed DEF BeatFetch, BeatSent, BeatSkipped, AfterBeat, Torn, NoBlob, NoCommit, files, remote,
           building, ghosts, Ordered, OrderedTip, OrderedIn
  <2>2. ASSUME NEW d \in Cycles PROVE OrderedIn(d)'
    BY <1>8, Typed DEF BeatFetch, BeatSent, BeatSkipped, AfterBeat, Torn, NoBlob, NoCommit, files, remote,
           building, ghosts, Ordered, OrderedTip, OrderedIn
  <2> QED BY <2>1, <2>2 DEF Ordered
<1>9. ASSUME NEW c \in Cycles, BeatPush(c) PROVE Ordered'
  BY <1>9 DEF BeatPush, FastForward, AfterBeat, Torn, NoBlob, NoCommit, files,
         remote, building, ghosts, Ordered, OrderedTip, OrderedIn, Blob,
         TypeOK, Commits
<1>10. ASSUME NEW c \in Cycles, CountAction(c) PROVE Ordered'
  BY <1>10 DEF CountAction, Count, Torn, NoBlob, NoCommit, files, remote,
         building, ghosts, Ordered, OrderedTip, OrderedIn, Blob, TypeOK,
         Commits
<1>11. ASSUME NEW c \in Cycles, NoteAction(c) PROVE Ordered'
  BY <1>11 DEF NoteAction, Torn, NoBlob, NoCommit, files, remote, building,
         ghosts, Ordered, OrderedTip, OrderedIn, Blob, TypeOK, Commits
<1>12. ASSUME NEW c \in Cycles, Unpublished(c) PROVE Ordered'
  BY SMTT(30), <1>12 DEF Unpublished, Torn, NoBlob, NoCommit, files, remote, building,
         ghosts, Ordered, OrderedTip, OrderedIn, Blob, TypeOK, Commits
<1>13. ASSUME NEW c \in Cycles, Fetch(c) PROVE Ordered'
  BY SMTT(30), <1>13 DEF Fetch, Torn, NoBlob, NoCommit, files, remote, building, ghosts,
         Ordered, OrderedTip, OrderedIn, Blob, TypeOK, Commits
<1>14. ASSUME NEW c \in Cycles, Base(c) PROVE Ordered'
  BY <1>14 DEF Base, Torn, NoBlob, NoCommit, files, remote, building, ghosts,
         Ordered, OrderedTip, OrderedIn, Blob, TypeOK, Commits
<1>15. ASSUME NEW c \in Cycles, Hash(c) PROVE Ordered'
  <2>1. OrderedTip'
    BY <1>15, Typed DEF Hash, Blob, Torn, NoBlob, NoCommit, files, remote,
           building, ghosts, Ordered, OrderedTip, OrderedIn
  <2>2. ASSUME NEW d \in Cycles PROVE OrderedIn(d)'
    BY <1>15, Typed DEF Hash, Blob, Torn, NoBlob, NoCommit, files, remote,
           building, ghosts, Ordered, OrderedTip, OrderedIn
  <2> QED BY <2>1, <2>2 DEF Ordered
<1>16. ASSUME NEW c \in Cycles, Push(c) PROVE Ordered'
  <2>0. \/ UNCHANGED main
        \/ /\ main'.branch = "main" /\ main'.seq = main.seq + 1 /\ main'.state = blob[c]
           /\ parent[c] = main
    BY <1>16 DEF Push, FastForward
  <2>3. /\ at' = [at EXCEPT ![c] = "over"] /\ at[c] = "push"
        /\ parent' = [parent EXCEPT ![c] = NoCommit]
        /\ blob' = [blob EXCEPT ![c] = NoBlob]
        /\ UNCHANGED <<file, version, fetchHead, beats>>
    BY <1>16 DEF Push, Discard, files, ghosts
  <2>1. OrderedTip'
    BY <2>0, <2>3, Typed DEF Ordered, OrderedTip, OrderedIn, Torn, NoBlob,
           NoCommit
  <2>2. ASSUME NEW d \in Cycles PROVE OrderedIn(d)'
    BY <2>0, <2>3, Typed DEF Ordered, OrderedTip, OrderedIn, Torn, NoBlob,
           NoCommit
  <2> QED BY <2>1, <2>2 DEF Ordered
<1>17. CASE UNCHANGED vars
  BY <1>17 DEF vars, Torn, NoBlob, NoCommit, files, remote, building, ghosts,
         Ordered, OrderedTip, OrderedIn, Blob, TypeOK, Commits
<1> QED BY <1>1, <1>2, <1>3, <1>4, <1>5, <1>6, <1>7, <1>8, <1>9, <1>10, <1>11,
           <1>12, <1>13, <1>14, <1>15, <1>16, <1>17 DEF Next, Step

LEMMA NextOthersKept == TypeOK /\ OthersKept /\ [Next]_vars => OthersKept'
<1> SUFFICES ASSUME TypeOK, OthersKept, [Next]_vars PROVE OthersKept'
  OBVIOUS
<1>1. CASE Midnight
  BY <1>1 DEF Midnight, TypeOK, OthersKept, Commits, files, remote, building,
         ghosts
<1>2. CASE OthersPush
  BY <1>2 DEF OthersPush, TypeOK, OthersKept, Commits, files, remote,
         building, ghosts
<1>3. ASSUME NEW c \in Cycles, Start(c) PROVE OthersKept'
  BY <1>3 DEF Start, Goes, Counted, TypeOK, OthersKept, Commits, files, remote,
         building, ghosts
<1>4. ASSUME NEW c \in Cycles, Kill(c) PROVE OthersKept'
  BY <1>4 DEF Kill, Discard, TypeOK, OthersKept, Commits, files, remote,
         building, ghosts
<1>5. ASSUME NEW c \in Cycles, ScanFails(c) PROVE OthersKept'
  BY <1>5 DEF ScanFails, TypeOK, OthersKept, Commits, files, remote, building,
         ghosts
<1>6. ASSUME NEW c \in Cycles, ScanWrites(c) PROVE OthersKept'
  BY <1>6 DEF ScanWrites, TypeOK, OthersKept, Commits, files, remote,
         building, ghosts
<1>7. ASSUME NEW c \in Cycles, ScanEnds(c) PROVE OthersKept'
  BY <1>7 DEF ScanEnds, TypeOK, OthersKept, Commits, files, remote, building,
         ghosts
<1>8. ASSUME NEW c \in Cycles, BeatFetch(c) PROVE OthersKept'
  BY <1>8 DEF BeatFetch, BeatSent, BeatSkipped, AfterBeat, TypeOK, OthersKept, Commits, files, remote, building,
         ghosts
<1>9. ASSUME NEW c \in Cycles, BeatPush(c) PROVE OthersKept'
  BY <1>9 DEF BeatPush, FastForward, AfterBeat, TypeOK, OthersKept, Commits,
         files, remote, building, ghosts
<1>10. ASSUME NEW c \in Cycles, CountAction(c) PROVE OthersKept'
  BY <1>10 DEF CountAction, Count, TypeOK, OthersKept, Commits, files, remote,
         building, ghosts
<1>11. ASSUME NEW c \in Cycles, NoteAction(c) PROVE OthersKept'
  BY <1>11 DEF NoteAction, TypeOK, OthersKept, Commits, files, remote,
         building, ghosts
<1>12. ASSUME NEW c \in Cycles, Unpublished(c) PROVE OthersKept'
  BY <1>12 DEF Unpublished, TypeOK, OthersKept, Commits, files, remote,
         building, ghosts
<1>13. ASSUME NEW c \in Cycles, Fetch(c) PROVE OthersKept'
  BY <1>13 DEF Fetch, TypeOK, OthersKept, Commits, files, remote, building,
         ghosts
<1>14. ASSUME NEW c \in Cycles, Base(c) PROVE OthersKept'
  BY <1>14 DEF Base, TypeOK, OthersKept, Commits, files, remote, building,
         ghosts
<1>15. ASSUME NEW c \in Cycles, Hash(c) PROVE OthersKept'
  BY <1>15 DEF Hash, Blob, TypeOK, OthersKept, Commits, files, remote,
         building, ghosts
<1>16. ASSUME NEW c \in Cycles, Push(c) PROVE OthersKept'
  BY SMTT(30), <1>16 DEF Push, Discard, FastForward, TypeOK, OthersKept, Commits, files,
         remote, building, ghosts
<1>17. CASE UNCHANGED vars
  BY <1>17 DEF vars, TypeOK, OthersKept, Commits, files, remote, building,
         ghosts
<1> QED BY <1>1, <1>2, <1>3, <1>4, <1>5, <1>6, <1>7, <1>8, <1>9, <1>10, <1>11,
           <1>12, <1>13, <1>14, <1>15, <1>16, <1>17 DEF Next, Step

LEMMA TypedAndOrdered == Spec => [](TypeOK /\ Ordered)
<1>1. Init => Hashed
  BY DEF Init, Hashed
<1> QED BY <1>1, InitTypeOK, NextTypeOK, NextHashed, InitOrdered, NextOrdered, PTL DEF Spec

\* Nothing others pushed to main is reverted, however cycles overlap and share
\* their FETCH_HEAD (publish-state.sh publish).
THEOREM NothingReverted == Spec => []OthersKept
<1>1. Init => OthersKept
  BY DEF Init, OthersKept, NoCommit
<1> QED BY <1>1, TypeCorrect, NextOthersKept, PTL DEF Spec

\* The state main shows never goes back to an older version, whichever cycles
\* fetch, hash and push in whatever order (publish-state.sh publish).
THEOREM NeverGoesBack == Spec => PublishedNeverGoesBack
<1> DEFINE NotBack == main.state # Torn /\ main'.state # Torn => main'.state >= main.state
<1>1. ASSUME TypeOK, Ordered, [Next]_vars PROVE NotBack
  <2>0. main.state \in Int /\ (main.state = main.state => main.state >= main.state)
    BY <1>1 DEF TypeOK, Commits, Torn
  <2>1. ASSUME NEW c \in Cycles, Push(c) PROVE NotBack
    <3>1. \/ main' = main
          \/ at[c] = "push" /\ parent[c] = main /\ main'.state = blob[c]
      BY <2>1 DEF Push, FastForward
    <3> QED BY <1>1, <2>0, <3>1, Typed DEF Ordered, OrderedIn
  <2>2. CASE OthersPush
    <3>1. main'.state = main.state
      BY <1>1, <2>2 DEF OthersPush, TypeOK, Commits
    <3> QED BY <2>0, <3>1
  <2>3. ASSUME ~OthersPush, \A c \in Cycles : ~Push(c) PROVE main' = main
    BY <1>1, <2>3 DEF Next, Step, vars, Midnight, Start, Kill, ScanFails, ScanWrites,
       ScanEnds, BeatFetch, BeatSent, BeatSkipped, BeatPush, CountAction, NoteAction, Unpublished, Fetch, Base,
       Hash, remote, files, building, ghosts
  <2> QED BY <2>0, <2>1, <2>2, <2>3
<1>2. TypeOK /\ Ordered /\ [Next]_vars => [NotBack]_vars
  BY <1>1
<1> QED BY <1>2, TypedAndOrdered, PTL DEF Spec, PublishedNeverGoesBack

-----------------------------------------------------------------------------
(* What the heartbeat tells *)

Told ==
    /\ file <= version
    /\ \A c \in Cycles :
          /\ wrote[c] <= version
          /\ file # Torn => wrote[c] <= file
          /\ at[c] = "scan" => outcome[c] = "none" /\ wrote[c] = 0
          /\ at[c] = "write" => outcome[c] \in {"clean", "findings"} /\ wrote[c] = 0
          /\ outcome[c] = "none" => at[c] \in {"scan", "killed", "over"} /\ wrote[c] = 0
          /\ at[c] \notin {"scan", "write", "killed"} =>
                (outcome[c] \in {"clean", "findings"}) <=> (wrote[c] > 0)
          /\ at[c] \notin {"scan", "write", "killed", "beat"} /\ outcome[c] # "none" =>
                \/ beat[c] = Skipped
                \/ /\ beat[c].outcome = outcome[c]
                   /\ beat[c].state # Torn => beat[c].state >= wrote[c]

LEMMA InitTold == Init => Told
  BY DEF Init, Told, Torn

LEMMA NextTold == TypeOK /\ Told /\ [Next]_vars => Told'
<1> SUFFICES ASSUME TypeOK, Told, [Next]_vars PROVE Told'
  OBVIOUS
<1>1. CASE Midnight
  BY <1>1 DEF Midnight, TypeOK, Told, Outcomes, Torn, Idle, NoBeat, files,
         remote, building, ghosts
<1>2. CASE OthersPush
  BY <1>2 DEF OthersPush, TypeOK, Told, Outcomes, Torn, Idle, NoBeat, files,
         remote, building, ghosts
<1>3. ASSUME NEW c \in Cycles, Start(c) PROVE Told'
  BY SMTT(30), <1>3 DEF Start, Goes, Counted, TypeOK, Told, Outcomes, Torn, Idle, NoBeat,
         files, remote, building, ghosts
<1>4. ASSUME NEW c \in Cycles, Kill(c) PROVE Told'
  BY <1>4 DEF Kill, Discard, TypeOK, Told, Outcomes, Torn, Idle, NoBeat,
         files, remote, building, ghosts
<1>5. ASSUME NEW c \in Cycles, ScanFails(c) PROVE Told'
  BY <1>5 DEF ScanFails, TypeOK, Told, Outcomes, Torn, Idle, NoBeat, files,
         remote, building, ghosts
<1>6. ASSUME NEW c \in Cycles, ScanWrites(c) PROVE Told'
  BY SMTT(30), <1>6 DEF ScanWrites, TypeOK, Told, Outcomes, Torn, Idle, NoBeat, files,
         remote, building, ghosts
<1>7. ASSUME NEW c \in Cycles, ScanEnds(c) PROVE Told'
  BY SMTT(30), <1>7 DEF ScanEnds, TypeOK, Told, Outcomes, Torn, Idle, NoBeat, files,
         remote, building, ghosts
<1>8. ASSUME NEW c \in Cycles, BeatFetch(c) PROVE Told'
  <2>1. CASE BeatSent(c)
    BY SMTT(30), <1>8, <2>1 DEF BeatFetch, BeatSent, TypeOK, Told, Outcomes, Torn, Idle,
       files, remote, building, ghosts
  <2>2. CASE BeatSkipped(c)
    <3>1. AfterBeat(c) \in {"count", "fetch", "over"} /\ at[c] = "beat"
      BY <1>8 DEF AfterBeat, BeatFetch
    <3> QED BY SMTT(30), <1>8, <2>2, <3>1 DEF BeatFetch, BeatSkipped, TypeOK, Told, Idle,
               files, remote, building, ghosts
  <2> QED BY <1>8, <2>1, <2>2 DEF BeatFetch
<1>9. ASSUME NEW c \in Cycles, BeatPush(c) PROVE Told'
  BY <1>9 DEF BeatPush, FastForward, AfterBeat, TypeOK, Told, Outcomes, Torn,
         Idle, NoBeat, files, remote, building, ghosts
<1>10. ASSUME NEW c \in Cycles, CountAction(c) PROVE Told'
  BY <1>10 DEF CountAction, Count, TypeOK, Told, Outcomes, Torn, Idle, NoBeat,
         files, remote, building, ghosts
<1>11. ASSUME NEW c \in Cycles, NoteAction(c) PROVE Told'
  BY <1>11 DEF NoteAction, TypeOK, Told, Outcomes, Torn, Idle, NoBeat, files,
         remote, building, ghosts
<1>12. ASSUME NEW c \in Cycles, Unpublished(c) PROVE Told'
  BY <1>12 DEF Unpublished, TypeOK, Told, Outcomes, Torn, Idle, NoBeat, files,
         remote, building, ghosts
<1>13. ASSUME NEW c \in Cycles, Fetch(c) PROVE Told'
  BY <1>13 DEF Fetch, TypeOK, Told, Outcomes, Torn, Idle, NoBeat, files,
         remote, building, ghosts
<1>14. ASSUME NEW c \in Cycles, Base(c) PROVE Told'
  BY <1>14 DEF Base, TypeOK, Told, Outcomes, Torn, Idle, NoBeat, files,
         remote, building, ghosts
<1>15. ASSUME NEW c \in Cycles, Hash(c) PROVE Told'
  BY <1>15 DEF Hash, Blob, TypeOK, Told, Outcomes, Torn, Idle, NoBeat, files,
         remote, building, ghosts
<1>16. ASSUME NEW c \in Cycles, Push(c) PROVE Told'
  BY <1>16 DEF Push, Discard, FastForward, TypeOK, Told, Outcomes, Torn, Idle,
         NoBeat, files, remote, building, ghosts
<1>17. CASE UNCHANGED vars
  BY <1>17 DEF vars, TypeOK, Told, Outcomes, Torn, Idle, NoBeat, files,
         remote, building, ghosts
<1> QED BY <1>1, <1>2, <1>3, <1>4, <1>5, <1>6, <1>7, <1>8, <1>9, <1>10, <1>11,
           <1>12, <1>13, <1>14, <1>15, <1>16, <1>17 DEF Next, Step

\* A cycle that was not killed and knows what became of it hands that to the
\* heartbeat, with what its scan wrote, or what came later; one that ends without
\* an outcome wrote nothing (sentinel-cron.sh, sentinel-heartbeat.sh).
THEOREM HeartbeatComplete == Spec => []HeartbeatTellsAll
<1>1. TypeOK /\ Told => HeartbeatTellsAll
  BY DEF TypeOK, Told, HeartbeatTellsAll, Outcomes
<1> QED BY <1>1, TypeCorrect, InitTold, NextTold, PTL DEF Spec

-----------------------------------------------------------------------------
(* The daily cap *)

\* What the cap allows on day d, the action carried over midnight included.
Allowed(d) == MaxActions + (IF d > 0 THEN 1 ELSE 0)
Carried(d) == IF d > 0 THEN 1 ELSE 0
InLog(d) == IF log.day = d THEN log.count ELSE 0

\* Cycle c has acted and not yet read the log to count it.
Owes(c) == \/ at[c] = "count"
           \/ at[c] \in {"write", "beat", "beatPush"} /\ outcome[c] = "findings"

\* One cycle at a time; what is over is within the cap.
CapBase ==
    /\ \A c, d \in Cycles : at[c] \notin Idle /\ at[d] \notin Idle => c = d
    /\ \A d \in 0..MaxDay : /\ d < day => acted[d] <= Allowed(d)
                            /\ d > day => acted[d] = 0
    /\ log.day <= day /\ log.count <= MaxActions
    /\ (\A c \in Cycles : at[c] \notin {"scan", "note"} /\ ~Owes(c))
          => acted[day] <= InLog(day) + Carried(day)

\* What is under way will be: it was started on its day within the cap, and of
\* a cycle that began on an earlier day the action is the first of this one.
CapIn(c) ==
    /\ at[c] \notin Idle => log.day <= today[c] /\ today[c] <= day
    /\ at[c] = "scan" =>
          /\ InLog(today[c]) < MaxActions
          /\ acted[day] <= IF today[c] = day THEN InLog(day) + Carried(day) ELSE 0
    /\ Owes(c) =>
          /\ InLog(today[c]) < MaxActions
          /\ acted[day] <= IF today[c] = day THEN InLog(day) + 1 + Carried(day) ELSE 1
    /\ at[c] = "note" =>
          /\ noted[c] <= MaxActions
          /\ acted[day] <= IF today[c] = day THEN noted[c] + Carried(day) ELSE 1

Capped == ~disturbed => CapBase /\ \A c \in Cycles : CapIn(c)

LEMMA InitCapped == Init => Capped
  BY CycleAssumption DEF Init, Capped, CapBase, CapIn, InLog, Carried, Allowed, Owes, Idle, NoLog

LEMMA CapTyped ==
    ASSUME TypeOK
    PROVE  /\ day \in 0..MaxDay /\ log.day \in -1..MaxDay /\ log.count \in Nat
           /\ at \in [Cycles -> Places] /\ today \in [Cycles -> 0..MaxDay]
           /\ outcome \in [Cycles -> Outcomes]
           /\ noted \in [Cycles -> Nat] /\ acted \in [0..MaxDay -> Nat]
  BY DEF TypeOK, Places

LEMMA CapToday ==
    ASSUME TypeOK, CapBase, \A c \in Cycles : CapIn(c)
    PROVE  acted[day] <= Allowed(day)
<1> USE CycleAssumption, CapTyped DEF Carried, Allowed, InLog
<1>1. CASE \A c \in Cycles : at[c] \notin {"scan", "note"} /\ ~Owes(c)
  BY <1>1 DEF CapBase
<1>2. ASSUME NEW c \in Cycles, at[c] \in {"scan", "note"} \/ Owes(c)
      PROVE  acted[day] <= Allowed(day)
  <2>1. today[c] <= day /\ CapIn(c)
    BY <1>2 DEF CapIn, Owes, Idle
  <2>2. CASE at[c] = "scan"
    BY <2>1, <2>2 DEF CapIn
  <2>3. CASE at[c] = "note"
    BY <2>1, <2>3 DEF CapIn
  <2>4. CASE Owes(c)
    BY <2>1, <2>4 DEF CapIn
  <2> QED BY <1>2, <2>2, <2>3, <2>4
<1> QED BY <1>1, <1>2

LEMMA IdleCapped ==
    ASSUME NEW c \in Cycles, at'[c] \in Idle
    PROVE  CapIn(c)'
  BY DEF CapIn, Owes, Idle

LEMMA OthersIdle ==
    ASSUME CapBase, NEW c \in Cycles, at[c] \notin Idle, NEW d \in Cycles, d # c
    PROVE  at[d] \in Idle
  BY DEF CapBase

LEMMA NextCapped == TypeOK /\ Capped /\ [Next]_vars => Capped'
<1> SUFFICES ASSUME TypeOK, Capped, [Next]_vars PROVE Capped'
  OBVIOUS
<1>1. CASE Midnight
  <2>1. ASSUME ~disturbed' PROVE CapBase'
    <3>1. /\ day' = day + 1 /\ day + 1 \in 0..MaxDay /\ acted[day + 1] = 0
          /\ UNCHANGED <<at, today, outcome, noted, log, acted>>
      BY <1>1, <2>1, CapTyped, CycleAssumption DEF Midnight, files, ghosts, Capped, CapBase
    <3>2. CapBase /\ acted[day] <= Allowed(day)
      BY <1>1, <2>1, CapToday DEF Capped, Midnight, ghosts
    <3>3. ASSUME NEW d \in 0..MaxDay
          PROVE  (d < day' => acted'[d] <= Allowed(d)) /\ (d > day' => acted'[d] = 0)
      BY <3>1, <3>2, CapTyped DEF CapBase
    <3> QED BY <3>1, <3>2, <3>3, CapTyped DEF CapBase, Carried, InLog, Owes, Allowed
  <2>2. ASSUME ~disturbed', NEW d \in Cycles PROVE CapIn(d)'
    <3>1. /\ day' = day + 1 /\ day + 1 \in 0..MaxDay /\ acted[day + 1] = 0
          /\ UNCHANGED <<at, today, outcome, noted, log, acted>> /\ CapIn(d)
      BY <1>1, <2>2, CapTyped, CycleAssumption DEF Midnight, files, ghosts, Capped, CapBase
    <3> QED BY <3>1, CapTyped DEF CapIn, InLog, Owes, Carried
  <2> QED BY <2>1, <2>2 DEF Capped
<1>2. CASE OthersPush
  <2>1. ASSUME ~disturbed' PROVE CapBase'
    BY <1>2, <2>1, CapTyped, CycleAssumption DEF OthersPush, files, remote,
           building, ghosts, NoLog, Capped, CapBase, CapIn, InLog, Carried,
           Allowed, Owes, Idle
  <2>2. ASSUME ~disturbed', NEW d \in Cycles PROVE CapIn(d)'
    BY <1>2, <2>2, CapTyped, CycleAssumption DEF OthersPush, files, remote,
           building, ghosts, NoLog, Capped, CapBase, CapIn, InLog, Carried,
           Allowed, Owes, Idle
  <2> QED BY <2>1, <2>2 DEF Capped
<1>3. ASSUME NEW c \in Cycles, Start(c) PROVE Capped'
  <2>1. ASSUME ~disturbed' PROVE CapBase'
    BY <1>3, <2>1, CapTyped, CycleAssumption DEF Start, Goes, Counted, files,
           remote, building, ghosts, NoLog, Capped, CapBase, CapIn, InLog,
           Carried, Allowed, Owes, Idle
  <2>2. ASSUME ~disturbed', NEW d \in Cycles PROVE CapIn(d)'
    <3>0. \A e \in Cycles : at[e] \in Idle
      BY <1>3, <2>2 DEF Start
    <3>1. CASE d # c
      <4>1. at'[d] \in Idle
        BY <1>3, <3>0, <3>1, CapTyped DEF Start, Goes
      <4> QED BY <4>1, IdleCapped
    <3>2. CASE d = c
      <4>1. acted[day] <= InLog(day) + Carried(day) /\ log.day <= day
        BY <1>3, <2>2, <3>0 DEF Start, Goes, Capped, CapBase, Owes, Idle
      <4>2. /\ today'[c] = day /\ UNCHANGED <<day, log, acted>>
            /\ at'[c] \in {"scan", "beat", "over"} /\ (at'[c] = "scan" => outcome'[c] = "none")
            /\ outcome'[c] # "findings" /\ (at'[c] = "scan" => Counted < MaxActions)
        BY <1>3, CapTyped DEF Start, Goes, files
      <4> QED BY <3>2, <4>1, <4>2, CapTyped DEF CapIn, InLog, Owes, Counted
    <3> QED BY <3>1, <3>2
  <2> QED BY <2>1, <2>2 DEF Capped
<1>4. ASSUME NEW c \in Cycles, Kill(c) PROVE Capped'
  <2>1. ASSUME ~disturbed' PROVE CapBase'
    BY <1>4, <2>1, CapTyped, CycleAssumption DEF Kill, Discard, files, remote,
           building, ghosts, NoLog, Capped, CapBase, CapIn, InLog, Carried,
           Allowed, Owes, Idle
  <2>2. ASSUME ~disturbed', NEW d \in Cycles PROVE CapIn(d)'
    BY <1>4, <2>2, CapTyped, CycleAssumption DEF Kill, Discard, files, remote,
           building, ghosts, NoLog, Capped, CapBase, CapIn, InLog, Carried,
           Allowed, Owes, Idle
  <2> QED BY <2>1, <2>2 DEF Capped
<1>5. ASSUME NEW c \in Cycles, ScanFails(c) PROVE Capped'
  <2>1. ASSUME ~disturbed' PROVE CapBase'
    BY <1>5, <2>1, CapTyped, CycleAssumption DEF ScanFails, files, remote,
           building, ghosts, NoLog, Capped, CapBase, CapIn, InLog, Carried,
           Allowed, Owes, Idle
  <2>2. ASSUME ~disturbed', NEW d \in Cycles PROVE CapIn(d)'
    BY <1>5, <2>2, CapTyped, CycleAssumption DEF ScanFails, files, remote,
           building, ghosts, NoLog, Capped, CapBase, CapIn, InLog, Carried,
           Allowed, Owes, Idle
  <2> QED BY <2>1, <2>2 DEF Capped
<1>6. ASSUME NEW c \in Cycles, ScanWrites(c) PROVE Capped'
  <2>1. ASSUME ~disturbed' PROVE CapBase'
    <3>1. /\ at[c] = "scan" /\ CapIn(c) /\ CapBase
          /\ at' = [at EXCEPT ![c] = "write"] /\ UNCHANGED <<day, today, log>>
      BY <1>6, <2>1 DEF ScanWrites, Capped
    <3>2. CASE outcome' = [outcome EXCEPT ![c] = "clean"] /\ UNCHANGED acted
      BY <3>1, <3>2, CapTyped DEF CapBase, CapIn, InLog, Carried, Owes, Idle
    <3>3. CASE /\ outcome' = [outcome EXCEPT ![c] = "findings"]
               /\ acted' = [acted EXCEPT ![day] = @ + 1]
      <4>1. Owes(c)'
        BY <3>1, <3>3, CapTyped DEF Owes
      <4>2. \A d \in 0..MaxDay : d # day => acted'[d] = acted[d]
        BY <3>3, CapTyped
      <4> QED BY <3>1, <4>1, <4>2, CapTyped DEF CapBase, Idle, Allowed
    <3> QED BY <1>6, <2>1, <3>2, <3>3 DEF ScanWrites
  <2>2. ASSUME ~disturbed', NEW d \in Cycles PROVE CapIn(d)'
    <3>1. CASE d # c
      <4>1. at'[d] \in Idle
        BY <1>6, <2>2, <3>1, OthersIdle, CapTyped DEF ScanWrites, Capped, Idle
      <4> QED BY <4>1, IdleCapped
    <3>2. CASE d = c
      <4>1. /\ at[c] = "scan" /\ CapIn(c)
            /\ at' = [at EXCEPT ![c] = "write"] /\ UNCHANGED <<day, today, log>>
        BY <1>6, <2>2 DEF ScanWrites, Capped
      <4>2. acted'[day] = acted[day] \/ acted'[day] = acted[day] + 1
        BY <1>6, CapTyped DEF ScanWrites
      <4> QED BY <3>2, <4>1, <4>2, CapTyped DEF CapIn, InLog, Carried, Owes, Idle
    <3> QED BY <3>1, <3>2
  <2> QED BY <2>1, <2>2 DEF Capped
<1>7. ASSUME NEW c \in Cycles, ScanEnds(c) PROVE Capped'
  <2>1. ASSUME ~disturbed' PROVE CapBase'
    BY <1>7, <2>1, CapTyped, CycleAssumption DEF ScanEnds, files, remote,
           building, ghosts, NoLog, Capped, CapBase, CapIn, InLog, Carried,
           Allowed, Owes, Idle
  <2>2. ASSUME ~disturbed', NEW d \in Cycles PROVE CapIn(d)'
    BY <1>7, <2>2, CapTyped, CycleAssumption DEF ScanEnds, files, remote,
           building, ghosts, NoLog, Capped, CapBase, CapIn, InLog, Carried,
           Allowed, Owes, Idle
  <2> QED BY <2>1, <2>2 DEF Capped
<1>8. ASSUME NEW c \in Cycles, BeatFetch(c) PROVE Capped'
  <2>1. ASSUME ~disturbed' PROVE CapBase'
    BY <1>8, <2>1, CapTyped, CycleAssumption DEF BeatFetch, BeatSent, BeatSkipped, AfterBeat, files, remote,
           building, ghosts, NoLog, Capped, CapBase, CapIn, InLog, Carried,
           Allowed, Owes, Idle
  <2>2. ASSUME ~disturbed', NEW d \in Cycles PROVE CapIn(d)'
    BY <1>8, <2>2, CapTyped, CycleAssumption DEF BeatFetch, BeatSent, BeatSkipped, AfterBeat, files, remote,
           building, ghosts, NoLog, Capped, CapBase, CapIn, InLog, Carried,
           Allowed, Owes, Idle
  <2> QED BY <2>1, <2>2 DEF Capped
<1>9. ASSUME NEW c \in Cycles, BeatPush(c) PROVE Capped'
  <2>1. ASSUME ~disturbed' PROVE CapBase'
    BY <1>9, <2>1, CapTyped, CycleAssumption DEF BeatPush, AfterBeat, files,
           remote, building, ghosts, NoLog, Capped, CapBase, CapIn, InLog,
           Carried, Allowed, Owes, Idle
  <2>2. ASSUME ~disturbed', NEW d \in Cycles PROVE CapIn(d)'
    BY <1>9, <2>2, CapTyped, CycleAssumption DEF BeatPush, AfterBeat, files,
           remote, building, ghosts, NoLog, Capped, CapBase, CapIn, InLog,
           Carried, Allowed, Owes, Idle
  <2> QED BY <2>1, <2>2 DEF Capped
<1>10. ASSUME NEW c \in Cycles, CountAction(c) PROVE Capped'
  <2>1. ASSUME ~disturbed' PROVE CapBase'
    <3>1. /\ at[c] = "count" /\ CapBase
          /\ at' = [at EXCEPT ![c] = "note"] /\ log' = NoLog /\ UNCHANGED <<day, acted>>
      BY <1>10, <2>1 DEF CountAction, Capped, ghosts
    <3> QED BY SMTT(30), <3>1, CapTyped, CycleAssumption DEF CapBase, NoLog, Idle, Allowed
  <2>2. ASSUME ~disturbed', NEW d \in Cycles PROVE CapIn(d)'
    <3>1. CASE d # c
      <4>1. at'[d] \in Idle
        BY <1>10, <2>2, <3>1, OthersIdle, CapTyped DEF CountAction, Capped, Idle, ghosts
      <4> QED BY <4>1, IdleCapped
    <3>2. CASE d = c
      <4>1. /\ at[c] = "count" /\ CapIn(c)
            /\ at'[c] = "note" /\ log' = NoLog /\ UNCHANGED <<day, today, acted>>
            /\ noted'[c] = Count(c)
        BY <1>10, <2>2, CapTyped DEF CountAction, Capped, ghosts
      <4>2. /\ log.day <= today[c] /\ today[c] <= day /\ InLog(today[c]) < MaxActions
            /\ acted[day] <= IF today[c] = day THEN InLog(day) + 1 + Carried(day) ELSE 1
        BY <4>1 DEF CapIn, Owes, Idle
      <4>3. Count(c) = InLog(today[c]) + 1
        BY CapTyped DEF Count, InLog
      <4> QED BY <3>2, <4>1, <4>2, <4>3, CapTyped, CycleAssumption DEF CapIn, Carried, Owes, NoLog, InLog
    <3> QED BY <3>1, <3>2
  <2> QED BY <2>1, <2>2 DEF Capped
<1>11. ASSUME NEW c \in Cycles, NoteAction(c) PROVE Capped'
  <2>1. ASSUME ~disturbed' PROVE CapBase'
    BY SMTT(30), <1>11, <2>1, CapTyped, CycleAssumption DEF NoteAction, files, remote,
           building, ghosts, NoLog, Capped, CapBase, CapIn, InLog, Carried,
           Allowed, Owes, Idle
  <2>2. ASSUME ~disturbed', NEW d \in Cycles PROVE CapIn(d)'
    <3>1. CASE d # c
      <4>1. at'[d] \in Idle
        BY <1>11, <2>2, <3>1, OthersIdle, CapTyped DEF NoteAction, Capped, Idle, ghosts
      <4> QED BY <4>1, IdleCapped
    <3>2. CASE d = c
      <4>1. /\ at[c] = "note" /\ CapIn(c)
            /\ at'[c] = "fetch" /\ log'.day = today[c] /\ UNCHANGED <<day, today>>
        BY <1>11, <2>2, CapTyped DEF NoteAction, Capped, ghosts
      <4> QED BY <3>2, <4>1, CapTyped DEF CapIn, Owes, Idle
    <3> QED BY <3>1, <3>2
  <2> QED BY <2>1, <2>2 DEF Capped
<1>12. ASSUME NEW c \in Cycles, Unpublished(c) PROVE Capped'
  <2>1. ASSUME ~disturbed' PROVE CapBase'
    BY <1>12, <2>1, CapTyped, CycleAssumption DEF Unpublished, files, remote,
           building, ghosts, NoLog, Capped, CapBase, CapIn, InLog, Carried,
           Allowed, Owes, Idle
  <2>2. ASSUME ~disturbed', NEW d \in Cycles PROVE CapIn(d)'
    BY <1>12, <2>2, CapTyped, CycleAssumption DEF Unpublished, files, remote,
           building, ghosts, NoLog, Capped, CapBase, CapIn, InLog, Carried,
           Allowed, Owes, Idle
  <2> QED BY <2>1, <2>2 DEF Capped
<1>13. ASSUME NEW c \in Cycles, Fetch(c) PROVE Capped'
  <2>1. ASSUME ~disturbed' PROVE CapBase'
    BY <1>13, <2>1, CapTyped, CycleAssumption DEF Fetch, files, remote,
           building, ghosts, NoLog, Capped, CapBase, CapIn, InLog, Carried,
           Allowed, Owes, Idle
  <2>2. ASSUME ~disturbed', NEW d \in Cycles PROVE CapIn(d)'
    BY <1>13, <2>2, CapTyped, CycleAssumption DEF Fetch, files, remote,
           building, ghosts, NoLog, Capped, CapBase, CapIn, InLog, Carried,
           Allowed, Owes, Idle
  <2> QED BY <2>1, <2>2 DEF Capped
<1>14. ASSUME NEW c \in Cycles, Base(c) PROVE Capped'
  <2>1. ASSUME ~disturbed' PROVE CapBase'
    BY <1>14, <2>1, CapTyped, CycleAssumption DEF Base, files, remote,
           building, ghosts, NoLog, Capped, CapBase, CapIn, InLog, Carried,
           Allowed, Owes, Idle
  <2>2. ASSUME ~disturbed', NEW d \in Cycles PROVE CapIn(d)'
    BY <1>14, <2>2, CapTyped, CycleAssumption DEF Base, files, remote,
           building, ghosts, NoLog, Capped, CapBase, CapIn, InLog, Carried,
           Allowed, Owes, Idle
  <2> QED BY <2>1, <2>2 DEF Capped
<1>15. ASSUME NEW c \in Cycles, Hash(c) PROVE Capped'
  <2>1. ASSUME ~disturbed' PROVE CapBase'
    BY <1>15, <2>1, CapTyped, CycleAssumption DEF Hash, Blob, files, remote,
           building, ghosts, NoLog, Capped, CapBase, CapIn, InLog, Carried,
           Allowed, Owes, Idle
  <2>2. ASSUME ~disturbed', NEW d \in Cycles PROVE CapIn(d)'
    BY <1>15, <2>2, CapTyped, CycleAssumption DEF Hash, Blob, files, remote,
           building, ghosts, NoLog, Capped, CapBase, CapIn, InLog, Carried,
           Allowed, Owes, Idle
  <2> QED BY <2>1, <2>2 DEF Capped
<1>16. ASSUME NEW c \in Cycles, Push(c) PROVE Capped'
  <2>1. ASSUME ~disturbed' PROVE CapBase'
    BY <1>16, <2>1, CapTyped, CycleAssumption DEF Push, Discard, files, remote,
           building, ghosts, NoLog, Capped, CapBase, CapIn, InLog, Carried,
           Allowed, Owes, Idle
  <2>2. ASSUME ~disturbed', NEW d \in Cycles PROVE CapIn(d)'
    BY <1>16, <2>2, CapTyped, CycleAssumption DEF Push, Discard, files, remote,
           building, ghosts, NoLog, Capped, CapBase, CapIn, InLog, Carried,
           Allowed, Owes, Idle
  <2> QED BY <2>1, <2>2 DEF Capped
<1>17. CASE UNCHANGED vars
  BY <1>17 DEF vars, Capped, CapBase, CapIn, InLog, Carried, Allowed, Owes,
         Idle, files, remote, building, ghosts
<1> QED BY <1>1, <1>2, <1>3, <1>4, <1>5, <1>6, <1>7, <1>8, <1>9, <1>10, <1>11,
           <1>12, <1>13, <1>14, <1>15, <1>16, <1>17 DEF Next, Step

\* No day's cycles act more often than the cap and the one action a jitter may
\* carry over midnight, while cycles come one at a time and none fails or is
\* killed (sentinel-cron.sh).
THEOREM CapKept == Spec => []CapHolds
<1>1. ASSUME TypeOK, Capped PROVE CapHolds
  <2>1. ASSUME ~disturbed, NEW d \in 0..MaxDay PROVE acted[d] <= Allowed(d)
    <3>1. CapBase /\ acted[day] <= Allowed(day)
      BY <1>1, <2>1, CapToday DEF Capped
    <3> QED BY SMTT(30), <1>1, <3>1, CapTyped, CycleAssumption DEF CapBase, Allowed
  <2> QED BY <2>1 DEF CapHolds, Allowed
<1> QED BY <1>1, TypeCorrect, InitCapped, NextCapped, PTL DEF Spec

=============================================================================
