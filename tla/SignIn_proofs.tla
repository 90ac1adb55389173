---------------------------- MODULE SignIn_proofs ----------------------------
(***************************************************************************)
(* Proofs about sign-in, for any number of nonces, requests and instances. *)
(***************************************************************************)
EXTENDS SignIn, TLAPS

USE SignInAssumption

LEMMA UnsentTyped == Unsent \in RequestStates
  BY DEF Unsent, RequestStates, Answers

LEMMA AnsweredTyped ==
    ASSUME NEW p \in RequestStates, NEW a \in Answers
    PROVE  [p EXCEPT !.pc = "answered", !.answer = a] \in RequestStates
  BY DEF RequestStates

LEMMA InitTyped == Init => TypeOK
  BY UnsentTyped DEF Init, TypeOK

\* A step that replaces one request and leaves the rest alone.
LEMMA RequestTyped ==
    ASSUME TypeOK, NEW q \in Requests, NEW p \in RequestStates,
           requests' = [requests EXCEPT ![q] = p],
           UNCHANGED <<env, now, expiry, signed>>,
           kv' \subseteq Nonces, seen' \in [Instances -> SUBSET Nonces]
    PROVE  TypeOK'
  BY DEF TypeOK

LEMMA SettleTyped == ASSUME TypeOK, NEW q \in Requests, Settle(q) PROVE TypeOK'
<1>0. /\ requests \in [Requests -> RequestStates] /\ requests[q] \in RequestStates
      /\ requests[q].nonce \in Nonces /\ requests[q].inst \in Instances
      /\ now \in 0..MaxTime /\ kv \subseteq Nonces /\ seen \in [Instances -> SUBSET Nonces]
  BY DEF TypeOK, RequestStates
<1>1. ASSUME NEW a \in Answers, Answered(q, a), UNCHANGED <<env, now, expiry, signed, kv, seen>>
      PROVE  TypeOK'
  <2> DEFINE p == [requests[q] EXCEPT !.pc = "answered", !.answer = a]
  <2>1. p \in RequestStates
    BY <1>0, AnsweredTyped
  <2>2. requests' = [requests EXCEPT ![q] = p]
    BY <1>0, <1>1 DEF Answered
  <2> HIDE DEF p
  <2> QED BY <1>0, <1>1, <2>1, <2>2, RequestTyped
<1>2. CASE SignatureInvalid(q)
  BY <1>1, <1>2 DEF SignatureInvalid, Answers
<1>3. CASE ClaimInMemory(q)
  <2> DEFINE free == requests[q].nonce \notin Remembered(requests[q].inst)
             p == [requests[q] EXCEPT !.pc = "answered", !.took = free, !.at = now,
                        !.answer = IF free THEN "ok" ELSE "nonce_already_used"]
  <2>1. free \in BOOLEAN
    OBVIOUS
  <2>2. requests' = [requests EXCEPT ![q] = p]
    BY <1>3 DEF ClaimInMemory
  <2> HIDE DEF free
  <2>3. p \in RequestStates
    BY <1>0, <2>1 DEF RequestStates, Answers
  <2>4. seen' \in [Instances -> SUBSET Nonces]
    BY <1>0, <1>3 DEF ClaimInMemory, Remembered
  <2> HIDE DEF p
  <2> QED BY <1>0, <1>3, <2>2, <2>3, <2>4, RequestTyped DEF ClaimInMemory
<1>4. CASE SendClaim(q)
  <2> DEFINE p == [requests[q] EXCEPT !.pc = "claiming", !.posted = TRUE]
  <2>1. p \in RequestStates
    BY <1>0 DEF RequestStates
  <2>2. requests' = [requests EXCEPT ![q] = p]
    BY <1>0, <1>4 DEF SendClaim
  <2> HIDE DEF p
  <2> QED BY <1>0, <1>4, <2>1, <2>2, RequestTyped DEF SendClaim
<1>5. CASE ServeClaim(q)
  <2> DEFINE free == requests[q].nonce \notin kv
             pc == IF requests[q].pc = "claiming" THEN "replying" ELSE requests[q].pc
             p == [requests[q] EXCEPT !.posted = FALSE, !.took = free, !.at = now, !.pc = pc]
  <2>1. free \in BOOLEAN
    OBVIOUS
  <2>2. requests' = [requests EXCEPT ![q] = p]
    BY <1>5 DEF ServeClaim
  <2> HIDE DEF free
  <2>3. p \in RequestStates
    BY <1>0, <2>1 DEF RequestStates
  <2> HIDE DEF p
  <2>4. kv' \subseteq Nonces
    BY <1>0, <1>5 DEF ServeClaim
  <2> QED BY <1>0, <1>5, <2>2, <2>3, <2>4, RequestTyped DEF ServeClaim
<1>6. CASE ClaimReply(q)
  <2>1. PICK a \in Answers : Answered(q, a) /\ UNCHANGED <<env, now, expiry, signed, kv, seen>>
    BY <1>6 DEF ClaimReply, Answers
  <2> QED BY <1>1, <2>1
<1>7. CASE ClaimFails(q)
  BY <1>1, <1>7 DEF ClaimFails, Answers
<1> QED BY <1>2, <1>3, <1>4, <1>5, <1>6, <1>7 DEF Settle

LEMMA RejectTyped == ASSUME TypeOK, NEW q \in Requests, Reject(q) PROVE TypeOK'
<1> DEFINE p == [requests[q] EXCEPT !.pc = "answered", !.answer = "malformed"]
<1>1. p \in RequestStates
  BY AnsweredTyped DEF TypeOK, Answers
<1>2. requests' = [requests EXCEPT ![q] = p]
  BY DEF Reject, Answered, TypeOK
<1> HIDE DEF p
<1> QED BY <1>1, <1>2, RequestTyped DEF Reject, TypeOK

LEMMA NextTyped == TypeOK /\ [Next]_vars => TypeOK'
<1> SUFFICES ASSUME TypeOK, [Next]_vars PROVE TypeOK'
  OBVIOUS
<1>1. CASE Tick
  BY <1>1 DEF Tick, TypeOK
<1>2. ASSUME NEW n \in Nonces, NEW i \in Instances, IssueNonce(n, i) PROVE TypeOK'
  <2>1. expiry' \in [Nonces -> 0..(MaxTime + TTL)]
    BY <1>2 DEF IssueNonce, TypeOK
  <2>2. signed' \in [Instances -> SUBSET Nonces]
    BY <1>2 DEF IssueNonce, TypeOK
  <2> QED BY <1>2, <2>1, <2>2 DEF IssueNonce, TypeOK
<1>3. ASSUME NEW q \in Requests, NEW n \in Nonces, NEW i \in Instances,
             NEW valid \in BOOLEAN, Submit(q, n, i, valid)
      PROVE  TypeOK'
  <2> DEFINE error == NonceError(n, i)
             pc == IF error = "none" THEN "verifying" ELSE "answered"
             p == [requests[q] EXCEPT !.nonce = n, !.inst = i, !.valid = valid,
                                      !.answer = error, !.pc = pc]
  <2>1. requests' = [requests EXCEPT ![q] = p]
    BY <1>3 DEF Submit
  <2>2. error \in Answers
    BY DEF NonceError, Answers
  <2>3. pc \in {"verifying", "answered"}
    OBVIOUS
  <2> HIDE DEF error, pc
  <2>4. p \in RequestStates
    BY ZenonT(30), <2>2, <2>3 DEF TypeOK, RequestStates
  <2> HIDE DEF p
  <2> QED BY <1>3, <2>1, <2>4, RequestTyped DEF Submit, TypeOK
<1>4. ASSUME NEW q \in Requests, Settle(q) PROVE TypeOK'
  BY <1>4, SettleTyped
<1>5. ASSUME NEW i \in Instances, Recycle(i) PROVE TypeOK'
  <2>1. requests' \in [Requests -> RequestStates]
    BY <1>5, AnsweredTyped DEF Recycle, TypeOK, Answers
  <2> QED BY <1>5, <2>1 DEF Recycle, TypeOK
<1>6. CASE UNCHANGED vars
  BY <1>6 DEF vars, TypeOK
<1>7. ASSUME NEW q \in Requests, Reject(q) PROVE TypeOK'
  BY <1>7, RejectTyped
<1> QED BY <1>1, <1>2, <1>3, <1>4, <1>5, <1>6, <1>7 DEF Next

\* Every variable keeps to its type.
THEOREM TypeCorrect == Spec => []TypeOK
  BY InitTyped, NextTyped, PTL DEF Spec

-----------------------------------------------------------------------------
(***************************************************************************)
(* OneWinnerInTime, where a nonce has one store to be claimed in: KV, or   *)
(* the memory of the only instance that accepts it.  The invariant: a      *)
(* nonce that was taken is in every store that could still be asked for    *)
(* it, until it expires.                                                   *)
(***************************************************************************)

RequestInv(p) ==
    /\ p.answer = "ok" => p.took
    /\ p.pc = "unsent" \/ p.answer = "malformed" => ~p.took /\ ~p.posted
    /\ p.pc = "unsent" \/ p.answer = "malformed" \/ Issued(p.nonce)
    /\ p.answer = "malformed" => p.pc \in {"unsent", "answered"}
    /\ p.pc = "verifying" => ~p.posted
    /\ p.posted => p.answer # "ok"
    /\ p.pc \in {"claiming", "replying"} => env.store = "kv"
    /\ p.posted => env.store = "kv" /\ p.pc # "replying"
    /\ p.pc = "verifying" => p.answer # "ok"
    /\ env.store = "memory" /\ p.pc = "verifying" => p.nonce \in signed[p.inst]

\* The store remembers p's nonce, if p took it and it can still be submitted.
Remembers(p) ==
    p.took /\ ~Expired(p.nonce) =>
        IF env.store = "kv" THEN p.nonce \in kv
        ELSE \A i \in Instances : p.nonce \in signed[i] => p.nonce \in seen[i]

\* Without KV and without a shared secret, one instance knows the secret.
SecretInv ==
    env.store = "memory" =>
        \A i, j \in Instances : \A n \in Nonces :
            /\ n \in signed[i] => Issued(n)
            /\ n \in signed[i] /\ n \in signed[j] => i = j

Late(p) == p.at >= expiry[p.nonce]

TakenOnce ==
    \A p, q \in Requests :
        p # q /\ SameNonce(p, q) /\ requests[p].took /\ requests[q].took
            => Late(requests[p]) \/ Late(requests[q])

WinnerInv ==
    /\ TypeOK /\ SecretInv /\ TakenOnce
    /\ \A q \in Requests : RequestInv(requests[q]) /\ Remembers(requests[q])

\* A step of request q that takes nothing.
LEMMA NothingTaken ==
    ASSUME WinnerInv, TypeOK', NEW q \in Requests, NEW p \in RequestStates,
           requests' = [requests EXCEPT ![q] = p],
           RequestInv(p), ~p.took \/ (requests[q].took /\ p.nonce = requests[q].nonce
                                       /\ p.at = requests[q].at),
           UNCHANGED <<env, now, expiry, signed>>,
           kv \subseteq kv',
           \A i \in Instances : \A n \in seen[i] : ~Expired(n) => n \in seen'[i]
    PROVE  WinnerInv'
<1>1. \A o \in Requests : requests'[o] = IF o = q THEN p ELSE requests[o]
  BY DEF WinnerInv, TypeOK
<1>2. SecretInv'
  BY DEF WinnerInv, SecretInv, Issued
<1>3. TakenOnce'
  BY <1>1 DEF WinnerInv, TakenOnce, SameNonce, Late
<1>4. ASSUME NEW o \in Requests PROVE RequestInv(requests[o])' /\ Remembers(requests[o])'
  <2>1. RequestInv(requests'[o])
    BY <1>1 DEF WinnerInv
  <2>2. Remembers(requests'[o])
    BY <1>1 DEF WinnerInv, Remembers
  <2> QED BY <2>1, <2>2 DEF RequestInv, Remembers, Issued, Expired
<1> QED BY <1>2, <1>3, <1>4 DEF WinnerInv

\* Request q is given its nonce, which no one in time had taken.
LEMMA NonceTaken ==
    ASSUME WinnerInv, TypeOK', NEW q \in Requests, NEW p \in RequestStates,
           requests' = [requests EXCEPT ![q] = p], RequestInv(p),
           p.nonce = requests[q].nonce, p.at = now,
           \A o \in Requests : o # q /\ SameNonce(o, q) /\ requests[o].took => Expired(p.nonce),
           UNCHANGED <<env, now, expiry, signed>>,
           kv \subseteq kv',
           \A i \in Instances : \A n \in seen[i] : ~Expired(n) => n \in seen'[i],
           ~Expired(p.nonce) =>
              IF env.store = "kv" THEN p.nonce \in kv'
              ELSE \A i \in Instances : p.nonce \in signed[i] => p.nonce \in seen'[i]
    PROVE  WinnerInv'
<1>1. \A o \in Requests : requests'[o] = IF o = q THEN p ELSE requests[o]
  BY DEF WinnerInv, TypeOK
<1>2. SecretInv'
  BY DEF WinnerInv, SecretInv, Issued
<1>3. TakenOnce'
  <2> SUFFICES ASSUME NEW o \in Requests, NEW s \in Requests, o # s, SameNonce(o, s)',
                      requests'[o].took, requests'[s].took
               PROVE  Late(requests[o])' \/ Late(requests[s])'
    BY DEF TakenOnce
  <2>1. CASE o # q /\ s # q
    BY <1>1, <2>1 DEF WinnerInv, TakenOnce, SameNonce, Late
  <2>2. CASE o = q
    BY <1>1, <2>2 DEF SameNonce, Late, Expired
  <2>3. CASE s = q
    BY <1>1, <2>3 DEF SameNonce, Late, Expired
  <2> QED BY <2>1, <2>2, <2>3
<1>4. ASSUME NEW o \in Requests PROVE RequestInv(requests[o])' /\ Remembers(requests[o])'
  <2>1. RequestInv(requests'[o])
    BY <1>1 DEF WinnerInv
  <2>2. CASE o = q
    BY <1>1, <2>1, <2>2 DEF RequestInv, Remembers, Issued, Expired
  <2>3. CASE o # q
    BY <1>1, <2>1, <2>3 DEF WinnerInv, RequestInv, Remembers, Issued, Expired
  <2> QED BY <2>2, <2>3
<1> QED BY <1>2, <1>3, <1>4 DEF WinnerInv

LEMMA WinnerSettle ==
    ASSUME WinnerInv, NEW q \in Requests, Settle(q)
    PROVE  WinnerInv'
<1>0. /\ TypeOK /\ TypeOK' /\ requests[q] \in RequestStates
      /\ RequestInv(requests[q]) /\ Remembers(requests[q])
      /\ requests[q].nonce \in Nonces /\ requests[q].inst \in Instances
  BY SettleTyped DEF WinnerInv, TypeOK, RequestStates
<1>1. ASSUME NEW a \in Answers, Answered(q, a), UNCHANGED <<env, now, expiry, signed, kv, seen>>,
             requests[q].pc \in {"verifying", "claiming", "replying"}, a # "malformed",
             a = "ok" => requests[q].took /\ ~requests[q].posted
      PROVE  WinnerInv'
  <2> DEFINE p == [requests[q] EXCEPT !.pc = "answered", !.answer = a]
  <2>1. p \in RequestStates
    BY <1>0, AnsweredTyped
  <2>2. requests' = [requests EXCEPT ![q] = p]
    BY <1>0, <1>1 DEF Answered, TypeOK
  <2>3. /\ p.pc = "answered" /\ p.answer = a /\ p.took = requests[q].took
        /\ p.nonce = requests[q].nonce /\ p.at = requests[q].at
        /\ p.posted = requests[q].posted
    BY <1>0 DEF RequestStates
  <2> HIDE DEF p
  <2>4. RequestInv(p)
    BY <1>0, <1>1, <2>3 DEF RequestInv
  <2>5. ~p.took \/ requests[q].took
    BY <2>3
  <2> QED BY <1>0, <1>1, <2>1, <2>2, <2>3, <2>4, <2>5, NothingTaken
<1>2. CASE SignatureInvalid(q)
  BY <1>1, <1>2 DEF SignatureInvalid, Answers
<1>3. CASE ClaimInMemory(q)
  <2> DEFINE n == requests[q].nonce
             i == requests[q].inst
             free == n \notin Remembered(i)
             p == [requests[q] EXCEPT !.pc = "answered", !.took = free, !.at = now,
                        !.answer = IF free THEN "ok" ELSE "nonce_already_used"]
  <2>0. /\ env.store = "memory" /\ requests[q].pc = "verifying"
        /\ UNCHANGED <<env, now, expiry, signed, kv>>
    BY <1>3 DEF ClaimInMemory
  <2>1. requests' = [requests EXCEPT ![q] = p]
    BY <1>3 DEF ClaimInMemory
  <2>2. seen' = [seen EXCEPT ![i] = Remembered(i) \union {n}]
    BY <1>3 DEF ClaimInMemory
  <2>3. n \in signed[i] /\ Issued(n) /\ ~requests[q].posted
    BY <1>0, <2>0 DEF RequestInv
  <2>4. \A j \in Instances : \A m \in seen[j] : ~Expired(m) => m \in seen'[j]
    BY <1>0, <2>2 DEF TypeOK, Remembered, Expired
  <2>5. n \in seen'[i]
    BY <1>0, <2>2 DEF TypeOK
  <2>6. free \in BOOLEAN
    OBVIOUS
  <2>7. \A o \in Requests : o # q /\ SameNonce(o, q) /\ requests[o].took => ~free \/ Expired(n)
    BY <1>0, <2>0, <2>3 DEF WinnerInv, Remembers, SameNonce, Remembered, Expired, TypeOK
  <2> HIDE DEF free
  <2>8. p \in RequestStates
    BY <1>0, <2>6 DEF RequestStates, Answers, TypeOK
  <2>9. /\ p.pc = "answered" /\ p.took = free /\ p.at = now /\ p.nonce = n
        /\ p.posted = requests[q].posted
        /\ p.answer = IF free THEN "ok" ELSE "nonce_already_used"
    BY <1>0 DEF RequestStates
  <2> HIDE DEF p
  <2>10. RequestInv(p)
    BY <2>3, <2>9 DEF RequestInv
  <2>11. CASE free
    <3>1. \A j \in Instances : p.nonce \in signed[j] => p.nonce \in seen'[j]
      BY <1>0, <2>0, <2>3, <2>5, <2>9 DEF WinnerInv, SecretInv
    <3> QED BY <1>0, <2>0, <2>1, <2>4, <2>7, <2>8, <2>9, <2>10, <2>11, <3>1, NonceTaken
  <2>12. CASE ~free
    BY <1>0, <2>0, <2>1, <2>4, <2>8, <2>9, <2>10, <2>12, NothingTaken
  <2> QED BY <2>11, <2>12
<1>4. CASE SendClaim(q)
  <2> DEFINE p == [requests[q] EXCEPT !.pc = "claiming", !.posted = TRUE]
  <2>0. /\ env.store = "kv" /\ requests[q].pc = "verifying"
        /\ UNCHANGED <<env, now, expiry, signed, kv, seen>>
    BY <1>4 DEF SendClaim
  <2>1. requests' = [requests EXCEPT ![q] = p]
    BY <1>0, <1>4 DEF SendClaim, TypeOK
  <2>2. p \in RequestStates
    BY <1>0 DEF RequestStates
  <2>3. /\ p.pc = "claiming" /\ p.posted = TRUE /\ p.took = requests[q].took
        /\ p.nonce = requests[q].nonce /\ p.at = requests[q].at
        /\ p.answer = requests[q].answer
    BY <1>0 DEF RequestStates
  <2> HIDE DEF p
  <2>4. RequestInv(p)
    BY <1>0, <2>0, <2>3 DEF RequestInv
  <2>5. ~p.took \/ requests[q].took
    BY <2>3
  <2> QED BY <1>0, <2>0, <2>1, <2>2, <2>3, <2>4, <2>5, NothingTaken
<1>5. CASE ServeClaim(q)
  <2> DEFINE n == requests[q].nonce
             free == n \notin kv
             pc == IF requests[q].pc = "claiming" THEN "replying" ELSE requests[q].pc
             p == [requests[q] EXCEPT !.posted = FALSE, !.took = free, !.at = now, !.pc = pc]
  <2>0. /\ requests[q].posted /\ env.store = "kv"
        /\ UNCHANGED <<env, now, expiry, signed, seen>>
    BY <1>0, <1>5 DEF ServeClaim, RequestInv
  <2>1. requests' = [requests EXCEPT ![q] = p]
    BY <1>5 DEF ServeClaim
  <2>2. kv \subseteq kv' /\ (~Expired(n) => n \in kv')
    BY <1>5 DEF ServeClaim
  <2>3. \A o \in Requests : o # q /\ SameNonce(o, q) /\ requests[o].took => ~free \/ Expired(n)
    BY <1>0, <2>0 DEF WinnerInv, Remembers, SameNonce
  <2>4. free \in BOOLEAN
    OBVIOUS
  <2>5. requests[q].answer # "ok" /\ requests[q].pc # "unsent" /\ requests[q].pc # "verifying"
        /\ Issued(n) /\ requests[q].answer # "malformed"
    BY <1>0, <2>0 DEF RequestInv
  <2> HIDE DEF free
  <2>6. p \in RequestStates
    BY <1>0, <2>4 DEF RequestStates, TypeOK
  <2>7. /\ p.pc = pc /\ p.took = free /\ p.at = now /\ p.nonce = n
        /\ p.posted = FALSE /\ p.answer = requests[q].answer
    BY <1>0 DEF RequestStates
  <2> HIDE DEF p
  <2>8. RequestInv(p)
    BY <1>0, <2>0, <2>5, <2>7 DEF RequestInv
  <2>9. CASE free
    BY <1>0, <2>0, <2>1, <2>2, <2>3, <2>6, <2>7, <2>8, <2>9, NonceTaken
  <2>10. CASE ~free
    BY <1>0, <2>0, <2>1, <2>2, <2>6, <2>7, <2>8, <2>10, NothingTaken
  <2> QED BY <2>9, <2>10
<1>6. CASE ClaimReply(q)
  <2>1. PICK a \in Answers :
            /\ Answered(q, a) /\ UNCHANGED <<env, now, expiry, signed, kv, seen>>
            /\ a # "malformed" /\ (a = "ok" => requests[q].took)
    BY <1>6 DEF ClaimReply, Answers
  <2>2. requests[q].pc = "replying"
    BY <1>6 DEF ClaimReply
  <2>3. ~requests[q].posted
    BY <1>0, <2>2 DEF RequestInv
  <2> QED BY <1>1, <2>1, <2>2, <2>3
<1>7. CASE ClaimFails(q)
  BY <1>1, <1>7 DEF ClaimFails, Answers
<1> QED BY <1>2, <1>3, <1>4, <1>5, <1>6, <1>7 DEF Settle

LEMMA WinnerSubmit ==
    ASSUME WinnerInv, NEW q \in Requests, NEW n \in Nonces, NEW i \in Instances,
           NEW valid \in BOOLEAN, Submit(q, n, i, valid)
    PROVE  WinnerInv'
<1> DEFINE error == NonceError(n, i)
           pc == IF error = "none" THEN "verifying" ELSE "answered"
           p == [requests[q] EXCEPT !.nonce = n, !.inst = i, !.valid = valid,
                                    !.answer = error, !.pc = pc]
<1>0. /\ TypeOK /\ requests[q] \in RequestStates /\ RequestInv(requests[q])
      /\ requests[q].pc = "unsent" /\ Issued(n)
      /\ UNCHANGED <<env, now, expiry, signed, kv, seen>>
  BY DEF WinnerInv, TypeOK, Submit
<1>1. TypeOK'
  BY <1>0, NextTyped DEF Next
<1>2. requests' = [requests EXCEPT ![q] = p]
  BY DEF Submit
<1>3. error \in Answers /\ error # "ok" /\ error # "malformed" /\ (error = "none" => n \in signed[i])
  BY DEF NonceError, Answers
<1>4. pc \in {"verifying", "answered"} /\ (pc = "verifying" => error = "none")
  OBVIOUS
<1> HIDE DEF error, pc
<1>5. p \in RequestStates
  BY <1>0, <1>3, <1>4 DEF RequestStates
<1>6. /\ p.nonce = n /\ p.inst = i /\ p.answer = error /\ p.pc = pc
      /\ p.took = requests[q].took /\ p.posted = requests[q].posted
  BY <1>0 DEF RequestStates
<1> HIDE DEF p
<1>7. ~p.took /\ ~p.posted
  BY <1>0, <1>6 DEF RequestInv
<1>8. RequestInv(p)
  BY <1>0, <1>3, <1>4, <1>6, <1>7 DEF RequestInv
<1> QED BY <1>0, <1>1, <1>2, <1>5, <1>7, <1>8, NothingTaken

LEMMA WinnerReject ==
    ASSUME WinnerInv, NEW q \in Requests, Reject(q) PROVE WinnerInv'
<1> DEFINE p == [requests[q] EXCEPT !.pc = "answered", !.answer = "malformed"]
<1>0. /\ TypeOK /\ TypeOK' /\ requests[q] \in RequestStates /\ RequestInv(requests[q])
      /\ requests[q].pc = "unsent" /\ UNCHANGED <<env, now, expiry, signed, kv, seen>>
  BY RejectTyped DEF WinnerInv, TypeOK, Reject
<1>1. p \in RequestStates
  BY <1>0, AnsweredTyped DEF Answers
<1>2. requests' = [requests EXCEPT ![q] = p]
  BY <1>0 DEF Reject, Answered, TypeOK
<1>3. /\ p.pc = "answered" /\ p.answer = "malformed"
      /\ p.took = requests[q].took /\ p.posted = requests[q].posted
  BY <1>0 DEF RequestStates
<1> HIDE DEF p
<1>4. ~p.took /\ ~p.posted
  BY <1>0, <1>3 DEF RequestInv
<1>5. RequestInv(p)
  BY <1>3, <1>4 DEF RequestInv
<1> QED BY <1>0, <1>1, <1>2, <1>4, <1>5, NothingTaken

LEMMA WinnerRecycle ==
    ASSUME WinnerInv, OneStorePerNonce,
           NEW i \in Instances, Recycle(i)
    PROVE  WinnerInv'
<1>0. TypeOK /\ TypeOK' /\ env.store \in {"kv", "memory"}
  BY NextTyped DEF WinnerInv, Next, TypeOK
<1>1. UNCHANGED <<env, now, expiry, kv>>
  BY DEF Recycle
<1>2. \A j \in Instances :
        /\ signed'[j] \subseteq signed[j]
        /\ j # i => signed'[j] = signed[j] /\ seen'[j] = seen[j]
        /\ env.store = "memory" => signed'[i] = {}
  BY <1>0 DEF Recycle, TypeOK, OneStorePerNonce
<1>3. ASSUME NEW q \in Requests
      PROVE  /\ requests'[q].took = requests[q].took /\ requests'[q].at = requests[q].at
             /\ requests'[q].nonce = requests[q].nonce
             /\ requests'[q].posted = requests[q].posted
             /\ \/ requests'[q] = requests[q] /\ ~(requests[q].inst = i /\ requests[q].pc = "verifying")
                \/ /\ requests[q].pc \in {"verifying", "claiming", "replying"}
                   /\ requests'[q].pc = "answered" /\ requests'[q].answer = "lost"
  <2>1. requests[q] \in RequestStates
    BY <1>0 DEF TypeOK
  <2> DEFINE lost == [requests[q] EXCEPT !.pc = "answered", !.answer = "lost"]
  <2>2. /\ lost.took = requests[q].took /\ lost.at = requests[q].at
        /\ lost.nonce = requests[q].nonce /\ lost.posted = requests[q].posted
        /\ lost.pc = "answered" /\ lost.answer = "lost"
    BY <2>1 DEF RequestStates
  <2>3. requests'[q] =
          IF requests[q].inst = i /\ requests[q].pc \in {"verifying", "claiming", "replying"}
          THEN lost ELSE requests[q]
    BY DEF Recycle
  <2> HIDE DEF lost
  <2> QED BY <2>2, <2>3
<1>4. SecretInv'
  BY <1>1, <1>2 DEF WinnerInv, SecretInv, Issued
<1>5. TakenOnce'
  BY <1>1, <1>3 DEF WinnerInv, TakenOnce, SameNonce, Late
<1>6. ASSUME NEW q \in Requests PROVE RequestInv(requests[q])' /\ Remembers(requests[q])'
  <2>1. RequestInv(requests[q]) /\ Remembers(requests[q])
        /\ requests[q].inst \in Instances /\ requests[q].nonce \in Nonces
    BY <1>0 DEF WinnerInv, TypeOK, RequestStates
  <2>2. RequestInv(requests[q])'
    BY <1>1, <1>2, <1>3, <2>1 DEF RequestInv, Issued
  <2>3. Remembers(requests[q])'
    BY <1>0, <1>1, <1>2, <1>3, <2>1 DEF Remembers, Expired
  <2> QED BY <2>2, <2>3
<1> QED BY <1>0, <1>4, <1>5, <1>6 DEF WinnerInv

LEMMA WinnerNext ==
    ASSUME OneStorePerNonce, WinnerInv, [Next]_vars
    PROVE  WinnerInv'
<1>0. TypeOK /\ TypeOK'
  BY NextTyped DEF WinnerInv
<1>1. CASE Tick
  <2>1. ASSUME NEW q \in Requests PROVE RequestInv(requests[q])' /\ Remembers(requests[q])'
    <3>1. RequestInv(requests[q]) /\ Remembers(requests[q]) /\ requests[q].nonce \in Nonces
      BY <1>0 DEF WinnerInv, TypeOK, RequestStates
    <3>2. RequestInv(requests[q])'
      BY <1>1, <3>1 DEF Tick, RequestInv, Issued
    <3>3. Remembers(requests[q])'
      BY <1>0, <1>1, <3>1 DEF Tick, Remembers, Expired, TypeOK
    <3> QED BY <3>2, <3>3
  <2>2. SecretInv' /\ TakenOnce'
    BY <1>1 DEF Tick, WinnerInv, SecretInv, TakenOnce, Issued, SameNonce, Late
  <2> QED BY <1>0, <2>1, <2>2 DEF WinnerInv
<1>2. ASSUME NEW n \in Nonces, NEW i \in Instances, IssueNonce(n, i) PROVE WinnerInv'
  <2>1. /\ UNCHANGED <<env, now, kv, seen, requests>> /\ ~Issued(n)
        /\ \A m \in Nonces : m # n => expiry'[m] = expiry[m]
        /\ expiry'[n] # 0
        /\ \A j \in Instances : signed[j] \subseteq signed'[j]
                                /\ signed'[j] \subseteq signed[j] \union {n}
        /\ env.store = "memory" => \A j \in Instances : j # i => signed'[j] = signed[j]
    BY <1>0, <1>2 DEF IssueNonce, TypeOK, OneStorePerNonce
  <2>2. SecretInv'
    BY <1>0, <2>1 DEF WinnerInv, SecretInv, Issued
  <2>3. \A q \in Requests : requests[q].took => requests[q].nonce \in Nonces \ {n}
    BY <1>0, <2>1 DEF WinnerInv, RequestInv, TypeOK, RequestStates
  <2>4. TakenOnce'
    BY <2>1, <2>3 DEF WinnerInv, TakenOnce, SameNonce, Late
  <2>5. ASSUME NEW q \in Requests PROVE RequestInv(requests[q])' /\ Remembers(requests[q])'
    <3>1. RequestInv(requests[q]) /\ Remembers(requests[q])
          /\ requests[q].nonce \in Nonces /\ requests[q].inst \in Instances
      BY <1>0 DEF WinnerInv, TypeOK, RequestStates
    <3>2. RequestInv(requests[q])'
      BY <2>1, <3>1 DEF RequestInv, Issued
    <3>3. Remembers(requests[q])'
      BY <2>1, <2>3, <3>1 DEF Remembers, Expired
    <3> QED BY <3>2, <3>3
  <2> QED BY <1>0, <2>2, <2>4, <2>5 DEF WinnerInv
<1>3. ASSUME NEW q \in Requests, NEW n \in Nonces, NEW i \in Instances,
             NEW valid \in BOOLEAN, Submit(q, n, i, valid)
      PROVE  WinnerInv'
  BY <1>3, WinnerSubmit
<1>4. ASSUME NEW q \in Requests, Settle(q) PROVE WinnerInv'
  BY <1>4, WinnerSettle
<1>5. ASSUME NEW i \in Instances, Recycle(i) PROVE WinnerInv'
  BY <1>5, WinnerRecycle
<1>6. CASE UNCHANGED vars
  BY <1>0, <1>6 DEF vars, WinnerInv, SecretInv, TakenOnce, RequestInv, Remembers,
                    Issued, Expired, SameNonce, Late
<1>7. ASSUME NEW q \in Requests, Reject(q) PROVE WinnerInv'
  BY <1>7, WinnerReject
<1> QED BY <1>1, <1>2, <1>3, <1>4, <1>5, <1>6, <1>7 DEF Next

LEMMA WinnerInit == Init => WinnerInv
<1> SUFFICES ASSUME Init PROVE WinnerInv
  OBVIOUS
<1>1. \A q \in Requests : requests[q] = Unsent
  BY DEF Init
<1>2. RequestInv(Unsent) /\ Remembers(Unsent)
  BY DEF Unsent, RequestInv, Remembers
<1>3. SecretInv
  BY DEF Init, SecretInv
<1>4. TakenOnce
  <2>1. Unsent.took = FALSE
    BY DEF Unsent
  <2> QED BY <1>1, <2>1 DEF TakenOnce
<1> QED BY <1>1, <1>2, <1>3, <1>4, InitTyped DEF WinnerInv

\* A nonce signs at most one request in, of those that claim it before it
\* expires, however requests interleave, KV calls fail or arrive late, and
\* instances are recycled: with the KV store, or with per-process memory and a
\* per-process secret (siwb.mjs:49-63, nonceStore.mjs:22-64).
THEOREM OneStoreOneWinner == Spec => []OneWinnerInTime
<1> DEFINE Inv == OneStorePerNonce => WinnerInv
<1>1. Inv /\ [Next]_vars => Inv'
  <2>1. [Next]_vars => UNCHANGED env
    BY DEF Next, vars, Tick, IssueNonce, Submit, Reject, Settle, SignatureInvalid, ClaimInMemory,
           SendClaim, ServeClaim, ClaimReply, ClaimFails, Recycle
  <2> QED BY <2>1, WinnerNext DEF OneStorePerNonce
<1>2. Inv => OneWinnerInTime
  <2> SUFFICES ASSUME Inv, OneStorePerNonce, NEW p \in Requests, NEW q \in Requests,
                      p # q, SameNonce(p, q), Accepted(p), Accepted(q)
               PROVE  \E r \in {p, q} : requests[r].at >= expiry[requests[r].nonce]
    BY DEF OneWinnerInTime
  <2>1. requests[p].took /\ requests[q].took
    BY DEF WinnerInv, RequestInv, Accepted
  <2>2. Late(requests[p]) \/ Late(requests[q])
    BY <2>1 DEF WinnerInv, TakenOnce
  <2> QED BY <2>2 DEF Late
<1>3. Init => Inv
  BY WinnerInit
<1> HIDE DEF Inv
<1> QED BY <1>1, <1>2, <1>3, PTL DEF Spec
(***************************************************************************)
(* RefusedMeansTaken.  The invariant: every nonce a store holds was put    *)
(* there by a request that took it with a good signature; a request that   *)
(* did not take its nonce is refused for another one that did; and one     *)
(* that took it and is refused all the same had its answer from KV.        *)
(***************************************************************************)

Took(o, n) == requests[o].took /\ requests[o].valid /\ requests[o].nonce = n

Unclaimed(p) ==
    /\ p.pc \in {"unsent", "verifying"} => ~p.took /\ ~p.posted
    /\ p.posted => /\ ~p.took /\ p.valid /\ p.pc # "replying"
                   /\ p.answer # "nonce_already_used"
    /\ p.pc # "answered" => p.answer = "none"

\* p did not take its nonce, and is refused or will be.
Refused(p) == ~p.took /\ (p.pc = "replying" \/ p.answer = "nonce_already_used")

\* What is sent to KV or comes from it: of a request with a good signature.
OfKv(p) ==
    p.posted \/ p.pc \in {"claiming", "replying"} \/ (p.took /\ p.answer = "nonce_already_used")
        => env.store = "kv" /\ p.valid

RefuseInv ==
    /\ TypeOK
    /\ \A n \in kv : \E o \in Requests : Took(o, n)
    /\ \A i \in Instances : \A n \in seen[i] : \E o \in Requests : Took(o, n)
    /\ \A q \in Requests : Unclaimed(requests[q]) /\ OfKv(requests[q])
    /\ \A q \in Requests : Refused(requests[q]) =>
          \E o \in Requests \ {q} : Took(o, requests[q].nonce)

\* Request q goes on as p, and what is new in the stores is what it took.
LEMMA RefuseOneStep ==
    ASSUME RefuseInv, TypeOK', NEW q \in Requests, NEW p \in RequestStates,
           requests' = [requests EXCEPT ![q] = p], env' = env,
           requests[q].took => /\ p.took /\ p.valid = requests[q].valid
                               /\ p.nonce = requests[q].nonce,
           \A n \in kv' : n \in kv \/ (p.took /\ p.valid /\ n = p.nonce),
           \A i \in Instances : \A n \in seen'[i] :
               n \in seen[i] \/ (p.took /\ p.valid /\ n = p.nonce),
           Unclaimed(p), OfKv(p),
           Refused(p) => \E o \in Requests \ {q} : Took(o, p.nonce)
    PROVE  RefuseInv'
<1>1. \A o \in Requests : requests'[o] = IF o = q THEN p ELSE requests[o]
  BY DEF RefuseInv, TypeOK
<1>2. ASSUME NEW o \in Requests, NEW n, Took(o, n) PROVE Took(o, n)'
  BY <1>1, <1>2 DEF Took
<1>3. p.took /\ p.valid => Took(q, p.nonce)'
  BY <1>1 DEF Took
<1>4. \A n \in kv' : \E o \in Requests : Took(o, n)'
  BY <1>2, <1>3 DEF RefuseInv
<1>5. \A i \in Instances : \A n \in seen'[i] : \E o \in Requests : Took(o, n)'
  BY <1>2, <1>3 DEF RefuseInv
<1>6. \A o \in Requests : Unclaimed(requests[o])' /\ OfKv(requests[o])'
  BY <1>1 DEF RefuseInv, Unclaimed, OfKv
<1>7. ASSUME NEW s \in Requests, Refused(requests'[s])
      PROVE  \E o \in Requests \ {s} : Took(o, requests[s].nonce)'
  <2>1. CASE s = q
    BY <1>1, <1>2, <1>7, <2>1
  <2>2. CASE s # q
    BY <1>1, <1>2, <1>7, <2>2 DEF RefuseInv
  <2> QED BY <2>1, <2>2
<1>8. \A s \in Requests : Refused(requests[s])' =>
         \E o \in Requests \ {s} : Took(o, requests[s].nonce)'
  BY <1>7 DEF Refused
<1> QED BY <1>4, <1>5, <1>6, <1>8 DEF RefuseInv, Took

LEMMA RefuseSettle == ASSUME RefuseInv, NEW q \in Requests, Settle(q) PROVE RefuseInv'
<1>0. /\ TypeOK /\ TypeOK' /\ requests[q] \in RequestStates
      /\ Unclaimed(requests[q]) /\ OfKv(requests[q])
      /\ requests[q].nonce \in Nonces /\ requests[q].inst \in Instances
  BY SettleTyped DEF RefuseInv, TypeOK, RequestStates
<1>1. ASSUME NEW a \in Answers, Answered(q, a), UNCHANGED <<env, now, expiry, signed, kv, seen>>,
             requests[q].pc # "unsent",
             a = "nonce_already_used" => requests[q].pc = "replying"
      PROVE  RefuseInv'
  <2> DEFINE p == [requests[q] EXCEPT !.pc = "answered", !.answer = a]
  <2>1. p \in RequestStates
    BY <1>0, AnsweredTyped
  <2>2. requests' = [requests EXCEPT ![q] = p]
    BY <1>0, <1>1 DEF Answered, TypeOK
  <2>3. /\ p.pc = "answered" /\ p.answer = a /\ p.took = requests[q].took
        /\ p.posted = requests[q].posted /\ p.nonce = requests[q].nonce
        /\ p.valid = requests[q].valid
    BY <1>0 DEF RequestStates
  <2> HIDE DEF p
  <2>4. Unclaimed(p) /\ OfKv(p)
    BY <1>0, <1>1, <2>3 DEF Unclaimed, OfKv
  <2>5. Refused(p) => \E o \in Requests \ {q} : Took(o, p.nonce)
    BY <1>1, <2>3 DEF RefuseInv, Refused
  <2> QED BY <1>0, <1>1, <2>1, <2>2, <2>3, <2>4, <2>5, RefuseOneStep
<1>2. CASE SignatureInvalid(q)
  BY <1>1, <1>2 DEF SignatureInvalid, Answers
<1>3. CASE ClaimInMemory(q)
  <2> DEFINE n == requests[q].nonce
             i == requests[q].inst
             free == n \notin Remembered(i)
             p == [requests[q] EXCEPT !.pc = "answered", !.took = free, !.at = now,
                        !.answer = IF free THEN "ok" ELSE "nonce_already_used"]
  <2>0. /\ requests[q].pc = "verifying" /\ requests[q].valid /\ kv' = kv
        /\ ~requests[q].took /\ ~requests[q].posted /\ env' = env
    BY <1>0, <1>3 DEF ClaimInMemory, Unclaimed
  <2>1. requests' = [requests EXCEPT ![q] = p]
    BY <1>3 DEF ClaimInMemory
  <2>2. seen' = [seen EXCEPT ![i] = Remembered(i) \union {n}]
    BY <1>3 DEF ClaimInMemory
  <2>3. Remembered(i) \subseteq seen[i] /\ (~free => n \in seen[i])
    BY DEF Remembered
  <2>4. \A j \in Instances : \A m \in seen'[j] : m \in seen[j] \/ (free /\ m = n)
    BY <1>0, <2>2, <2>3 DEF TypeOK
  <2>5. free \in BOOLEAN
    OBVIOUS
  <2> HIDE DEF free
  <2>6. p \in RequestStates
    BY <1>0, <2>5 DEF RequestStates, Answers, TypeOK
  <2>7. /\ p.pc = "answered" /\ p.took = free /\ p.nonce = n
        /\ p.valid = requests[q].valid /\ p.posted = requests[q].posted
        /\ p.answer = IF free THEN "ok" ELSE "nonce_already_used"
    BY <1>0 DEF RequestStates
  <2> HIDE DEF p
  <2>8. Unclaimed(p) /\ OfKv(p)
    BY <2>0, <2>7 DEF Unclaimed, OfKv
  <2>9. Refused(p) => \E o \in Requests \ {q} : Took(o, p.nonce)
    <3>1. SUFFICES ASSUME Refused(p) PROVE \E o \in Requests \ {q} : Took(o, n)
      BY <2>7
    <3>2. n \in seen[i]
      BY <2>3, <2>7, <3>1 DEF Refused
    <3>3. PICK o \in Requests : Took(o, n)
      BY <1>0, <3>2 DEF RefuseInv
    <3> QED BY <2>0, <3>3 DEF Took
  <2> QED BY <1>0, <2>0, <2>1, <2>4, <2>6, <2>7, <2>8, <2>9, RefuseOneStep
<1>4. CASE SendClaim(q)
  <2> DEFINE p == [requests[q] EXCEPT !.pc = "claiming", !.posted = TRUE]
  <2>0. /\ requests[q].pc = "verifying" /\ requests[q].valid
        /\ UNCHANGED <<env, kv, seen>> /\ ~requests[q].took
        /\ env.store = "kv" /\ requests[q].answer = "none"
    BY <1>0, <1>4 DEF SendClaim, Unclaimed
  <2>1. requests' = [requests EXCEPT ![q] = p]
    BY <1>0, <1>4 DEF SendClaim, TypeOK
  <2>2. p \in RequestStates
    BY <1>0 DEF RequestStates
  <2>3. /\ p.pc = "claiming" /\ p.posted = TRUE /\ p.took = requests[q].took
        /\ p.nonce = requests[q].nonce /\ p.valid = requests[q].valid
        /\ p.answer = requests[q].answer
    BY <1>0 DEF RequestStates
  <2> HIDE DEF p
  <2>4. Unclaimed(p) /\ OfKv(p)
    BY <2>0, <2>3 DEF Unclaimed, OfKv
  <2>5. Refused(p) => \E o \in Requests \ {q} : Took(o, p.nonce)
    BY <2>0, <2>3 DEF RefuseInv, Refused
  <2> QED BY <1>0, <2>0, <2>1, <2>2, <2>3, <2>4, <2>5, RefuseOneStep
<1>5. CASE ServeClaim(q)
  <2> DEFINE n == requests[q].nonce
             free == n \notin kv
             pc == IF requests[q].pc = "claiming" THEN "replying" ELSE requests[q].pc
             p == [requests[q] EXCEPT !.posted = FALSE, !.took = free, !.at = now, !.pc = pc]
  <2>0. /\ requests[q].posted /\ UNCHANGED <<env, seen>>
        /\ ~requests[q].took /\ requests[q].valid /\ env.store = "kv"
        /\ requests[q].pc \notin {"unsent", "verifying", "replying"}
        /\ requests[q].answer # "nonce_already_used"
    BY <1>0, <1>5 DEF ServeClaim, Unclaimed, OfKv
  <2>1. requests' = [requests EXCEPT ![q] = p]
    BY <1>5 DEF ServeClaim
  <2>2. \A m \in kv' : m \in kv \/ (free /\ m = n)
    BY <1>5 DEF ServeClaim
  <2>3. ~free => \E o \in Requests \ {q} : Took(o, n)
    BY <2>0 DEF RefuseInv, Took
  <2>4. free \in BOOLEAN
    OBVIOUS
  <2>5. pc \in {"replying", "answered"} /\ (pc = "replying" => requests[q].answer = "none")
    BY <1>0, <2>0 DEF RequestStates, Unclaimed
  <2> HIDE DEF free, pc
  <2>6. p \in RequestStates
    BY <1>0, <2>4, <2>5 DEF RequestStates, TypeOK
  <2>7. /\ p.pc = pc /\ p.took = free /\ p.nonce = n /\ p.valid = requests[q].valid
        /\ p.posted = FALSE /\ p.answer = requests[q].answer
    BY <1>0 DEF RequestStates
  <2> HIDE DEF p
  <2>8. Unclaimed(p) /\ OfKv(p)
    BY <2>0, <2>5, <2>7 DEF Unclaimed, OfKv
  <2>9. Refused(p) => \E o \in Requests \ {q} : Took(o, p.nonce)
    <3>1. CASE ~free
      BY <2>3, <2>7, <3>1
    <3>2. CASE free
      BY <2>7, <3>2 DEF RefuseInv, Refused
    <3> QED BY <3>1, <3>2
  <2> QED BY <1>0, <2>0, <2>1, <2>2, <2>6, <2>7, <2>8, <2>9, RefuseOneStep
<1>6. CASE ClaimReply(q)
  <2>1. PICK a \in Answers : Answered(q, a) /\ UNCHANGED <<env, now, expiry, signed, kv, seen>>
    BY <1>6 DEF ClaimReply, Answers
  <2>2. requests[q].pc = "replying"
    BY <1>6 DEF ClaimReply
  <2> QED BY <1>1, <2>1, <2>2
<1>7. CASE ClaimFails(q)
  BY <1>1, <1>7 DEF ClaimFails, Answers
<1> QED BY <1>2, <1>3, <1>4, <1>5, <1>6, <1>7 DEF Settle

LEMMA RefuseSubmit ==
    ASSUME RefuseInv, NEW q \in Requests, NEW n \in Nonces, NEW i \in Instances,
           NEW valid \in BOOLEAN, Submit(q, n, i, valid)
    PROVE  RefuseInv'
<1> DEFINE error == NonceError(n, i)
           pc == IF error = "none" THEN "verifying" ELSE "answered"
           p == [requests[q] EXCEPT !.nonce = n, !.inst = i, !.valid = valid,
                                    !.answer = error, !.pc = pc]
<1>0. /\ TypeOK /\ requests[q] \in RequestStates /\ Unclaimed(requests[q])
      /\ requests[q].pc = "unsent" /\ UNCHANGED <<env, kv, seen>>
  BY DEF RefuseInv, TypeOK, Submit
<1>1. TypeOK'
  BY <1>0, NextTyped DEF Next
<1>2. requests' = [requests EXCEPT ![q] = p]
  BY DEF Submit
<1>3. error \in Answers /\ error # "nonce_already_used"
  BY DEF NonceError, Answers
<1>4. pc = "answered" \/ (pc = "verifying" /\ error = "none")
  OBVIOUS
<1> HIDE DEF error, pc
<1>5. p \in RequestStates
  BY <1>0, <1>3, <1>4 DEF RequestStates
<1>6. /\ p.answer = error /\ p.pc = pc
      /\ p.took = requests[q].took /\ p.posted = requests[q].posted
  BY <1>0 DEF RequestStates
<1> HIDE DEF p
<1>7. ~requests[q].took /\ Unclaimed(p) /\ OfKv(p) /\ ~Refused(p)
  BY <1>0, <1>3, <1>4, <1>6 DEF Unclaimed, OfKv, Refused
<1> QED BY <1>0, <1>1, <1>2, <1>5, <1>7, RefuseOneStep

LEMMA RefuseReject == ASSUME RefuseInv, NEW q \in Requests, Reject(q) PROVE RefuseInv'
<1> DEFINE p == [requests[q] EXCEPT !.pc = "answered", !.answer = "malformed"]
<1>0. /\ TypeOK /\ TypeOK' /\ requests[q] \in RequestStates /\ Unclaimed(requests[q])
      /\ requests[q].pc = "unsent" /\ UNCHANGED <<env, kv, seen>>
  BY RejectTyped DEF RefuseInv, TypeOK, Reject
<1>1. p \in RequestStates
  BY <1>0, AnsweredTyped DEF Answers
<1>2. requests' = [requests EXCEPT ![q] = p]
  BY <1>0 DEF Reject, Answered, TypeOK
<1>3. /\ p.pc = "answered" /\ p.answer = "malformed"
      /\ p.took = requests[q].took /\ p.posted = requests[q].posted
  BY <1>0 DEF RequestStates
<1> HIDE DEF p
<1>4. ~requests[q].took /\ Unclaimed(p) /\ OfKv(p) /\ ~Refused(p)
  BY <1>0, <1>3 DEF Unclaimed, OfKv, Refused
<1> QED BY <1>0, <1>1, <1>2, <1>4, RefuseOneStep

LEMMA RefuseRecycle ==
    ASSUME RefuseInv, NEW i \in Instances, Recycle(i) PROVE RefuseInv'
<1>0. TypeOK /\ TypeOK' /\ kv' = kv /\ env' = env
  BY NextTyped DEF RefuseInv, Next, TypeOK, Recycle
<1>1. \A j \in Instances : seen'[j] \subseteq seen[j]
  BY <1>0 DEF Recycle, TypeOK
<1>2. ASSUME NEW q \in Requests
      PROVE  /\ requests'[q].took = requests[q].took
             /\ requests'[q].nonce = requests[q].nonce
             /\ requests'[q].valid = requests[q].valid
             /\ Unclaimed(requests'[q]) /\ OfKv(requests'[q])
             /\ Refused(requests'[q]) => Refused(requests[q])
  <2>1. requests[q] \in RequestStates /\ Unclaimed(requests[q]) /\ OfKv(requests[q])
    BY <1>0 DEF RefuseInv, TypeOK
  <2> DEFINE lost == [requests[q] EXCEPT !.pc = "answered", !.answer = "lost"]
  <2>2. /\ lost.took = requests[q].took /\ lost.valid = requests[q].valid
        /\ lost.nonce = requests[q].nonce /\ lost.posted = requests[q].posted
        /\ lost.pc = "answered" /\ lost.answer = "lost"
    BY <2>1 DEF RequestStates
  <2>3. requests'[q] = lost \/ requests'[q] = requests[q]
    BY DEF Recycle
  <2> HIDE DEF lost
  <2> QED BY <2>1, <2>2, <2>3 DEF Unclaimed, OfKv, Refused
<1>3. \A o \in Requests : \A n : Took(o, n)' <=> Took(o, n)
  BY <1>2 DEF Took
<1>4. /\ \A n \in kv' : \E o \in Requests : Took(o, n)'
      /\ \A j \in Instances : \A n \in seen'[j] : \E o \in Requests : Took(o, n)'
  BY <1>0, <1>1, <1>3 DEF RefuseInv
<1>5. ASSUME NEW q \in Requests, Refused(requests'[q])
      PROVE  \E o \in Requests \ {q} : Took(o, requests[q].nonce)'
  BY <1>2, <1>3, <1>5 DEF RefuseInv
<1>6. \A q \in Requests : Unclaimed(requests[q])' /\ OfKv(requests[q])'
  BY <1>0, <1>2 DEF Unclaimed, OfKv
<1>7. \A q \in Requests : Refused(requests[q])' =>
         \E o \in Requests \ {q} : Took(o, requests[q].nonce)'
  BY <1>5 DEF Refused
<1> QED BY <1>0, <1>4, <1>6, <1>7 DEF RefuseInv, Took

\* A nonce is refused as used only if a request took it with a good signature,
\* whatever the deployment: a failed attempt, an unanswered claim or a lost
\* instance burns nobody's nonce (siwb.mjs:49-50).  The request that took it is
\* another one, except where KV's reply could not be read (nonceStore.mjs:58).
THEOREM NoNonceBurnt == Spec => []RefusedMeansTaken
<1>1. Init => RefuseInv
  <2> SUFFICES ASSUME Init PROVE RefuseInv
    OBVIOUS
  <2>1. Unclaimed(Unsent) /\ OfKv(Unsent) /\ ~Refused(Unsent)
    BY DEF Unsent, Unclaimed, OfKv, Refused
  <2> QED BY <2>1, InitTyped DEF Init, RefuseInv
<1>2. RefuseInv /\ [Next]_vars => RefuseInv'
  <2> SUFFICES ASSUME RefuseInv, [Next]_vars PROVE RefuseInv'
    OBVIOUS
  <2>0. TypeOK'
    BY NextTyped DEF RefuseInv
  <2>1. CASE Tick
    <3>1. kv' \subseteq kv /\ UNCHANGED <<env, seen, requests>>
      BY <2>1 DEF Tick
    <3> QED BY <2>0, <3>1 DEF RefuseInv, Took, Unclaimed, OfKv, Refused
  <2>2. ASSUME NEW n \in Nonces, NEW i \in Instances, IssueNonce(n, i) PROVE RefuseInv'
    <3>1. UNCHANGED <<env, kv, seen, requests>>
      BY <2>2 DEF IssueNonce
    <3> QED BY <2>0, <3>1 DEF RefuseInv, Took, Unclaimed, OfKv, Refused
  <2>3. CASE UNCHANGED vars
    BY <2>0, <2>3 DEF vars, RefuseInv, Took, Unclaimed, OfKv, Refused
  <2> QED BY <2>1, <2>2, <2>3, RefuseSubmit, RefuseReject, RefuseSettle, RefuseRecycle DEF Next
<1>3. RefuseInv => RefusedMeansTaken
  <2> SUFFICES ASSUME RefuseInv, NEW q \in Requests, requests[q].answer = "nonce_already_used"
               PROVE  \E p \in Requests :
                         /\ SameNonce(p, q) /\ requests[p].valid /\ requests[p].took
                         /\ p = q => env.store = "kv"
    BY DEF RefusedMeansTaken
  <2>1. CASE requests[q].took
    BY <2>1 DEF RefuseInv, OfKv, SameNonce
  <2>2. CASE ~requests[q].took
    BY <2>2 DEF RefuseInv, Refused, Took, SameNonce
  <2> QED BY <2>1, <2>2
<1> QED BY <1>1, <1>2, <1>3, PTL DEF Spec
=============================================================================
