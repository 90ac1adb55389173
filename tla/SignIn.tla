------------------------------- MODULE SignIn -------------------------------
(***************************************************************************)
(* Sign-in with single-use nonces: GET /auth/nonce and POST /auth/verify   *)
(* of agent/app.mjs over issueNonce and verifySignIn (agent/lib/siwb.mjs), *)
(* the stateless nonces of nonce.mjs and the two stores of nonceStore.mjs. *)
(*                                                                         *)
(* verifySignIn checks the nonce, awaits the signature check (an RPC call),*)
(* and claims the nonce, so requests interleave at the two awaits, time    *)
(* passes there, and the serverless instance they run on may go away.      *)
(* The rate limiter comes before and is left out (see RateLimit): a        *)
(* request here is one it let through.                                     *)
(***************************************************************************)
EXTENDS Naturals

CONSTANTS
    Nonces,
    Requests,       \* POST /auth/verify requests a client may send
    Instances,      \* serverless instances
    Deployments,    \* environments the agent is deployed with: store is "kv"
                    \* when KV_REST_API_* is set, shared is whether
                    \* SIWB_NONCE_SECRET is
    TTL,            \* SIWB_NONCE_TTL
    MaxTime         \* last second of the clock (bound of the model)

ASSUME SignInAssumption ==
    /\ Nonces # {} /\ Instances # {}
    /\ Deployments \subseteq [store : {"kv", "memory"}, shared : BOOLEAN]
    /\ TTL \in Nat \ {0}
    /\ MaxTime \in Nat

VARIABLES
    env,            \* the deployment: one for all instances, set once
    now,            \* seconds, the same for every instance
    expiry,         \* [Nonces -> second it carries, 0 before it is issued]
    signed,         \* [Instances -> nonces whose mac the instance's secret made]
    kv,             \* nonces with a key in the KV store
    seen,           \* [Instances -> nonces in its memory store]
    requests        \* [Requests -> the request and its locals]

vars == <<env, now, expiry, signed, kv, seen, requests>>

\* `posted': a claim is on its way to KV.  `took' and `at' are kept for the
\* properties: whether the store let the request have the nonce, and when.
Answers == {"none", "ok", "malformed", "invalid_nonce_signature",
            "expired_nonce", "invalid_signature", "nonce_already_used",
            "nonce_store_unavailable", "lost"}

RequestStates ==
    [pc : {"unsent", "verifying", "claiming", "replying", "answered"},
     nonce : Nonces, inst : Instances, valid : BOOLEAN, posted : BOOLEAN,
     took : BOOLEAN, at : 0..MaxTime, answer : Answers]

Unsent == [pc |-> "unsent", nonce |-> CHOOSE n \in Nonces : TRUE,
           inst |-> CHOOSE i \in Instances : TRUE, valid |-> FALSE,
           posted |-> FALSE, took |-> FALSE, at |-> 0, answer |-> "none"]

Issued(n) == expiry[n] # 0
Expired(n) == now >= expiry[n]

Answered(q, answer) ==
    requests' = [requests EXCEPT ![q].pc = "answered", ![q].answer = answer]

Init ==
    /\ env \in Deployments
    /\ now = 0
    /\ expiry = [n \in Nonces |-> 0]
    /\ signed = [i \in Instances |-> {}]
    /\ kv = {}
    /\ seen = [i \in Instances |-> {}]
    /\ requests = [q \in Requests |-> Unsent]

\* Time passes, and the KV store drops the keys whose EXAT it reaches.
Tick ==
    /\ now < MaxTime
    /\ now' = now + 1
    /\ kv' = {n \in kv : expiry[n] > now'}
    /\ UNCHANGED <<env, expiry, signed, seen, requests>>

\* GET /auth/nonce: nothing is stored, the mac vouches for the nonce wherever
\* the secret is known.
IssueNonce(n, i) ==
    /\ ~Issued(n)
    /\ expiry' = [expiry EXCEPT ![n] = now + TTL]
    /\ signed' = [j \in Instances |->
                    IF env.shared \/ j = i THEN signed[j] \union {n} ELSE signed[j]]
    /\ UNCHANGED <<env, now, kv, seen, requests>>

\* checkNonce's verdict at instance i.
NonceError(n, i) ==
    CASE n \notin signed[i] -> "invalid_nonce_signature"
      [] n \in signed[i] /\ Expired(n) -> "expired_nonce"
      [] OTHER -> "none"

\* POST /auth/verify arrives: the nonce is checked before the first await.  The
\* same nonce may come in several requests: a double click, a retried POST.
Submit(q, n, i, valid) ==
    /\ requests[q].pc = "unsent"
    /\ Issued(n)
    /\ LET error == NonceError(n, i) IN
       requests' = [requests EXCEPT ![q] =
           [@ EXCEPT !.nonce = n, !.inst = i, !.valid = valid, !.answer = error,
                     !.pc = IF error = "none" THEN "verifying" ELSE "answered"]]
    /\ UNCHANGED <<env, now, expiry, signed, kv, seen>>

\* A body that validateSignInRequest refuses, or a message without a nonce
\* anybody issued, is answered before anything else is done.
Reject(q) ==
    /\ requests[q].pc = "unsent"
    /\ Answered(q, "malformed")
    /\ UNCHANGED <<env, now, expiry, signed, kv, seen>>

SignatureInvalid(q) ==
    /\ requests[q].pc = "verifying"
    /\ ~requests[q].valid
    /\ Answered(q, "invalid_signature")
    /\ UNCHANGED <<env, now, expiry, signed, kv, seen>>

\* Mutant: a nonce is forgotten in its last second.
RememberedTooBriefly(i) == {n \in seen[i] : expiry[n] > now + 1}

\* The memory store forgets expired nonces, then looks the nonce up and keeps
\* it; nothing runs in between, so the claim follows the signature check in
\* the same step.
Remembered(i) == {n \in seen[i] : expiry[n] > now}

ClaimInMemory(q) ==
    LET n == requests[q].nonce
        i == requests[q].inst
        free == n \notin Remembered(i)
    IN  /\ env.store = "memory"
        /\ requests[q].pc = "verifying" /\ requests[q].valid
        /\ seen' = [seen EXCEPT ![i] = Remembered(i) \union {n}]
        /\ requests' = [requests EXCEPT ![q] =
              [@ EXCEPT !.pc = "answered", !.took = free, !.at = now,
                        !.answer = IF free THEN "ok" ELSE "nonce_already_used"]]
        /\ UNCHANGED <<env, now, expiry, signed, kv>>

\* Mutant: the nonce is claimed before the signature is known to be good.
SendClaimUnverified(q) ==
    /\ env.store = "kv"
    /\ requests[q].pc = "verifying"
    /\ requests' = [requests EXCEPT ![q].pc = "claiming", ![q].posted = TRUE]
    /\ UNCHANGED <<env, now, expiry, signed, kv, seen>>

\* With KV the claim is a POST, sent once the signature checks out ...
SendClaim(q) ==
    /\ env.store = "kv"
    /\ requests[q].pc = "verifying" /\ requests[q].valid
    /\ requests' = [requests EXCEPT ![q].pc = "claiming", ![q].posted = TRUE]
    /\ UNCHANGED <<env, now, expiry, signed, kv, seen>>

\* ... executed by the store, SET NX EXAT, whenever it arrives, awaited
\* or not (a key whose time is past is not kept) ...
ServeClaim(q) ==
    LET n == requests[q].nonce
        free == n \notin kv
    IN  /\ requests[q].posted
        /\ kv' = IF Expired(n) THEN kv ELSE kv \union {n}
        /\ requests' = [requests EXCEPT ![q] =
              [@ EXCEPT !.posted = FALSE, !.took = free, !.at = now,
                        !.pc = IF requests[q].pc = "claiming"
                                 THEN "replying" ELSE requests[q].pc]]
        /\ UNCHANGED <<env, now, expiry, signed, seen>>

\* ... and answered.  A reply whose body does not parse counts as a refusal,
\* also of the claim that was granted.
ClaimReply(q) ==
    /\ requests[q].pc = "replying"
    /\ \/ requests[q].took /\ Answered(q, "ok")
       \/ Answered(q, "nonce_already_used")
    /\ UNCHANGED <<env, now, expiry, signed, kv, seen>>

\* The POST fails, whether or not the store executes it: fail closed.
ClaimFails(q) ==
    /\ requests[q].pc \in {"claiming", "replying"}
    /\ Answered(q, "nonce_store_unavailable")
    /\ UNCHANGED <<env, now, expiry, signed, kv, seen>>

\* The instance goes away (recycled, or ended by the unhandled rejection of a
\* signature check that throws): its memory, its own secret and the requests
\* it was serving are gone.  What it sent to KV is on its way.
Recycle(i) ==
    /\ seen' = [seen EXCEPT ![i] = {}]
    /\ signed' = IF env.shared THEN signed ELSE [signed EXCEPT ![i] = {}]
    /\ requests' = [q \in Requests |->
         IF requests[q].inst = i /\ requests[q].pc \in {"verifying", "claiming", "replying"}
         THEN [requests[q] EXCEPT !.pc = "answered", !.answer = "lost"]
         ELSE requests[q]]
    /\ UNCHANGED <<env, now, expiry, kv>>

Settle(q) ==
    \/ SignatureInvalid(q)
    \/ ClaimInMemory(q)
    \/ SendClaim(q)
    \/ ServeClaim(q)
    \/ ClaimReply(q)
    \/ ClaimFails(q)

Next ==
    \/ Tick
    \/ \E n \in Nonces, i \in Instances : IssueNonce(n, i)
    \/ \E q \in Requests, n \in Nonces, i \in Instances, valid \in BOOLEAN :
         Submit(q, n, i, valid)
    \/ \E q \in Requests : Reject(q) \/ Settle(q)
    \/ \E i \in Instances : Recycle(i)

Spec == Init /\ [][Next]_vars

-----------------------------------------------------------------------------

TypeOK ==
    /\ env \in Deployments
    /\ now \in 0..MaxTime
    /\ expiry \in [Nonces -> 0..(MaxTime + TTL)]
    /\ signed \in [Instances -> SUBSET Nonces]
    /\ kv \subseteq Nonces
    /\ seen \in [Instances -> SUBSET Nonces]
    /\ requests \in [Requests -> RequestStates]

Accepted(q) == requests[q].answer = "ok"
SameNonce(p, q) == requests[p].nonce = requests[q].nonce

\* A nonce can be claimed in one place only: KV, or the memory of the instance
\* that issued it, which alone knows the secret.
OneStorePerNonce == env.store = "kv" \/ ~env.shared

\* Of the requests with one nonce that claim it before it expires, at most one
\* is accepted, on whatever instances they run (siwb.mjs:49-63).  A restart
\* without a shared secret forgets the nonces along with those it had seen.
OneWinnerInTime ==
    OneStorePerNonce => \A p, q \in Requests :
        p # q /\ SameNonce(p, q) /\ Accepted(p) /\ Accepted(q)
            => \E r \in {p, q} : requests[r].at >= expiry[requests[r].nonce]

\* As the comments have it: of two submissions of a nonce at most one wins.
OneWinner ==
    OneStorePerNonce => \A p, q \in Requests :
        p # q /\ SameNonce(p, q) /\ Accepted(p) => ~Accepted(q)

\* A nonce is refused as used only after a request with a valid signature took
\* it: a failed attempt burns nobody's nonce (siwb.mjs:49-50), whichever claims
\* fail, come late or lose their sender.  That request may be the refused one
\* itself, but only where KV's reply to it could not be read (nonceStore.mjs:58).
RefusedMeansTaken ==
    \A q \in Requests : requests[q].answer = "nonce_already_used" =>
        \E p \in Requests :
            /\ SameNonce(p, q) /\ requests[p].valid /\ requests[p].took
            /\ p = q => env.store = "kv"
=============================================================================
