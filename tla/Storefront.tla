----------------------------- MODULE Storefront -----------------------------
(***************************************************************************)
(* How the agent sells its audit: what a deployment charges is fixed when  *)
(* it is built, from the terms in x402Seller.mjs and the environment of    *)
(* that moment; it is advertised on a card that caches keep, asked for in  *)
(* a challenge, and settled by a facilitator for a request that may have   *)
(* been begun under another deployment.                                    *)
(***************************************************************************)
EXTENDS Naturals, FiniteSets

CONSTANTS
    Requests,        \* requests for /audit under way at once
    Terms,           \* payee, price and network, as x402Seller.mjs may say
    MaxSigned,       \* authorizations signed (bound of the model)
    MaxDeploys       \* deployments (bound of the model)

VARIABLES
    price,           \* the terms in the repository
    front,           \* the deployment that serves
    deploys,         \* how many there were
    card,            \* the agent card some cache holds
    quoted,          \* the terms buyers have read and not signed yet
    signed,          \* the authorizations they signed
    asked,           \* asked[r]: where request r is, with which deployment
    settled,         \* the authorizations the chain has executed
    sales,           \* what was served, by which deployment, for what (ghost)
    checked          \* the terms the smoke check found in order, or NoTerms

storeVars == <<price, front, deploys, card, quoted, signed, asked, settled, sales, checked>>

NoTerms == "none"
NoAuth  == [terms |-> NoTerms, nonce |-> 0]
Auths   == [terms : Terms, nonce : 1..MaxSigned]

\* The environment of a deployment: how many of the two CDP keys are set, and
\* whether ALLOW_UNPAID_AUDIT is "1".
Settings == [cdpKeys : 0..2, allowUnpaid : BOOLEAN]

\* Mutant: what cannot be sold is served free.
AuditModeOpen(env) == IF env.cdpKeys = 2 THEN "paid" ELSE "unpaid"

\* resolveAuditMode.
AuditMode(env) == IF env.cdpKeys = 2 THEN "paid"
                  ELSE IF env.allowUnpaid THEN "unpaid" ELSE "unavailable"

\* buildConfiguredApp: what a process is from its start on.
ConfiguredApp(env, terms) == [env |-> env, mode |-> AuditMode(env), terms |-> terms]

\* buildAuditPaymentMiddleware: what /audit accepts.
Accepts(app) == app.terms

\* Mutant: the card of the default mode, whatever the deployment's.
AgentCardOptimistic(app) == [audit |-> "paid", payment |-> app.terms]

\* agentCard: how /audit is served, and the terms where it is charged for.
AgentCard(app) == [audit   |-> app.mode,
                   payment |-> IF app.mode = "paid" THEN app.terms ELSE NoTerms]

\* The answer to a request for /audit that brings no payment, in that mode.
Unpaid(app) ==
    CASE app.mode = "unavailable" -> [status |-> 503, accepts |-> NoTerms]
      [] app.mode = "unpaid"      -> [status |-> 200, accepts |-> NoTerms]
      [] app.mode = "paid"        -> [status |-> 402, accepts |-> Accepts(app)]

NoKeys    == [cdpKeys |-> 0, allowUnpaid |-> FALSE]
NoRequest == [at |-> "none", app |-> ConfiguredApp(NoKeys, NoTerms), auth |-> NoAuth]

StoreInit ==
    /\ price \in Terms
    /\ front \in {ConfiguredApp(env, price) : env \in Settings}
    /\ card = AgentCard(front)
    /\ deploys = 0 /\ quoted = {} /\ signed = {} /\ settled = {} /\ sales = {}
    /\ asked = [r \in Requests |-> NoRequest]
    /\ checked = NoTerms

-----------------------------------------------------------------------------
(* The operator *)

\* A commit changes the terms.
Reprice(terms) ==
    /\ price' = terms /\ terms # price
    /\ UNCHANGED <<front, deploys, card, quoted, signed, asked, settled, sales, checked>>

\* A deployment; processes of the one before end what they have begun.
Redeploy(env) ==
    /\ deploys < MaxDeploys /\ deploys' = deploys + 1
    /\ front' = ConfiguredApp(env, price)
    /\ checked' = NoTerms
    /\ UNCHANGED <<price, card, quoted, signed, asked, settled, sales>>

\* smoke-audit.mjs: one request that pays nothing, whose challenge must be
\* for the terms of this checkout.
SmokeCheck ==
    LET answer == Unpaid(front)
    IN  /\ checked' = IF answer.status = 402 /\ answer.accepts = price THEN price ELSE NoTerms
        /\ UNCHANGED <<price, front, deploys, card, quoted, signed, asked, settled, sales>>

-----------------------------------------------------------------------------
(* The buyers *)

\* The front door and the card, which a cache may keep.
ReadCard ==
    /\ card' \in {card, AgentCard(front)}
    /\ quoted' = quoted \cup ({card'.payment} \ {NoTerms})
    /\ UNCHANGED <<price, front, deploys, signed, asked, settled, sales, checked>>

\* The first request of a client: a challenge, a refusal, or a report.
Ask(r) ==
    LET answer == Unpaid(front)
    IN  /\ asked[r].at = "none"
        /\ quoted' = quoted \cup ({answer.accepts} \ {NoTerms})
        /\ asked' = IF answer.status = 200
                    THEN [asked EXCEPT ![r] = [NoRequest EXCEPT !.at = "verified", !.app = front]]
                    ELSE asked
        /\ UNCHANGED <<price, front, deploys, card, signed, settled, sales, checked>>

\* The owner signs a transfer for the terms on the device; or does not.
Sign(terms) ==
    /\ terms \in quoted /\ quoted' = quoted \ {terms}
    /\ LET nonce == Cardinality(signed) + 1
       IN  signed' \in {signed} \cup IF nonce > MaxSigned THEN {}
                                    ELSE {signed \cup {[terms |-> terms, nonce |-> nonce]}}
    /\ UNCHANGED <<price, front, deploys, card, asked, settled, sales, checked>>

\* The request with the payment, or the same once more.  Where nothing is
\* charged nothing looks at it.
Send(r, auth) ==
    /\ asked[r].at = "none"
    /\ asked' = CASE front.mode = "paid" ->
                       [asked EXCEPT ![r] = [at |-> "sent", app |-> front, auth |-> auth]]
                  [] front.mode = "unpaid" ->
                       [asked EXCEPT ![r] = [NoRequest EXCEPT !.at = "verified", !.app = front]]
                  [] OTHER -> asked
    /\ UNCHANGED <<price, front, deploys, card, quoted, signed, settled, sales, checked>>

\* The facilitator compares the authorization with what the middleware of
\* that deployment accepts, and with the chain.
Verify(r) ==
    /\ asked[r].at = "sent"
    /\ asked' = [asked EXCEPT ![r] =
                    IF asked[r].auth.terms = Accepts(asked[r].app) /\ asked[r].auth \notin settled
                    THEN [@ EXCEPT !.at = "verified"] ELSE NoRequest]
    /\ UNCHANGED <<price, front, deploys, card, quoted, signed, settled, sales, checked>>

\* The handler of /audit answers; where it is free that is all.
Answer(r) ==
    /\ asked[r].at = "verified"
    /\ IF asked[r].auth = NoAuth
       THEN /\ sales' = sales \cup {[app |-> asked[r].app, auth |-> NoAuth, nth |-> 1]}
            /\ asked' = [asked EXCEPT ![r] = NoRequest]
       ELSE asked' = [asked EXCEPT ![r].at = "answered"] /\ UNCHANGED sales
    /\ UNCHANGED <<price, front, deploys, card, quoted, signed, settled, checked>>

\* Blockscout is unavailable: 502, and the payment is settled or it is not.
AnswerFails(r) ==
    /\ asked[r].at = "verified"
    /\ asked' = [asked EXCEPT ![r] = NoRequest]
    /\ settled' \in {settled, settled \cup ({asked[r].auth} \ {NoAuth})}
    /\ UNCHANGED <<price, front, deploys, card, quoted, signed, sales, checked>>

\* The middleware has the payment settled and lets the report go; the chain
\* executes no authorization twice, and may refuse this one.
Settle(r) ==
    /\ asked[r].at = "answered"
    /\ asked' = [asked EXCEPT ![r] = NoRequest]
    /\ \/ UNCHANGED <<settled, sales>>
       \/ /\ asked[r].auth \notin settled
          /\ settled' = settled \cup {asked[r].auth}
          /\ sales' = sales \cup
               {[app |-> asked[r].app, auth |-> asked[r].auth,
                 nth |-> 1 + Cardinality({sale \in sales : sale.auth = asked[r].auth})]}
    /\ UNCHANGED <<price, front, deploys, card, quoted, signed, checked>>

StoreNext ==
    \/ \E terms \in Terms : Reprice(terms) \/ Sign(terms)
    \/ \E env \in Settings : Redeploy(env)
    \/ SmokeCheck \/ ReadCard
    \/ \E r \in Requests :
         \/ Ask(r) \/ Verify(r) \/ Answer(r) \/ AnswerFails(r) \/ Settle(r)
         \/ \E auth \in signed : Send(r, auth)

StoreSpec == StoreInit /\ [][StoreNext]_storeVars

-----------------------------------------------------------------------------

\* A report leaves only where that was chosen for free, or for a payment of
\* its own on the terms of the deployment that took the request; keys that are
\* missing, or one of two, do not open the paid endpoint, nor does a
\* deployment in between or a payment sent twice (app.mjs:117-124).
ServedIsPaid ==
    /\ \A sale \in sales :
         IF sale.auth = NoAuth THEN sale.app.env.allowUnpaid /\ sale.app.env.cdpKeys < 2
         ELSE sale.auth \in settled /\ sale.auth.terms = sale.app.terms /\ sale.nth = 1

\* Nobody is charged other terms than were published: a deployment's card
\* tells how its /audit answers and the terms it asks for, a buyer has signed
\* what was executed, and once the smoke check has passed a deployment asks
\* for what was checked until the next (app.mjs:356-357, x402Seller.mjs:8-9,
\* smoke-audit.mjs:4-8).
ChargedAsAdvertised ==
    /\ \A app \in {front} \cup {asked[r].app : r \in Requests} :
         LET answer == Unpaid(app)
         IN  /\ AgentCard(app).payment = answer.accepts
             /\ answer.status = CASE AgentCard(app).audit = "paid"   -> 402
                                  [] AgentCard(app).audit = "unpaid" -> 200
                                  [] OTHER                           -> 503
    /\ settled \subseteq signed
    /\ checked # NoTerms => Unpaid(front).status = 402 /\ AgentCard(front).payment = checked
=============================================================================
