---------------------------- MODULE Agent_proofs ----------------------------
(***************************************************************************)
(* Proofs about the HTTP agent, a section for each of its parts as MCAgent *)
(* puts them together: the owner's scripts, the rules and their            *)
(* fingerprint, the sale of the audit, the limiter, and what the answers   *)
(* say. They hold for any wallet, words, known tickers and holdings, any   *)
(* bounds of age, any limit, window and number of clients, any requests,   *)
(* terms, deployments and scripts at once, and any size of key.            *)
(*                                                                         *)
(* RulesNamed needs that the stored fingerprint is that of the detector    *)
(* that made the baseline. LuresSeen needs that a pattern which shows in a *)
(* text shows wherever the text stands, and what it reads of a dot.        *)
(* AnswersAreRecent needs that every report, in the repository or          *)
(* deployed, is of the wallet as it once was, and no state file of a run   *)
(* later than the last. AtMostTwiceTheLimit counts the calls of each       *)
(* window; ToldWaitSuffices needs that a client that was refused is        *)
(* counted in the window it was refused in, or in none, and that the wait  *)
(* it was told reaches past that window's end in spite of the rounding.    *)
(* ServedIsPaid needs that a request that was verified is free or brings a *)
(* payment that fits, and that nothing was settled but what buyers signed. *)
(* ChargedInOrder needs that of each order at most one call is under way,  *)
(* and that it is the one after those that were mined.                     *)
(*                                                                         *)
(* KeyfileIsSecret and CollisionsExact are about what loops compute: the   *)
(* invariants are those of the loops, by the lemmas on folds. A round of   *)
(* base58Decode multiplies the number its bytes stand for by 58 and adds a *)
(* digit; after a round of findSymbolCollisions a group has the contracts  *)
(* of its symbol that were met so far, each once.                          *)
(***************************************************************************)
EXTENDS Agent, RateLimit, Storefront, WalletScripts, FoldLemmas, SequenceTheorems

-----------------------------------------------------------------------------
(* What the owner's scripts send *)

Orders == [id : Nat, sent : Nat, waiting : BOOLEAN]

ScriptsTypeOK ==
    /\ nonce \in Nat
    /\ prepared \in Seq(Seq(Calls)) /\ landed \in Seq(Seq(Calls))
    /\ \A tx \in pool : tx.call \in Calls
    /\ orders \in [Terminals -> Orders]

OrderIds == 1..Len(prepared)

\* The calls of an order that were mined are the first of it.
MinedInOrder(i) ==
    /\ Len(landed[i]) <= Len(prepared[i])
    /\ \A k \in 1..Len(landed[i]) : landed[i][k] = prepared[i][k]

\* What lies in the pool is the call of its order after those that were mined.
NextOfOrder(tx) ==
    /\ tx.order \in OrderIds /\ Len(landed[tx.order]) < Len(prepared[tx.order])
    /\ tx.call = prepared[tx.order][Len(landed[tx.order]) + 1]

\* A script has sent what was mined, or one call more.
Along(order) ==
    /\ order.id \in OrderIds
    /\ ~order.waiting => /\ Len(landed[order.id]) = order.sent
                         /\ order.sent < Len(prepared[order.id])
                         /\ \A tx \in pool : tx.order # order.id
    /\ order.waiting => \/ /\ Len(landed[order.id]) = order.sent
                           /\ \A tx \in pool : tx.order # order.id
                        \/ Len(landed[order.id]) + 1 = order.sent

ScriptsInv ==
    /\ ScriptsTypeOK
    /\ Len(landed) = Len(prepared)
    /\ \A i \in OrderIds : MinedInOrder(i)
    /\ \A tx \in pool : NextOfOrder(tx)
    /\ \A tx, u \in pool : tx.order = u.order => tx = u
    /\ \A d \in Terminals : orders[d] # NoOrder => Along(orders[d])
    /\ \A d, e \in Terminals :
          orders[d] # NoOrder /\ orders[e] # NoOrder /\ orders[d].id = orders[e].id => d = e

\* An order that begins is that of its number, one that goes on has one more
\* call under way.
LEMMA OrderBegun ==
    ASSUME NEW n \in Nat
    PROVE  LET order == [NoOrder EXCEPT !.id = n]
           IN  order \in Orders /\ order.id = n /\ order.sent = 0 /\ ~order.waiting
  BY DEF NoOrder, Orders

LEMMA OrderGoesOn ==
    ASSUME NEW order \in Orders
    PROVE  LET sent == [order EXCEPT !.sent = order.sent + 1, !.waiting = TRUE]
           IN  /\ sent \in Orders
               /\ sent.id = order.id /\ sent.sent = order.sent + 1 /\ sent.waiting
<1> DEFINE sent == [order EXCEPT !.sent = order.sent + 1, !.waiting = TRUE]
<1>1. ASSUME NEW some \in Orders PROVE [some EXCEPT !.waiting = TRUE] \in Orders
  BY DEF Orders
<1>2. [order EXCEPT !.sent = order.sent + 1] \in Orders
  BY DEF Orders
<1>3. sent = [[order EXCEPT !.sent = order.sent + 1] EXCEPT !.waiting = TRUE]
  OBVIOUS
<1>4. sent \in Orders
  BY <1>1, <1>2, <1>3
<1>5. sent.id = order.id /\ sent.sent = order.sent + 1 /\ sent.waiting
  BY DEF Orders
<1> QED BY <1>4, <1>5

LEMMA ScriptsInitially == ScriptsInit => ScriptsInv
<1> SUFFICES ASSUME ScriptsInit PROVE ScriptsInv
  OBVIOUS
<1>1. OrderIds = {} /\ Len(prepared) = 0 /\ Len(landed) = 0
  BY DEF ScriptsInit, OrderIds
<1>2. << >> \in Seq(Seq(Calls))
  OBVIOUS
<1>3. ScriptsTypeOK
  BY <1>2 DEF ScriptsInit, ScriptsTypeOK, NoOrder, Orders
<1> QED BY <1>1, <1>3 DEF ScriptsInit, ScriptsInv

\* An order is prepared: the others are as they were.
LEMMA PrepareKept ==
    ASSUME ScriptsInv, NEW d \in Terminals, NEW calls \in Seq(Calls), Len(calls) > 0,
           Prepare(d, calls)
    PROVE  ScriptsInv'
<1> DEFINE n == Len(prepared)
           order == [NoOrder EXCEPT !.id = n + 1]
<1>0. /\ n \in Nat /\ Len(landed) = n
      /\ prepared \in Seq(Seq(Calls)) /\ landed \in Seq(Seq(Calls)) /\ << >> \in Seq(Calls)
  BY DEF ScriptsInv, ScriptsTypeOK
<1>1. /\ prepared' = Append(prepared, calls) /\ landed' = Append(landed, << >>)
      /\ UNCHANGED <<nonce, pool>>
  BY DEF Prepare
<1>2. /\ Len(prepared') = n + 1 /\ Len(landed') = n + 1
      /\ \A i \in 1..n : prepared'[i] = prepared[i] /\ landed'[i] = landed[i]
      /\ prepared'[n + 1] = calls /\ landed'[n + 1] = << >>
      /\ prepared' \in Seq(Seq(Calls)) /\ landed' \in Seq(Seq(Calls))
  BY <1>0, <1>1, AppendProperties
<1>3. order \in Orders /\ order.id = n + 1 /\ order.sent = 0 /\ ~order.waiting
  <2>1. n + 1 \in Nat
    BY <1>0
  <2> QED BY <2>1, OrderBegun
<1>4. /\ \A e \in Terminals : orders'[e] = IF e = d THEN order ELSE orders[e]
      /\ orders' \in [Terminals -> Orders]
  <2>1. orders' = [orders EXCEPT ![d] = order]
    BY DEF Prepare
  <2> QED BY <1>3, <2>1 DEF ScriptsInv, ScriptsTypeOK
<1> HIDE DEF order, n
<1>5. OrderIds = 1..n /\ OrderIds' = 1..(n + 1)
  BY <1>2 DEF OrderIds, n
<1>6. ScriptsTypeOK'
  BY <1>1, <1>2, <1>4 DEF ScriptsTypeOK, ScriptsInv
<1>7. \A i \in OrderIds' : MinedInOrder(i)'
  <2>1. ASSUME NEW i \in 1..n PROVE MinedInOrder(i)'
    BY <1>2, <1>5, <2>1 DEF ScriptsInv, MinedInOrder
  <2>2. ASSUME NEW i, i = n + 1 PROVE MinedInOrder(i)'
    <3>1. landed'[i] = << >> /\ prepared'[i] = calls /\ Len(calls) \in Nat
      BY <1>2, <2>2
    <3> QED BY <3>1 DEF MinedInOrder
  <2> QED BY <1>0, <1>5, <2>1, <2>2
<1>8. \A tx \in pool : tx.order \in 1..n
  BY <1>5 DEF ScriptsInv, NextOfOrder
<1>9. \A tx \in pool' : NextOfOrder(tx)'
  BY <1>0, <1>1, <1>2, <1>5, <1>8 DEF ScriptsInv, NextOfOrder
<1>10. \A e \in Terminals : e # d /\ orders[e] # NoOrder => orders[e].id \in 1..n
  BY <1>5 DEF ScriptsInv, Along
<1>11. ASSUME NEW e \in Terminals, orders'[e] # NoOrder PROVE Along(orders[e])'
  <2>1. CASE e = d
    <3>1. /\ orders'[e].id = n + 1 /\ orders'[e].sent = 0 /\ ~orders'[e].waiting
          /\ n + 1 \in OrderIds'
      BY <1>0, <1>3, <1>4, <1>5, <2>1
    <3>2. /\ Len(landed'[n + 1]) = 0 /\ 0 < Len(prepared'[n + 1])
          /\ \A tx \in pool' : tx.order # n + 1
      BY <1>0, <1>1, <1>2, <1>8
    <3>3. /\ Len(landed'[orders'[e].id]) = orders'[e].sent
          /\ orders'[e].sent < Len(prepared'[orders'[e].id])
          /\ \A tx \in pool' : tx.order # orders'[e].id
      BY <3>1, <3>2
    <3> QED BY <3>1, <3>3 DEF Along
  <2>2. CASE e # d
    <3>1. orders'[e] = orders[e] /\ Along(orders[e])
      BY <1>4, <1>11, <2>2 DEF ScriptsInv
    <3>2. /\ orders[e].id \in OrderIds' /\ pool' = pool
          /\ landed'[orders[e].id] = landed[orders[e].id]
          /\ prepared'[orders[e].id] = prepared[orders[e].id]
      BY <1>0, <1>1, <1>2, <1>5, <3>1 DEF Along
    <3> QED BY <3>1, <3>2 DEF Along
  <2> QED BY <2>1, <2>2
<1>12. ASSUME NEW e \in Terminals, NEW f \in Terminals, orders'[e] # NoOrder,
              orders'[f] # NoOrder, orders'[e].id = orders'[f].id
       PROVE  e = f
  <2>1. CASE e # d /\ f # d
    BY <1>4, <1>12, <2>1 DEF ScriptsInv
  <2>2. CASE e = d \/ f = d
    <3>1. /\ e = d => orders'[e].id = n + 1
          /\ f = d => orders'[f].id = n + 1
          /\ e # d => orders'[e].id \in 1..n
          /\ f # d => orders'[f].id \in 1..n
      BY <1>3, <1>4, <1>10, <1>12
    <3> QED BY <1>0, <1>12, <2>2, <3>1
  <2> QED BY <2>1, <2>2
<1> QED BY <1>1, <1>2, <1>6, <1>7, <1>9, <1>11, <1>12 DEF ScriptsInv

\* A script goes on: nothing it shares changes but what is in the pool.
LEMMA OrderKept ==
    ASSUME ScriptsInv, NEW d \in Terminals, orders[d] # NoOrder,
           NEW order \in Orders,
           orders' = [orders EXCEPT ![d] = order],
           UNCHANGED <<nonce, prepared, landed, pool>>,
           order # NoOrder => order.id = orders[d].id /\ Along(order)
    PROVE  ScriptsInv'
<1>1. \A e \in Terminals : orders'[e] = IF e = d THEN order ELSE orders[e]
  BY DEF ScriptsInv, ScriptsTypeOK
<1>2. ScriptsTypeOK'
  BY DEF ScriptsInv, ScriptsTypeOK
<1>3. \A e \in Terminals : orders'[e] # NoOrder => Along(orders[e])'
  BY <1>1 DEF ScriptsInv, Along, OrderIds
<1>4. \A e, f \in Terminals :
         orders'[e] # NoOrder /\ orders'[f] # NoOrder /\ orders'[e].id = orders'[f].id => e = f
  BY <1>1 DEF ScriptsInv
<1> QED BY <1>2, <1>3, <1>4 DEF ScriptsInv, MinedInOrder, NextOfOrder, OrderIds

LEMMA SendKept ==
    ASSUME ScriptsInv, NEW d \in Terminals, NEW n, SendCall(d, n)
    PROVE  ScriptsInv'
<1> DEFINE order == orders[d]
           sent == [order EXCEPT !.sent = order.sent + 1, !.waiting = TRUE]
           tx == [order |-> order.id, nonce |-> n, call |-> prepared[order.id][order.sent + 1]]
<1>0. /\ order \in Orders
      /\ order # NoOrder /\ ~order.waiting /\ Along(order)
      /\ UNCHANGED <<nonce, prepared, landed>> /\ pool' = pool \cup {tx}
      /\ orders' = [orders EXCEPT ![d] = sent]
  BY DEF ScriptsInv, ScriptsTypeOK, SendCall
<1>1. /\ order.id \in OrderIds /\ Len(landed[order.id]) = order.sent
      /\ order.sent < Len(prepared[order.id]) /\ \A u \in pool : u.order # order.id
  BY <1>0 DEF Along
<1>2. /\ prepared[order.id] \in Seq(Calls)
      /\ OrderIds' = OrderIds /\ prepared \in Seq(Seq(Calls))
  BY <1>0, <1>1 DEF ScriptsInv, ScriptsTypeOK, OrderIds
<1>3. prepared[order.id][order.sent + 1] \in Calls
  BY <1>0, <1>1, <1>2
<1>4. tx.call \in Calls /\ tx.order = order.id /\ tx.call = prepared[order.id][order.sent + 1]
  BY <1>0, <1>3
<1>5. /\ sent \in Orders
      /\ sent.id = order.id /\ sent.sent = order.sent + 1 /\ sent.waiting
  BY <1>0, OrderGoesOn
<1>6. \A e \in Terminals : orders'[e] = IF e = d THEN sent ELSE orders[e]
  BY <1>0 DEF ScriptsInv, ScriptsTypeOK
<1> HIDE DEF sent, tx
<1>7. ScriptsTypeOK'
  BY <1>0, <1>4, <1>5 DEF ScriptsInv, ScriptsTypeOK
<1>8. \A u \in pool' : NextOfOrder(u)'
  BY <1>0, <1>1, <1>2, <1>4 DEF ScriptsInv, NextOfOrder
<1>9. \A u, v \in pool' : u.order = v.order => u = v
  BY <1>0, <1>1, <1>4 DEF ScriptsInv
<1>10. ASSUME NEW e \in Terminals, orders'[e] # NoOrder PROVE Along(orders[e])'
  <2>1. CASE e = d
    BY <1>0, <1>1, <1>2, <1>5, <1>6, <2>1 DEF Along
  <2>2. CASE e # d
    <3>1. orders[e].id # order.id /\ Along(orders[e])
      BY <1>0, <1>6, <1>10, <2>2 DEF ScriptsInv
    <3> QED BY <1>0, <1>2, <1>4, <1>6, <2>2, <3>1 DEF Along
  <2> QED BY <2>1, <2>2
<1>11. \A e, f \in Terminals :
          orders'[e] # NoOrder /\ orders'[f] # NoOrder /\ orders'[e].id = orders'[f].id => e = f
  BY <1>0, <1>5, <1>6 DEF ScriptsInv
<1>12. \A i \in OrderIds : MinedInOrder(i)'
  BY <1>0 DEF ScriptsInv, MinedInOrder
<1> QED BY <1>0, <1>2, <1>7, <1>8, <1>9, <1>10, <1>11, <1>12 DEF ScriptsInv

LEMMA MineKept ==
    ASSUME ScriptsInv, NEW tx \in pool, Mine(tx)
    PROVE  ScriptsInv'
<1> DEFINE i == tx.order
<1>0. /\ UNCHANGED <<prepared, orders>> /\ nonce' = nonce + 1 /\ tx.nonce = nonce
      /\ pool' = {other \in pool : other.nonce > nonce}
      /\ landed' = [landed EXCEPT ![i] = Append(@, tx.call)]
      /\ NextOfOrder(tx) /\ tx.call \in Calls /\ nonce \in Nat
      /\ prepared \in Seq(Seq(Calls)) /\ landed \in Seq(Seq(Calls)) /\ Len(landed) = Len(prepared)
  BY DEF ScriptsInv, ScriptsTypeOK, Mine
<1>1. i \in OrderIds /\ OrderIds = 1..Len(landed) /\ OrderIds' = OrderIds /\ MinedInOrder(i)
  BY <1>0 DEF NextOfOrder, OrderIds, ScriptsInv
<1>2. tx.call \in Calls /\ landed[i] \in Seq(Calls)
  BY <1>0, <1>1
<1>3. /\ landed' \in Seq(Seq(Calls)) /\ Len(landed') = Len(landed)
      /\ landed'[i] = Append(landed[i], tx.call)
      /\ \A j \in OrderIds : j # i => landed'[j] = landed[j]
  <2>1. Append(landed[i], tx.call) \in Seq(Calls)
    BY <1>2, AppendProperties
  <2> QED BY <1>0, <1>1, <2>1, ExceptSeq
<1>4. /\ Len(landed'[i]) = Len(landed[i]) + 1 /\ landed'[i][Len(landed[i]) + 1] = tx.call
      /\ \A k \in 1..Len(landed[i]) : landed'[i][k] = landed[i][k]
      /\ Len(landed[i]) \in Nat
  BY <1>2, <1>3, AppendProperties
<1>5. pool' \subseteq pool /\ tx \notin pool' /\ \A u \in pool' : u.order # i
  BY <1>0 DEF ScriptsInv
<1> HIDE DEF i
<1>6. ScriptsTypeOK'
  BY <1>0, <1>3, <1>5 DEF ScriptsInv, ScriptsTypeOK
<1>7. ASSUME NEW j \in OrderIds PROVE MinedInOrder(j)'
  <2>1. CASE j = i
    <3>1. /\ Len(landed[i]) < Len(prepared[i])
          /\ tx.call = prepared[i][Len(landed[i]) + 1]
      BY <1>0 DEF NextOfOrder, i
    <3>2. Len(prepared[i]) \in Nat
      BY <1>0, <1>1 DEF OrderIds
    <3> QED BY <1>0, <1>1, <1>4, <2>1, <3>1, <3>2 DEF MinedInOrder
  <2>2. CASE j # i
    BY <1>0, <1>3, <2>2 DEF ScriptsInv, MinedInOrder
  <2> QED BY <2>1, <2>2
<1>8. \A u \in pool' : NextOfOrder(u)'
  <2> SUFFICES ASSUME NEW u \in pool' PROVE NextOfOrder(u)'
    OBVIOUS
  <2>1. NextOfOrder(u) /\ u.order # i
    BY <1>5 DEF ScriptsInv
  <2> QED BY <1>0, <1>1, <1>3, <2>1 DEF NextOfOrder
<1>9. ASSUME NEW d \in Terminals, orders[d] # NoOrder PROVE Along(orders[d])'
  <2>1. Along(orders[d])
    BY <1>9 DEF ScriptsInv
  <2>2. CASE orders[d].id = i
    <3>1. orders[d].waiting /\ Len(landed[i]) + 1 = orders[d].sent
      BY <2>1, <2>2 DEF Along, i
    <3> QED BY <1>0, <1>1, <1>4, <1>5, <2>1, <2>2, <3>1 DEF Along
  <2>3. CASE orders[d].id # i
    BY <1>0, <1>1, <1>3, <1>5, <2>1, <2>3 DEF Along
  <2> QED BY <2>2, <2>3
<1>10. \A u, v \in pool' : u.order = v.order => u = v
  BY <1>5 DEF ScriptsInv
<1> QED BY <1>0, <1>1, <1>3, <1>6, <1>7, <1>8, <1>9, <1>10 DEF ScriptsInv

LEMMA ScriptsInductive == ScriptsSpec => []ScriptsInv
<1>1. ASSUME ScriptsInv, [ScriptsNext]_scriptVars PROVE ScriptsInv'
  <2>1. CASE UNCHANGED <<nonce, pool, prepared, landed, orders>>
    BY <1>1, <2>1 DEF ScriptsInv, ScriptsTypeOK, MinedInOrder, NextOfOrder, Along, OrderIds
  <2>2. ASSUME NEW d \in Terminals, NEW amount \in 1..Allowance, PrepareCharge(d, amount)
        PROVE  ScriptsInv'
    <3>1. Approve \in Calls /\ Spend(amount) \in Calls
      BY <2>2, ScriptsAssumption DEF Calls, Approve, Spend
    <3>2. /\ <<Spend(amount)>> \in Seq(Calls) /\ Len(<<Spend(amount)>>) > 0
          /\ <<Approve, Spend(amount)>> \in Seq(Calls) /\ Len(<<Approve, Spend(amount)>>) > 0
      BY <3>1
    <3>3. Prepare(d, <<Spend(amount)>>) \/ Prepare(d, <<Approve, Spend(amount)>>)
      BY <2>2 DEF PrepareCharge
    <3> QED BY <1>1, <3>2, <3>3, PrepareKept
  <2>3. ASSUME NEW d \in Terminals, PrepareRevoke(d) PROVE ScriptsInv'
    <3>1. <<Revoke>> \in Seq(Calls) /\ Len(<<Revoke>>) > 0
      BY ScriptsAssumption DEF Calls, Revoke
    <3> QED BY <1>1, <2>3, <3>1, PrepareKept DEF PrepareRevoke
  <2>4. ASSUME NEW d \in Terminals, Confirmed(d) PROVE ScriptsInv'
    <3> DEFINE old == orders[d]
               new == IF old.sent = Len(prepared[old.id]) THEN NoOrder
                      ELSE [old EXCEPT !.waiting = FALSE]
    <3>1. /\ old \in Orders /\ Along(old)
          /\ old # NoOrder /\ old.waiting /\ Len(landed[old.id]) = old.sent
          /\ orders' = [orders EXCEPT ![d] = new]
          /\ UNCHANGED <<nonce, prepared, landed, pool>>
      BY <1>1, <2>4 DEF Confirmed, ScriptsInv, ScriptsTypeOK
    <3>2. NoOrder \in Orders
      BY DEF NoOrder, Orders
    <3>3. new \in Orders
      BY <3>1, <3>2 DEF Orders
    <3>4. \A tx \in pool : tx.order # old.id
      BY <3>1 DEF Along
    <3>5. old.sent <= Len(prepared[old.id]) /\ Len(prepared[old.id]) \in Nat
      BY <1>1, <3>1 DEF Along, ScriptsInv, ScriptsTypeOK, MinedInOrder, OrderIds
    <3>6. new # NoOrder => /\ new.id = old.id /\ ~new.waiting /\ new.sent = old.sent
                           /\ old.sent # Len(prepared[old.id])
      BY <3>1 DEF Orders
    <3> HIDE DEF new
    <3>7. new # NoOrder => new.id = old.id /\ Along(new)
      BY <3>1, <3>4, <3>5, <3>6 DEF Along
    <3> QED BY <1>1, <3>1, <3>3, <3>7, OrderKept
  <2>5. ASSUME NEW d \in Terminals, CallFails(d) PROVE ScriptsInv'
    <3>1. NoOrder \in Orders
      BY DEF NoOrder, Orders
    <3> QED BY <1>1, <2>5, <3>1, OrderKept DEF CallFails
  <2>6. ASSUME NEW d \in Terminals, NEW n \in nonce..(nonce + Cardinality(pool)), SendCall(d, n)
        PROVE  ScriptsInv'
    BY <1>1, <2>6, SendKept
  <2> QED BY <1>1, <2>1, <2>2, <2>3, <2>4, <2>5, <2>6, MineKept
          DEF ScriptsNext, PermissionNext, DayPasses, Convert, scriptVars, permissionVars
<1> QED BY <1>1, ScriptsInitially, PTL DEF ScriptsSpec

\* No call of a charge or a revocation is mined twice or before the one it
\* follows, for any number of scripts, orders, lagging nodes, refused nonces and
\* lost answers (spend-permission.mjs).
THEOREM NothingTwice == ScriptsSpec => []ChargedInOrder
<1>1. ScriptsInv => ChargedInOrder
  <2> SUFFICES ASSUME ScriptsInv, NEW i \in DOMAIN prepared
               PROVE  IsPrefix(landed[i], prepared[i])
    BY DEF ChargedInOrder
  <2>1. /\ i \in OrderIds /\ MinedInOrder(i)
        /\ landed[i] \in Seq(Calls) /\ prepared[i] \in Seq(Calls)
    BY DEF ScriptsInv, ScriptsTypeOK, OrderIds
  <2>2. /\ Len(landed[i]) \in Nat /\ Len(prepared[i]) \in Nat
        /\ Len(landed[i]) <= Len(prepared[i])
        /\ \A k \in 1..Len(landed[i]) : landed[i][k] = prepared[i][k]
    BY <2>1 DEF MinedInOrder
  <2>3. SubSeq(landed[i], 1, Len(landed[i])) = SubSeq(prepared[i], 1, Len(landed[i]))
    BY <2>1, <2>2
  <2> QED BY <2>2, <2>3 DEF IsPrefix
<1> QED BY <1>1, ScriptsInductive, PTL

-----------------------------------------------------------------------------
(* The key file a pasted secret is converted to *)

\* What a number written in some base is worth, digit by digit.
Horner(v, n, digits, base) ==
    v[0] = 0 /\ \A m \in 1..n : v[m] = v[m - 1] * base + digits[m]
AddsUp(n, digits, base, value) ==
    \E v \in [0..n -> Nat] : Horner(v, n, digits, base) /\ value = v[n]

\* ValueOf adds up the digits from the first to the last.
LEMMA ValueSteps ==
    ASSUME NEW base \in Nat, NEW n \in Nat, NEW digits \in [1..n -> Nat]
    PROVE  AddsUp(n, digits, base, ValueOf(digits, base))
<1> DEFINE Folds(g) == g = [s \in SUBSET (1..n) |->
                     IF s = {} THEN 0 ELSE g[s \ {Max(s)}] * base + digits[Max(s)]]
           iter == CHOOSE g : Folds(g)
           step == [x \in Nat \X (1..n) |-> x[1] * base + digits[x[2]]]
<1>1. ValueOf(digits, base) = iter[1..n]
  <2>1. DOMAIN digits = 1..n
    OBVIOUS
  <2> QED BY <2>1 DEF ValueOf, FoldLeft, MapThenFoldSet
<1>2. \A t \in Nat, m \in 1..n : step[<<t, m>>] = t * base + digits[m] /\ step[<<t, m>>] \in Nat
  OBVIOUS
<1> HIDE DEF step
<1>3. StaysIn(Nat, 1..n, step)
  BY <1>2 DEF StaysIn
<1>4. PICK g \in [SUBSET (1..n) -> Nat] :
         IsFold(g, 1..n, 0, step, LastIn(n)) /\ LeadsTo(n, Nat, 0, step, g[1..n])
  BY <1>3, FoldLeftExists
<1>5. \A s \in SUBSET (1..n) :
         g[s] = IF s = {} THEN 0 ELSE g[s \ {Max(s)}] * base + digits[Max(s)]
  BY <1>2, <1>4, LastOf DEF IsFold, LastIn
<1>6. Folds(iter)
  <2>1. Folds(g)
    BY <1>5
  <2> QED BY <2>1
<1>7. iter[1..n] = g[1..n]
  <2>1. InStep(iter, g, 1..n, LastIn(n))
    BY <1>5, <1>6 DEF LastIn, InStep
  <2>2. IsFiniteSet(1..n) /\ Picks(LastIn(n), 1..n)
    BY <1>3, FoldLeftExists
  <2> HIDE DEF iter, Folds
  <2> QED BY <2>1, <2>2, FoldsAgree
<1> HIDE DEF iter, Folds
<1>8. PICK p \in [0..n -> Nat] : Steps(p, n, 0, step) /\ g[1..n] = p[n]
  BY <1>4 DEF LeadsTo
<1>9. ASSUME NEW m \in 1..n PROVE p[m] = p[m - 1] * base + digits[m]
  <2>1. m - 1 \in 0..n
    OBVIOUS
  <2> QED BY <1>2, <1>8, <2>1 DEF Steps
<1> QED BY <1>1, <1>7, <1>8, <1>9 DEF Steps, Horner, AddsUp

\* What one round of base58Decode writes and carries, byte by byte.
Carries(carry, out, n, bytes, value) ==
    /\ n \in Nat /\ bytes \in [1..n -> 0..255] /\ out \in [1..n -> 0..255]
    /\ carry \in [0..n -> 0..57] /\ carry[0] = value
    /\ \A m \in 1..n : carry[m - 1] + bytes[m] * 58 = out[m] + 256 * carry[m]
Carried(out, carry) == IF carry = 0 THEN out ELSE Append(out, carry)

\* A round goes through the bytes from the first to the last, and appends what
\* it is left with.
LEMMA ByteSteps ==
    ASSUME NEW n \in Nat, NEW bytes \in [1..n -> 0..255], NEW value \in 0..57
    PROVE  \E carry \in [0..n -> 0..57], out \in [1..n -> 0..255] :
              /\ Carries(carry, out, n, bytes, value)
              /\ Shifted(bytes, value) = Carried(out, carry[n])
<1> DEFINE Low(x)  == x % 256
           High(x) == x \div 256
           T == [bytes : Seq(0..255), carry : 0..57]
           first == [bytes |-> << >>, carry |-> value]
           Byte(acc, byte) == [bytes |-> Append(acc.bytes, Low(acc.carry + byte * 58)),
                               carry |-> High(acc.carry + byte * 58)]
           Folds(g) == g = [s \in SUBSET (1..n) |->
                     IF s = {} THEN first ELSE Byte(g[s \ {Max(s)}], bytes[Max(s)])]
           iter == CHOOSE g : Folds(g)
           step == [x \in T \X (1..n) |-> Byte(x[1], bytes[x[2]])]
           all == iter[1..n]
<1>1. Shifted(bytes, value) = IF all.carry = 0 THEN all.bytes ELSE Append(all.bytes, all.carry)
  <2>1. DOMAIN bytes = 1..n
    OBVIOUS
  <2> QED BY <2>1 DEF Shifted, Low, High, FoldLeft, MapThenFoldSet
<1>2. first \in T
  OBVIOUS
<1>3. ASSUME NEW c \in 0..57, NEW b \in 0..255
      PROVE  /\ Low(c + b * 58) \in 0..255 /\ High(c + b * 58) \in 0..57
             /\ c + b * 58 = Low(c + b * 58) + 256 * High(c + b * 58)
  <2> DEFINE x == c + b * 58
  <2>1. x \in Nat /\ x < 256 * 58
    OBVIOUS
  <2> HIDE DEF x
  <2>2. x % 256 \in 0..255 /\ x \div 256 \in 0..57 /\ x = (x % 256) + 256 * (x \div 256)
    BY <2>1
  <2> QED BY <2>2 DEF x
<1> HIDE DEF Low, High
<1>4. ASSUME NEW t \in T, NEW m \in 1..n PROVE Byte(t, bytes[m]) \in T
  <2>1. t.bytes \in Seq(0..255) /\ t.carry \in 0..57 /\ bytes[m] \in 0..255
    BY <1>4
  <2>2. Low(t.carry + bytes[m] * 58) \in 0..255 /\ High(t.carry + bytes[m] * 58) \in 0..57
    BY <1>3, <2>1
  <2>3. Append(t.bytes, Low(t.carry + bytes[m] * 58)) \in Seq(0..255)
    BY <2>1, <2>2
  <2> QED BY <2>2, <2>3
<1> HIDE DEF T, first, Byte
<1>5. \A t \in T, m \in 1..n : step[<<t, m>>] = Byte(t, bytes[m]) /\ step[<<t, m>>] \in T
  BY <1>4
<1> HIDE DEF step
<1>6. StaysIn(T, 1..n, step)
  BY <1>5 DEF StaysIn
<1>7. PICK g \in [SUBSET (1..n) -> T] :
         IsFold(g, 1..n, first, step, LastIn(n)) /\ LeadsTo(n, T, first, step, g[1..n])
  BY <1>2, <1>6, FoldLeftExists
<1>8. \A s \in SUBSET (1..n) :
         g[s] = IF s = {} THEN first ELSE Byte(g[s \ {Max(s)}], bytes[Max(s)])
  <2> TAKE s \in SUBSET (1..n)
  <2>1. CASE s = {}
    BY <1>7, <2>1 DEF IsFold
  <2>2. CASE s # {}
    <3>1. Max(s) \in 1..n /\ s \ {Max(s)} \in SUBSET (1..n) /\ LastIn(n)[s] = Max(s)
      BY <2>2, LastOf DEF LastIn
    <3>2. g[s \ {Max(s)}] \in T
      BY <3>1
    <3>3. g[s] = step[<<g[s \ {Max(s)}], Max(s)>>]
      BY <1>7, <2>2, <3>1 DEF IsFold
    <3> QED BY <1>5, <2>2, <3>1, <3>2, <3>3
  <2> QED BY <2>1, <2>2
<1>9. Folds(iter)
  <2>1. Folds(g)
    BY <1>8
  <2> QED BY <2>1
<1>10. iter[1..n] = g[1..n]
  <2> HIDE DEF iter
  <2>1. InStep(iter, g, 1..n, LastIn(n))
    BY <1>8, <1>9 DEF LastIn, InStep
  <2>2. IsFiniteSet(1..n) /\ Picks(LastIn(n), 1..n)
    BY <1>6, <1>2, FoldLeftExists
  <2> HIDE DEF Folds
  <2> QED BY <2>1, <2>2, FoldsAgree
<1> HIDE DEF iter, Folds
<1>11. PICK p \in [0..n -> T] : Steps(p, n, first, step) /\ g[1..n] = p[n]
  BY <1>7 DEF LeadsTo
<1>12. p[0] = first /\ \A m \in 1..n : p[m] = Byte(p[m - 1], bytes[m])
  <2>1. \A m \in 1..n : m - 1 \in 0..n
    OBVIOUS
  <2> QED BY <1>5, <1>11, <2>1 DEF Steps
<1> DEFINE carry == [m \in 0..n |-> p[m].carry]
           out   == [m \in 1..n |-> Low(p[m - 1].carry + bytes[m] * 58)]
<1>13. \A m \in 0..n : p[m].carry \in 0..57 /\ p[m].bytes \in Seq(0..255)
  BY DEF T
<1>14. \A m \in 1..n : m - 1 \in 0..n /\ m \in 0..n
  OBVIOUS
<1>15. carry \in [0..n -> 0..57] /\ out \in [1..n -> 0..255] /\ carry[0] = value
  <2>1. ASSUME NEW m \in 1..n PROVE Low(p[m - 1].carry + bytes[m] * 58) \in 0..255
    <3>1. p[m - 1].carry \in 0..57 /\ bytes[m] \in 0..255
      BY <1>13, <1>14
    <3> QED BY <1>3, <3>1
  <2>2. p[0].carry = value /\ 0 \in 0..n
    BY <1>12 DEF first
  <2> QED BY <1>13, <2>1, <2>2
<1>16. \A m \in 1..n : carry[m - 1] + bytes[m] * 58 = out[m] + 256 * carry[m]
  <2> TAKE m \in 1..n
  <2>1. p[m].carry = High(p[m - 1].carry + bytes[m] * 58)
    <3>1. p[m] = Byte(p[m - 1], bytes[m])
      BY <1>12
    <3> QED BY <3>1 DEF Byte
  <2>2. p[m - 1].carry \in 0..57 /\ bytes[m] \in 0..255
    BY <1>13, <1>14
  <2>3. p[m - 1].carry + bytes[m] * 58 = Low(p[m - 1].carry + bytes[m] * 58)
                                         + 256 * High(p[m - 1].carry + bytes[m] * 58)
    BY <1>3, <2>2, Zenon
  <2>4. m \in 0..n /\ m - 1 \in 0..n
    BY <1>14
  <2> QED BY <2>1, <2>3, <2>4
<1>17. all.carry = carry[n] /\ all.bytes = out
  <2> DEFINE Written == {m \in 0..n : Len(p[m].bytes) = m /\ \A j \in 1..m : p[m].bytes[j] = out[j]}
  <2>1. 0 \in Written
    BY <1>12 DEF first
  <2>2. ASSUME NEW m \in 1..n, m - 1 \in Written PROVE m \in Written
    <3>1. p[m].bytes = Append(p[m - 1].bytes, out[m])
      <4>1. p[m] = Byte(p[m - 1], bytes[m])
        BY <1>12
      <4> QED BY <4>1 DEF Byte
    <3>2. p[m - 1].bytes \in Seq(0..255) /\ Len(p[m - 1].bytes) = m - 1
      BY <1>13, <1>14, <2>2
    <3>3. out[m] \in 0..255
      BY <1>15
    <3>4. Len(p[m].bytes) = m
      BY <3>1, <3>2, <3>3
    <3>5. ASSUME NEW j \in 1..m PROVE p[m].bytes[j] = out[j]
      <4>1. CASE j = m
        BY <3>1, <3>2, <3>3, <4>1
      <4>2. CASE j # m
        <5>1. j \in 1..(m - 1)
          BY <4>2
        <5>2. p[m - 1].bytes[j] = out[j]
          BY <2>2, <5>1, Zenon
        <5> QED BY <3>1, <3>2, <3>3, <5>1, <5>2
      <4> QED BY <4>1, <4>2
    <3> QED BY <3>4, <3>5, <1>14
  <2> HIDE DEF Written
  <2>3. \A m \in 0..n : m \in Written
    BY <2>1, <2>2, InductionUpTo
  <2>4. n \in 0..n
    OBVIOUS
  <2>5. Len(p[n].bytes) = n /\ \A j \in 1..n : p[n].bytes[j] = out[j]
    BY <2>3, <2>4 DEF Written
  <2>6. p[n].bytes = out
    <3> DEFINE whole == p[n].bytes
    <3>1. whole \in Seq(0..255) /\ Len(whole) = n /\ \A j \in 1..n : whole[j] = out[j]
      BY <1>13, <2>4, <2>5
    <3>2. out \in Seq(0..255) /\ Len(out) = n
      BY <1>1, <1>15, IsSequence
    <3> HIDE DEF whole, out
    <3>3. whole = out
      BY <3>1, <3>2, SeqEqual
    <3> QED BY <3>3 DEF whole
  <2> QED BY <1>10, <1>11, <2>4, <2>6
<1> HIDE DEF all, carry, out
<1> QED BY <1>1, <1>15, <1>16, <1>17 DEF Carries, Carried

\* What bytes are worth, least significant first.
Little(bytes) == ValueOf(Reverse(bytes), 256)

\* A byte more: w1 and v1 become w and v, and the carry c makes up for d.
Row(w, w1, v, v1, b, c, d, o) ==
    /\ {w, w1, v, v1, b, c, d, o} \subseteq Nat
    /\ d + b * 58 = o + 256 * c /\ w1 = v1 * 58 + c /\ w = w1 * 256 + o /\ v = v1 * 256 + b

\* What the bytes below were multiplied by, the byte more is.
LEMMA RowsAgree ==
    ASSUME NEW w, NEW w1, NEW v, NEW v1, NEW b, NEW c, NEW d, NEW o,
           Row(w, w1, v, v1, b, c, d, o)
    PROVE  w = v * 58 + d
<1>1. /\ w \in Nat /\ w1 \in Nat /\ v \in Nat /\ v1 \in Nat
      /\ b \in Nat /\ c \in Nat /\ d \in Nat /\ o \in Nat
  BY DEF Row
<1> QED BY <1>1 DEF Row

\* The number with one more digit of base 58.
Continues(whole, bytes, value) == Little(whole) = Little(bytes) * 58 + value

\* One round multiplies by 58 and adds the value: the carries, from the last
\* byte down, are what the bytes above lack of it.
LEMMA ShiftedValue ==
    ASSUME NEW n, NEW bytes, NEW value, NEW carry, NEW out,
           Carries(carry, out, n, bytes, value)
    PROVE  Continues(Carried(out, carry[n]), bytes, value)
<1> DEFINE whole == Carried(out, carry[n])
<1> SUFFICES Little(whole) = Little(bytes) * 58 + value
  BY DEF Continues
<1> HIDE DEF whole
<1> n \in Nat /\ carry \in [0..n -> 0..57]
  BY DEF Carries
<1>0. /\ \A i \in 1..n : bytes[i] \in Nat /\ out[i] \in Nat
      /\ \A i \in 0..n : carry[i] \in Nat
  <2>1. (\A x \in 0..255 : x \in Nat) /\ \A x \in 0..57 : x \in Nat
    OBVIOUS
  <2>2. bytes \in [1..n -> Nat]
    BY <2>1 DEF Carries
  <2>3. out \in [1..n -> Nat]
    BY <2>1 DEF Carries
  <2>4. carry \in [0..n -> Nat]
    BY <2>1
  <2> QED BY <2>2, <2>3, <2>4
<1>1. Len(bytes) = n /\ Reverse(bytes) = [i \in 1..n |-> bytes[(n - i) + 1]]
  <2>1. Len(bytes) = n
    BY DEF Carries
  <2> QED BY <2>1 DEF Reverse
<1>2. \A i \in 1..n : (n - i) + 1 \in 1..n /\ n - i \in 0..n /\ i - 1 \in 0..n /\ i \in 0..n
  OBVIOUS
<1>3. Reverse(bytes) \in [1..n -> Nat]
  BY <1>0, <1>1, <1>2
<1>4. PICK v \in [0..n -> Nat] : Horner(v, n, Reverse(bytes), 256) /\ Little(bytes) = v[n]
  <2>1. AddsUp(n, Reverse(bytes), 256, Little(bytes))
    BY <1>3, ValueSteps DEF Little
  <2> QED BY <2>1 DEF AddsUp
<1>5. \A m \in 1..n : v[m] = v[m - 1] * 256 + bytes[(n - m) + 1]
  BY <1>1, <1>4 DEF Horner
\* A sequence worth carry[n] more at its end.
<1>6. ASSUME NEW w \in [0..n -> Nat], w[0] = carry[n],
             \A m \in 1..n : w[m] = w[m - 1] * 256 + out[(n - m) + 1]
      PROVE  w[n] = v[n] * 58 + value
  <2> DEFINE Worth == {m \in 0..n : w[m] = v[m] * 58 + carry[n - m]}
  <2>1. 0 \in Worth
    BY <1>4, <1>6 DEF Horner
  <2>2. ASSUME NEW m \in 1..n, m - 1 \in Worth PROVE m \in Worth
    <3> DEFINE k == (n - m) + 1
    <3>1. k \in 1..n /\ k - 1 = n - m /\ n - (m - 1) = k /\ m - 1 \in 0..n /\ m \in 0..n
      OBVIOUS
    <3>2. carry[n - m] + bytes[k] * 58 = out[k] + 256 * carry[k]
      <4>1. carry[k - 1] + bytes[k] * 58 = out[k] + 256 * carry[k]
        BY <3>1, Zenon DEF Carries
      <4> QED BY <3>1, <4>1
    <3>3. w[m - 1] = v[m - 1] * 58 + carry[k]
      BY <2>2, <3>1
    <3>4. w[m] = w[m - 1] * 256 + out[k] /\ v[m] = v[m - 1] * 256 + bytes[k]
      BY <1>5, <1>6
    <3>5. /\ carry[n - m] \in Nat /\ carry[k] \in Nat /\ bytes[k] \in Nat /\ out[k] \in Nat
          /\ v[m] \in Nat /\ v[m - 1] \in Nat /\ w[m] \in Nat /\ w[m - 1] \in Nat
      BY <1>0, <3>1
    <3> HIDE DEF k
    <3>6. w[m] = v[m] * 58 + carry[n - m]
      <4>1. Row(w[m], w[m - 1], v[m], v[m - 1], bytes[k], carry[k], carry[n - m], out[k])
        BY <3>2, <3>3, <3>4, <3>5 DEF Row
      <4> QED BY <4>1, RowsAgree
    <3> QED BY <3>1, <3>6
  <2> HIDE DEF Worth
  <2>3. \A m \in 0..n : m \in Worth
    BY <2>1, <2>2, InductionUpTo
  <2>4. n \in Worth
    BY <2>3
  <2>5. n - n = 0
    OBVIOUS
  <2> QED BY <2>4, <2>5 DEF Worth, Carries
<1>7. CASE carry[n] = 0
  <2>1. Reverse(whole) = [i \in 1..n |-> out[(n - i) + 1]] /\ Reverse(whole) \in [1..n -> Nat]
    <3>1. whole = out /\ Len(out) = n
      BY <1>7 DEF whole, Carried, Carries
    <3>2. Reverse(whole) = [i \in 1..n |-> out[(n - i) + 1]]
      BY <3>1 DEF Reverse
    <3> QED BY <1>0, <1>2, <3>2
  <2>2. PICK w \in [0..n -> Nat] : Horner(w, n, Reverse(whole), 256) /\ Little(whole) = w[n]
    <3>1. AddsUp(n, Reverse(whole), 256, Little(whole))
      BY <2>1, ValueSteps DEF Little
    <3> QED BY <3>1 DEF AddsUp
  <2>3. w[0] = carry[n] /\ \A m \in 1..n : w[m] = w[m - 1] * 256 + out[(n - m) + 1]
    <3>1. w[0] = 0 /\ \A m \in 1..n : w[m] = w[m - 1] * 256 + Reverse(whole)[m]
      BY <2>2 DEF Horner
    <3>2. \A m \in 1..n : Reverse(whole)[m] = out[(n - m) + 1]
      BY <2>1
    <3>3. ASSUME NEW m \in 1..n PROVE w[m] = w[m - 1] * 256 + out[(n - m) + 1]
      <4>1. w[m] = w[m - 1] * 256 + Reverse(whole)[m]
        BY <3>1
      <4>2. Reverse(whole)[m] = out[(n - m) + 1]
        BY <3>2
      <4> QED BY <4>1, <4>2
    <3> QED BY <1>7, <3>1, <3>3
  <2>4. w[n] = v[n] * 58 + value
    BY <1>6, <2>3
  <2> QED BY <1>4, <2>2, <2>4
<1>8. CASE carry[n] # 0
  <2>1. whole = [i \in 1..(n + 1) |-> IF i = n + 1 THEN carry[n] ELSE out[i]]
    <3>1. out \in Seq(0..255) /\ Len(out) = n
      BY DEF Carries
    <3>2. whole = Append(out, carry[n])
      BY <1>8 DEF whole, Carried
    <3> QED BY <3>1, <3>2
  <2>2. Reverse(whole) = [i \in 1..(n + 1) |-> IF i = 1 THEN carry[n] ELSE out[((n - i) + 1) + 1]]
    <3>1. Len(whole) = n + 1
      BY <2>1
    <3>2. \A i \in 1..(n + 1) :
             /\ ((n + 1) - i) + 1 \in 1..(n + 1)
             /\ ((n + 1) - i) + 1 = n + 1 <=> i = 1
             /\ ((n + 1) - i) + 1 = ((n - i) + 1) + 1
      OBVIOUS
    <3>3. \A i \in 1..(n + 1) : whole[((n + 1) - i) + 1]
                                 = IF i = 1 THEN carry[n] ELSE out[((n - i) + 1) + 1]
      BY <2>1, <3>2
    <3> QED BY <3>1, <3>3 DEF Reverse
  <2>3. Reverse(whole) \in [1..(n + 1) -> Nat]
    <3>1. ASSUME NEW i \in 1..(n + 1), i # 1 PROVE ((n - i) + 1) + 1 \in 1..n
      BY <3>1
    <3> QED BY <1>0, <2>2, <3>1
  <2>4. PICK u \in [0..(n + 1) -> Nat] :
           Horner(u, n + 1, Reverse(whole), 256) /\ Little(whole) = u[n + 1]
    <3>1. n + 1 \in Nat /\ 256 \in Nat
      OBVIOUS
    <3>2. AddsUp(n + 1, Reverse(whole), 256, Little(whole))
      BY <2>3, <3>1, ValueSteps DEF Little
    <3> QED BY <3>2 DEF AddsUp
  <2> DEFINE w == [m \in 0..n |-> u[m + 1]]
  <2>5. w \in [0..n -> Nat]
    OBVIOUS
  <2>6. w[0] = carry[n]
    <3>1. Reverse(whole)[1] = carry[n] /\ 1 \in 1..(n + 1) /\ 1 - 1 = 0
      BY <2>2
    <3>2. u[0] = 0 /\ u[1] = u[0] * 256 + carry[n]
      BY <2>4, <3>1 DEF Horner
    <3> QED BY <1>0, <3>2
  <2>7. ASSUME NEW m \in 1..n PROVE w[m] = w[m - 1] * 256 + out[(n - m) + 1]
    <3>1. m + 1 \in 1..(n + 1) /\ m + 1 # 1 /\ ((n - (m + 1)) + 1) + 1 = (n - m) + 1 /\ (m + 1) - 1 = m
      OBVIOUS
    <3>2. Reverse(whole)[m + 1] = out[(n - m) + 1]
      BY <2>2, <3>1
    <3>3. u[m + 1] = u[m] * 256 + out[(n - m) + 1]
      BY <2>4, <3>1, <3>2 DEF Horner
    <3> QED BY <3>3
  <2>8. w[n] = u[n + 1]
    OBVIOUS
  <2> HIDE DEF w
  <2>9. w[n] = v[n] * 58 + value
    BY <1>6, <2>5, <2>6, <2>7
  <2> QED BY <1>4, <2>4, <2>8, <2>9
<1> QED BY <1>7, <1>8

\* Bytes with no zero at the end, or nothing but one.
Compact(bytes) == Len(bytes) >= 1 /\ (bytes = <<0>> \/ bytes[Len(bytes)] # 0)

\* What a round makes of byte b, with c carried in and d carried on.
Digit(c, b, o, d) ==
    {b, o} \subseteq 0..255 /\ {c, d} \subseteq 0..57 /\ c + b * 58 = o + 256 * d

\* A byte that was zero takes the carry and passes none on; another one that
\* passes none on is not zero after the round.
LEMMA NothingLost ==
    ASSUME NEW c, NEW b, NEW o, NEW d, Digit(c, b, o, d)
    PROVE  /\ b = 0 => d = 0 /\ o = c
           /\ b # 0 /\ d = 0 => o # 0
<1>1. c \in 0..57 /\ b \in 0..255 /\ o \in 0..255 /\ d \in 0..57 /\ c + b * 58 = o + 256 * d
  BY DEF Digit
<1> QED BY <1>1

\* A round multiplies the number by 58 and adds the value, and keeps it compact.
LEMMA ShiftedIs ==
    ASSUME NEW bytes \in Seq(0..255), NEW value \in 0..57
    PROVE  /\ Shifted(bytes, value) \in Seq(0..255)
           /\ Little(Shifted(bytes, value)) = Little(bytes) * 58 + value
           /\ Compact(bytes) =>
                /\ Compact(Shifted(bytes, value))
                /\ Shifted(bytes, value) = <<0>> <=> bytes = <<0>> /\ value = 0
<1> DEFINE n == Len(bytes)
           whole == Shifted(bytes, value)
<1> HIDE DEF whole
<1>1. n \in Nat /\ bytes \in [1..n -> 0..255]
  BY LenProperties
<1> HIDE DEF n
<1>2. PICK carry \in [0..n -> 0..57], out \in [1..n -> 0..255] :
         Carries(carry, out, n, bytes, value) /\ whole = Carried(out, carry[n])
  BY <1>1, ByteSteps DEF whole
<1>3. Little(whole) = Little(bytes) * 58 + value
  <2>1. Continues(Carried(out, carry[n]), bytes, value)
    BY <1>2, ShiftedValue
  <2> QED BY <1>2, <2>1 DEF Continues
<1>4. out \in Seq(0..255) /\ Len(out) = n /\ carry[n] \in 0..57
  BY <1>1
<1>5. carry[n] # 0 =>
         whole \in Seq(0..255) /\ Len(whole) = n + 1 /\ whole[n + 1] = carry[n]
  <2> SUFFICES ASSUME carry[n] # 0
               PROVE  whole \in Seq(0..255) /\ Len(whole) = n + 1 /\ whole[n + 1] = carry[n]
    OBVIOUS
  <2>1. whole = Append(out, carry[n])
    BY <1>2 DEF Carried
  <2>2. carry[n] \in 0..255
    BY <1>4
  <2> QED BY <1>4, <2>1, <2>2
<1>6. carry[n] = 0 => whole = out
  BY <1>2 DEF Carried
<1>7. ASSUME Compact(bytes)
      PROVE  Compact(whole) /\ (whole = <<0>> <=> bytes = <<0>> /\ value = 0)
  <2>1. n >= 1 /\ n \in 1..n /\ n - 1 \in 0..n
    BY <1>1, <1>7 DEF Compact, n
  <2>2. carry[n - 1] + bytes[n] * 58 = out[n] + 256 * carry[n]
    BY <1>2, <2>1, Zenon DEF Carries
  <2>3. Digit(carry[n - 1], bytes[n], out[n], carry[n])
    BY <1>1, <1>4, <2>1, <2>2 DEF Digit
  <2>4. CASE bytes = <<0>>
    <3>1. n = 1 /\ bytes[n] = 0
      BY <2>4 DEF n
    <3>2. carry[n - 1] = value
      <4>1. carry[0] = value
        BY <1>2 DEF Carries
      <4> QED BY <3>1, <4>1
    <3>3. carry[n] = 0 /\ out[n] = value
      BY <2>3, <3>1, <3>2, NothingLost
    <3>4. whole = <<value>>
      BY <1>6, <3>1, <3>3
    <3> QED BY <2>4, <3>4 DEF Compact
  <2>5. CASE bytes # <<0>>
    <3>1. bytes[n] # 0
      BY <1>7, <2>5 DEF Compact, n
    <3>2. CASE carry[n] = 0
      <4>1. out[n] # 0
        BY <2>3, <3>1, <3>2, NothingLost
      <4>2. whole = out /\ Len(whole) = n
        BY <1>4, <1>6, <3>2
      <4>3. whole # <<0>>
        BY <4>1, <4>2, <2>1
      <4> QED BY <2>1, <2>5, <4>1, <4>2, <4>3 DEF Compact
    <3>3. CASE carry[n] # 0
      <4>1. Len(whole) = n + 1 /\ whole[n + 1] # 0
        BY <1>5, <3>3
      <4>2. whole # <<0>>
        BY <4>1, <2>1
      <4> QED BY <2>1, <2>5, <4>1, <4>2 DEF Compact
    <3> QED BY <3>2, <3>3
  <2> QED BY <2>4, <2>5
<1>8. whole \in Seq(0..255)
  BY <1>4, <1>5, <1>6
<1> QED BY <1>3, <1>7, <1>8 DEF whole

\* The bytes of a text, most significant last: they are worth what it is, and
\* end in a zero only if they are nothing else.
LEMMA DecodedIs ==
    ASSUME NEW n \in Nat, NEW text \in [1..n -> 0..57]
    PROVE  LET bytes == FoldLeft(Shifted, <<0>>, text)
           IN  /\ bytes \in Seq(0..255) /\ Compact(bytes)
               /\ Little(bytes) = ValueOf(text, 58)
               /\ bytes = <<0>> <=> \A i \in 1..n : text[i] = 0
<1> DEFINE T == Seq(0..255)
           Folds(g) == g = [s \in SUBSET (1..n) |->
                     IF s = {} THEN <<0>> ELSE Shifted(g[s \ {Max(s)}], text[Max(s)])]
           iter == CHOOSE g : Folds(g)
           step == [x \in T \X (1..n) |-> Shifted(x[1], text[x[2]])]
           bytes == FoldLeft(Shifted, <<0>>, text)
<1>1. bytes = iter[1..n]
  <2>1. DOMAIN text = 1..n
    OBVIOUS
  <2> QED BY <2>1 DEF FoldLeft, MapThenFoldSet
<1>2. <<0>> \in T
  OBVIOUS
<1>3. \A t \in T, m \in 1..n : step[<<t, m>>] = Shifted(t, text[m]) /\ step[<<t, m>>] \in T
  BY ShiftedIs
<1> HIDE DEF step, T, bytes
<1>4. StaysIn(T, 1..n, step)
  BY <1>3 DEF StaysIn
<1>5. PICK g \in [SUBSET (1..n) -> T] :
         IsFold(g, 1..n, <<0>>, step, LastIn(n)) /\ LeadsTo(n, T, <<0>>, step, g[1..n])
  BY <1>2, <1>4, FoldLeftExists
<1>6. \A s \in SUBSET (1..n) :
         g[s] = IF s = {} THEN <<0>> ELSE Shifted(g[s \ {Max(s)}], text[Max(s)])
  <2> TAKE s \in SUBSET (1..n)
  <2>1. CASE s = {}
    BY <1>5, <2>1 DEF IsFold
  <2>2. CASE s # {}
    <3>1. Max(s) \in 1..n /\ s \ {Max(s)} \in SUBSET (1..n) /\ LastIn(n)[s] = Max(s)
      BY <2>2, LastOf DEF LastIn
    <3>2. g[s \ {Max(s)}] \in T
      BY <3>1
    <3>3. g[s] = step[<<g[s \ {Max(s)}], Max(s)>>]
      BY <1>5, <2>2, <3>1 DEF IsFold
    <3> QED BY <1>3, <2>2, <3>1, <3>2, <3>3
  <2> QED BY <2>1, <2>2
<1>7. Folds(iter)
  <2>1. Folds(g)
    BY <1>6
  <2> QED BY <2>1
<1>8. iter[1..n] = g[1..n]
  <2> HIDE DEF iter
  <2>1. InStep(iter, g, 1..n, LastIn(n))
    BY <1>6, <1>7 DEF LastIn, InStep
  <2>2. IsFiniteSet(1..n) /\ Picks(LastIn(n), 1..n)
    BY <1>2, <1>4, FoldLeftExists
  <2> HIDE DEF Folds
  <2> QED BY <2>1, <2>2, FoldsAgree
<1> HIDE DEF iter, Folds
<1>9. PICK p \in [0..n -> T] : Steps(p, n, <<0>>, step) /\ g[1..n] = p[n]
  BY <1>5 DEF LeadsTo
<1>10. \A m \in 1..n : m - 1 \in 0..n /\ m \in 0..n
  OBVIOUS
<1>11. p[0] = <<0>> /\ \A m \in 1..n : p[m] = Shifted(p[m - 1], text[m])
  BY <1>3, <1>9, <1>10 DEF Steps
<1>12. text \in [1..n -> Nat]
  <2>1. \A x \in 0..57 : x \in Nat
    OBVIOUS
  <2> QED BY <2>1
<1>13. PICK v \in [0..n -> Nat] : Horner(v, n, text, 58) /\ ValueOf(text, 58) = v[n]
  <2>1. AddsUp(n, text, 58, ValueOf(text, 58))
    BY <1>12, ValueSteps
  <2> QED BY <2>1 DEF AddsUp
<1> DEFINE Zeros(m) == \A i \in 1..m : text[i] = 0
           Right == {m \in 0..n : /\ Compact(p[m]) /\ Little(p[m]) = v[m]
                                  /\ p[m] = <<0>> <=> Zeros(m)}
<1>14. 0 \in Right
  <2>1. Compact(<<0>>)
    BY DEF Compact
  <2>2. Little(<<0>>) = 0
    <3>1. Reverse(<<0>>) = <<0>> /\ <<0>> \in [1..1 -> Nat]
      BY DEF Reverse
    <3>2. AddsUp(1, <<0>>, 256, Little(<<0>>))
      BY <3>1, ValueSteps DEF Little
    <3>3. PICK w \in [0..1 -> Nat] : Horner(w, 1, <<0>>, 256) /\ Little(<<0>>) = w[1]
      BY <3>2 DEF AddsUp
    <3>4. w[0] = 0 /\ w[1] = w[0] * 256 + 0
      BY <3>3 DEF Horner
    <3> QED BY <3>3, <3>4
  <2>3. v[0] = 0 /\ p[0] = <<0>> /\ 0 \in 0..n
    BY <1>11, <1>13 DEF Horner
  <2>4. Zeros(0)
    OBVIOUS
  <2> QED BY <2>1, <2>2, <2>3, <2>4
<1>15. ASSUME NEW m \in 1..n, m - 1 \in Right PROVE m \in Right
  <2>1. p[m - 1] \in Seq(0..255) /\ text[m] \in 0..57
    BY <1>10 DEF T
  <2>2. p[m] = Shifted(p[m - 1], text[m])
    BY <1>11
  <2> HIDE DEF Right, Zeros
  <2>3. Little(Shifted(p[m - 1], text[m])) = Little(p[m - 1]) * 58 + text[m]
    BY <2>1, ShiftedIs
  <2>4. v[m] = v[m - 1] * 58 + text[m]
    BY <1>13 DEF Horner
  <2>5. Compact(p[m]) /\ (p[m] = <<0>> <=> p[m - 1] = <<0>> /\ text[m] = 0)
    <3>1. Compact(p[m - 1])
      BY <1>15 DEF Right
    <3>2. /\ Compact(Shifted(p[m - 1], text[m]))
          /\ Shifted(p[m - 1], text[m]) = <<0>> <=> p[m - 1] = <<0>> /\ text[m] = 0
      BY <2>1, <3>1, ShiftedIs
    <3> QED BY <2>2, <3>2
  <2>6. Zeros(m) <=> Zeros(m - 1) /\ text[m] = 0
    BY DEF Zeros
  <2>7. Little(p[m - 1]) = v[m - 1] /\ (p[m - 1] = <<0>> <=> Zeros(m - 1))
    BY <1>15 DEF Right
  <2>8. Little(p[m]) = v[m] /\ (p[m] = <<0>> <=> Zeros(m))
    BY <2>2, <2>3, <2>4, <2>5, <2>6, <2>7
  <2> QED BY <1>10, <2>5, <2>8 DEF Right
<1> HIDE DEF Right
<1>16. \A m \in 0..n : m \in Right
  BY <1>14, <1>15, InductionUpTo
<1>17. n \in Right /\ n \in 0..n
  BY <1>16
<1> QED BY <1>1, <1>8, <1>9, <1>13, <1>17 DEF Right, bytes, T

\* SelectInSeq, for what is not zero.
Leads(seq, k) ==
    Len(seq) \in Nat /\ k \in 1..Len(seq) /\ seq[k] # 0 /\ \A j \in 1..(k - 1) : seq[j] = 0

\* SelectInSeq finds the place that leads.
LEMMA FirstIs ==
    ASSUME NEW seq, NEW k, Leads(seq, k)
    PROVE  SelectInSeq(seq, LAMBDA value : value # 0) = k
<1> DEFINE I == {i \in 1..Len(seq) : seq[i] # 0}
<1>1. k \in I /\ I # {} /\ k \in Nat
  BY DEF Leads
<1>2. ASSUME NEW i \in I PROVE k <= i
  <2>1. i \in 1..Len(seq) /\ seq[i] # 0 /\ Len(seq) \in Nat /\ k \in 1..Len(seq)
    BY DEF Leads
  <2>2. ~(i \in 1..(k - 1))
    BY <2>1 DEF Leads
  <2> QED BY <2>1, <2>2
<1>3. I \subseteq Nat
  BY DEF Leads
<1> HIDE DEF I
<1>4. \A i \in I : (\A j \in I : i <= j) => i = k
  BY <1>1, <1>2, <1>3
<1>5. Min(I) = k
  BY <1>1, <1>2, <1>4 DEF Min
<1> QED BY <1>1, <1>5 DEF I, SelectInSeq

\* The bytes in order: a zero for each leading 1, and then what the text is worth.
LEMMA KeyDecoded ==
    ASSUME NEW text \in Seq(0..57)
    PROVE  LET key == Base58Decode(text)
           IN  /\ key \in Seq(0..255)
               /\ ValueOf(key, 256) = ValueOf(text, 58)
               /\ \/ \A i \in DOMAIN text : text[i] = 0
                  \/ \E k : Leads(key, k) /\ Leads(text, k)
<1> DEFINE n == Len(text)
           marked == text \o <<58>>
           bytes == FoldLeft(Shifted, <<0>>, text)
           key == Base58Decode(text)
<1> HIDE DEF bytes, key
<1>1. n \in Nat /\ text \in [1..n -> 0..57] /\ DOMAIN text = 1..n
  BY LenProperties
<1>2. /\ Len(marked) = n + 1 /\ marked[n + 1] = 58
      /\ \A i \in 1..n : marked[i] = text[i]
  BY <1>1
<1> HIDE DEF n, marked
<1>3. PICK k \in 1..(n + 1) : marked[k] # 0 /\ \A j \in 1..(k - 1) : marked[j] = 0
  <2> DEFINE P == {i \in 1..(n + 1) : marked[i] # 0}
  <2>1. P \in SUBSET Nat /\ n + 1 \in P
    BY <1>1, <1>2
  <2>2. PICK k \in P : \A m \in P : k <= m
    BY <2>1, LeastNatural
  <2>3. \A j \in 1..(k - 1) : j \in 1..(n + 1) /\ ~(k <= j)
    BY <1>1
  <2> QED BY <2>2, <2>3
<1>4. Leads(marked, k)
  BY <1>1, <1>2, <1>3 DEF Leads
<1> DEFINE z == k - 1
           L == Len(bytes)
<1>5. z \in 0..n /\ k = z + 1
  BY <1>1
<1>6. Ones(text) = [i \in 1..z |-> 0]
  <2>1. SelectInSeq(marked, LAMBDA value : value # 0) = k
    BY <1>4, FirstIs
  <2> QED BY <2>1 DEF Ones, marked
<1> HIDE DEF z
<1>7. /\ bytes \in Seq(0..255) /\ Compact(bytes)
      /\ Little(bytes) = ValueOf(text, 58)
      /\ bytes = <<0>> <=> \A i \in 1..n : text[i] = 0
  BY <1>1, DecodedIs DEF bytes
<1>8. L \in Nat /\ bytes \in [1..L -> 0..255] /\ L >= 1
  BY <1>7, LenProperties DEF Compact
<1> HIDE DEF L
<1> DEFINE joined == bytes \o Ones(text)
<1>9. joined = [j \in 1..(L + z) |-> IF j <= L THEN bytes[j] ELSE 0]
  <2>1. Len(Ones(text)) = z /\ \A i \in 1..z : Ones(text)[i] = 0
    BY <1>5, <1>6
  <2>2. bytes \in Seq(0..255) /\ Ones(text) \in Seq(0..255) /\ Len(bytes) = L
    <3>1. z \in Nat /\ Ones(text) \in [1..z -> 0..255]
      BY <1>1, <1>5, <1>6
    <3> QED BY <1>7, <3>1, IsSequence DEF L
  <2>3. /\ joined \in Seq(0..255) /\ Len(joined) = L + z
        /\ \A j \in 1..(L + z) : joined[j] = IF j <= L THEN bytes[j] ELSE Ones(text)[j - L]
    <3>1. /\ bytes \o Ones(text) \in Seq(0..255)
          /\ Len(bytes \o Ones(text)) = Len(bytes) + Len(Ones(text))
          /\ \A j \in 1..(Len(bytes) + Len(Ones(text))) :
                (bytes \o Ones(text))[j]
                  = IF j <= Len(bytes) THEN bytes[j] ELSE Ones(text)[j - Len(bytes)]
      BY <2>2, ConcatProperties, Zenon
    <3> QED BY <2>1, <2>2, <3>1
  <2>4. \A j \in 1..(L + z) : j <= L \/ j - L \in 1..z
    BY <1>1, <1>5, <1>8
  <2>5. \A j \in 1..(L + z) : joined[j] = IF j <= L THEN bytes[j] ELSE 0
    BY <2>1, <2>3, <2>4
  <2> HIDE DEF joined
  <2>6. joined \in [1..(L + z) -> 0..255]
    BY <2>3, LenProperties
  <2> QED BY <2>5, <2>6
<1>10. key = [i \in 1..(L + z) |-> IF i <= z THEN 0 ELSE bytes[((L + z) - i) + 1]]
  <2>1. key = Reverse(joined)
    BY DEF key, Base58Decode, bytes
  <2> HIDE DEF joined
  <2>2. Len(joined) = L + z
    BY <1>1, <1>5, <1>8, <1>9
  <2>3. \A i \in 1..(L + z) : /\ ((L + z) - i) + 1 \in 1..(L + z)
                              /\ ((L + z) - i) + 1 <= L <=> ~(i <= z)
    BY <1>1, <1>5, <1>8
  <2>4. \A i \in 1..(L + z) : joined[((L + z) - i) + 1]
                               = IF i <= z THEN 0 ELSE bytes[((L + z) - i) + 1]
    BY <1>9, <2>3
  <2> QED BY <2>1, <2>2, <2>4 DEF Reverse
<1>11. \A i \in 1..(L + z) : ~(i <= z) => ((L + z) - i) + 1 \in 1..L
  BY <1>1, <1>5, <1>8
<1>12. key \in [1..(L + z) -> 0..255] /\ L + z \in Nat
  BY <1>1, <1>5, <1>8, <1>10, <1>11
<1>13. key \in Seq(0..255) /\ Len(key) = L + z
  BY <1>12, IsSequence
<1>14. ValueOf(key, 256) = Little(bytes)
  <2>0. \A x \in 0..255 : x \in Nat
    OBVIOUS
  <2>1. Reverse(bytes) = [i \in 1..L |-> bytes[(L - i) + 1]]
    BY DEF Reverse, L
  <2>2. \A i \in 1..L : (L - i) + 1 \in 1..L
    BY <1>8
  <2>3. Reverse(bytes) \in [1..L -> Nat]
    BY <1>8, <2>0, <2>1, <2>2
  <2>4. PICK v \in [0..L -> Nat] : Horner(v, L, Reverse(bytes), 256) /\ Little(bytes) = v[L]
    <3>1. AddsUp(L, Reverse(bytes), 256, Little(bytes))
      BY <1>8, <2>3, ValueSteps DEF Little
    <3> QED BY <3>1 DEF AddsUp
  <2>5. PICK w \in [0..(L + z) -> Nat] : Horner(w, L + z, key, 256) /\ ValueOf(key, 256) = w[L + z]
    <3>1. key \in [1..(L + z) -> Nat]
      BY <1>12, <2>0
    <3>2. AddsUp(L + z, key, 256, ValueOf(key, 256))
      BY <1>12, <3>1, ValueSteps
    <3> QED BY <3>2 DEF AddsUp
  <2>6. w[0] = 0 /\ \A m \in 1..(L + z) : w[m] = w[m - 1] * 256 + key[m]
    BY <2>5 DEF Horner
  <2>7. v[0] = 0 /\ \A m \in 1..L : v[m] = v[m - 1] * 256 + bytes[(L - m) + 1]
    BY <2>1, <2>4 DEF Horner
  <2>8. w[z] = 0
    <3> DEFINE P == {m \in 0..z : w[m] = 0}
    <3>1. 0 \in P
      BY <1>1, <1>5, <2>6
    <3>2. ASSUME NEW m \in 1..z, m - 1 \in P PROVE m \in P
      <4>1. m \in 1..(L + z) /\ m <= z /\ m \in 0..z
        BY <1>1, <1>5, <1>8
      <4>2. w[m - 1] = 0 /\ key[m] = 0
        BY <1>10, <3>2, <4>1
      <4>3. w[m] = w[m - 1] * 256 + key[m]
        BY <2>6, <4>1
      <4>4. w[m] = 0
        BY <4>2, <4>3
      <4> QED BY <4>1, <4>4
    <3> HIDE DEF P
    <3>3. z \in Nat
      BY <1>1, <1>5
    <3>4. \A m \in 0..z : m \in P
      BY <3>1, <3>2, <3>3, InductionUpTo
    <3> QED BY <3>3, <3>4 DEF P
  <2>9. w[L + z] = v[L]
    <3> DEFINE P == {m \in 0..L : w[m + z] = v[m]}
    <3>0. z \in Nat /\ 0 + z = z /\ 0 \in 0..L
      BY <1>1, <1>5, <1>8
    <3>1. 0 \in P
      BY <2>7, <2>8, <3>0
    <3>2. ASSUME NEW m \in 1..L, m - 1 \in P PROVE m \in P
      <4>1. /\ m + z \in 1..(L + z) /\ ~(m + z <= z) /\ m \in 0..L
            /\ (m + z) - 1 = (m - 1) + z /\ ((L + z) - (m + z)) + 1 = (L - m) + 1
        BY <1>8, <3>0
      <4>2. key[m + z] = bytes[(L - m) + 1]
        BY <1>10, <4>1
      <4>3. w[m + z] = w[(m - 1) + z] * 256 + bytes[(L - m) + 1]
        <5>1. w[m + z] = w[(m + z) - 1] * 256 + key[m + z]
          BY <2>6, <4>1
        <5> QED BY <4>1, <4>2, <5>1
      <4>4. w[(m - 1) + z] = v[m - 1]
        BY <3>2
      <4>5. v[m] = v[m - 1] * 256 + bytes[(L - m) + 1]
        BY <2>7
      <4>6. w[m + z] = v[m]
        BY <4>3, <4>4, <4>5
      <4> QED BY <4>1, <4>6
    <3> HIDE DEF P
    <3>3. \A m \in 0..L : m \in P
      BY <1>8, <3>1, <3>2, InductionUpTo
    <3> QED BY <1>8, <3>3 DEF P
  <2> QED BY <2>4, <2>5, <2>9
<1>15. CASE \A i \in DOMAIN text : text[i] = 0
  BY <1>7, <1>13, <1>14, <1>15 DEF key
<1>16. CASE ~ \A i \in DOMAIN text : text[i] = 0
  <2>1. bytes[L] # 0
    BY <1>1, <1>7, <1>16 DEF Compact, L
  <2>2. Leads(key, k)
    <3>1. k \in 1..(L + z) /\ ~(k <= z) /\ ((L + z) - k) + 1 = L
      BY <1>1, <1>5, <1>8
    <3>2. key[k] # 0
      BY <1>10, <2>1, <3>1
    <3>3. ASSUME NEW j \in 1..(k - 1) PROVE key[j] = 0
      <4>1. j \in 1..(L + z) /\ j <= z
        BY <1>1, <1>5, <1>8
      <4> QED BY <1>10, <4>1
    <3> QED BY <1>12, <1>13, <3>1, <3>2, <3>3 DEF Leads
  <2>3. Leads(text, k)
    <3>1. PICK i \in 1..n : text[i] # 0
      BY <1>1, <1>16
    <3>2. k <= n
      <4>1. ~(i \in 1..(k - 1))
        BY <1>2, <1>3, <3>1
      <4> QED BY <1>1, <4>1
    <3>3. k \in 1..n /\ \A j \in 1..(k - 1) : j \in 1..n
      BY <1>1, <3>2
    <3> QED BY <1>1, <1>2, <1>3, <3>3 DEF Leads, n
  <2> QED BY <1>7, <1>13, <1>14, <2>2, <2>3 DEF key
<1> QED BY <1>15, <1>16

\* The key file is written once and for all of what was pasted.
KeyInv == keyfile # << >> => pasted \in Seq(0..57) /\ keyfile = Base58Decode(pasted)
                             /\ Len(keyfile) = KeySize

\* Once written, the key file is the decoding of what was pasted.
LEMMA KeyInductive == ScriptsSpec => []KeyInv
<1>1. ScriptsInit => KeyInv
  BY DEF ScriptsInit, KeyInv
<1>2. ASSUME KeyInv, [ScriptsNext]_scriptVars PROVE KeyInv'
  <2>1. CASE UNCHANGED keyVars
    BY <1>2, <2>1 DEF KeyInv, keyVars
  <2>2. CASE \E text \in Secrets : Convert(text)
    <3>1. PICK text \in Secrets : Convert(text)
      BY <2>2
    <3>2. text \in Seq(0..57)
      <4>1. text \in Seq(0..58) /\ \A i \in DOMAIN text : text[i] < 58
        BY <3>1, ScriptsAssumption DEF Convert
      <4>2. PICK n \in Nat : text \in [1..n -> 0..58]
        <5>1. Len(text) \in Nat /\ text \in [1..Len(text) -> 0..58]
          BY <4>1, LenProperties
        <5> QED BY <5>1
      <4>3. \A x \in 0..58 : x < 58 => x \in 0..57
        OBVIOUS
      <4>4. text \in [1..n -> 0..57]
        BY <4>1, <4>2, <4>3
      <4> QED BY <4>4, IsSequence
    <3> QED BY <3>1, <3>2 DEF Convert, KeyInv
  <2> QED BY <1>2, <2>1, <2>2 DEF ScriptsNext, scriptVars, keyVars, PermissionNext,
        PrepareCharge, PrepareRevoke, Prepare, SendCall, Mine, Confirmed, CallFails, DayPasses
<1> QED BY <1>1, <1>2, PTL DEF ScriptsSpec

\* What was pasted is what is kept, to the last byte (convert-solana-key.mjs).
THEOREM KeyKept == ScriptsSpec => []KeyfileIsSecret
<1>1. KeyInv => KeyfileIsSecret
  <2> SUFFICES ASSUME KeyInv, keyfile # << >> PROVE KeyfileIsSecret
    BY DEF KeyfileIsSecret
  <2>1. pasted \in Seq(0..57) /\ keyfile = Base58Decode(pasted) /\ Len(keyfile) = KeySize
    BY DEF KeyInv
  <2>2. /\ keyfile \in Seq(0..255) /\ ValueOf(keyfile, 256) = ValueOf(pasted, 58)
        /\ \/ \A i \in DOMAIN pasted : pasted[i] = 0
           \/ \E k : Leads(keyfile, k) /\ Leads(pasted, k)
    BY <2>1, KeyDecoded
  <2>3. \A i \in DOMAIN keyfile : keyfile[i] \in 0..255
    BY <2>2, LenProperties
  <2>4. ASSUME NEW k, Leads(keyfile, k), Leads(pasted, k)
        PROVE  SelectInSeq(keyfile, LAMBDA byte : byte # 0)
                 = SelectInSeq(pasted, LAMBDA value : value # 0)
    BY <2>4, FirstIs
  <2> QED BY <2>1, <2>2, <2>3, <2>4 DEF KeyfileIsSecret
<1> QED BY <1>1, KeyInductive, PTL

-----------------------------------------------------------------------------
(* The rules and their fingerprint *)

RuleInv ==
    /\ token \in Tokens \cup {NoToken}
    /\ running \in Detectors /\ judge \in Detectors
    /\ stored = Fingerprint(judge)

LEMMA RuleInductive == RuleSpec => []RuleInv
<1>1. RuleInit => RuleInv
  BY DEF RuleInit, RuleInv
<1>2. RuleInv /\ [RuleNext]_ruleVars => RuleInv'
  <2> SUFFICES ASSUME RuleInv, [RuleNext]_ruleVars PROVE RuleInv'
    OBVIOUS
  <2>1. ASSUME NEW sent \in Tokens, Receive(sent) PROVE RuleInv'
    BY <2>1 DEF Receive, RuleInv
  <2>2. ASSUME NEW known \in Detectors, DeployRules(known) PROVE RuleInv'
    BY <2>2 DEF DeployRules, RuleInv
  <2>3. CASE Rebaseline
    BY <2>3 DEF Rebaseline, RuleInv
  <2>4. CASE UNCHANGED ruleVars
    BY <2>4 DEF ruleVars, RuleInv
  <2> QED BY <2>1, <2>2, <2>3, <2>4 DEF RuleNext
<1> QED BY <1>1, <1>2, PTL DEF RuleSpec

\* Detectors with the same ids are the same detector.
LEMMA FingerprintTells ==
    ASSUME NEW a \in Detectors, NEW b \in Detectors, Fingerprint(a) = Fingerprint(b)
    PROVE  a = b
<1>1. PICK A \in SUBSET DOMAIN Known : a = [t \in A |-> Known[t]]
  BY DEF Detectors, Restrict
<1>2. PICK B \in SUBSET DOMAIN Known : b = [t \in B |-> Known[t]]
  BY DEF Detectors, Restrict
<1>3. TextRuleIds \cup {TickerId(t) : t \in A} = TextRuleIds \cup {TickerId(t) : t \in B}
  BY <1>1, <1>2 DEF Fingerprint, RuleIds
<1>4. A = B
  BY <1>3, RuleIdsDiffer
<1> QED BY <1>1, <1>2, <1>4

\* Whatever a rule says of a token, it says under an id of the fingerprint.
LEMMA ReasonsListed ==
    ASSUME NEW known, NEW held
    PROVE  ClassifyToken(known, held) \subseteq RuleIds(known)
<1>1. Impersonated(known, held) \subseteq DOMAIN known
  BY DEF Impersonated
<1> QED BY <1>1 DEF ClassifyToken, RuleIds, TextRuleIds

\* A baseline is kept only with the detector that made it, whatever tickers are
\* known (scamHeuristics.mjs detectorFingerprint).
THEOREM FingerprintHonest == RuleSpec => []RulesNamed
<1>1. RuleInv => RulesNamed
  BY FingerprintTells, ReasonsListed DEF RuleInv, RulesNamed, WillRebaseline
<1> QED BY <1>1, RuleInductive, PTL

-----------------------------------------------------------------------------
(* The lures the rules see *)

\* Sequences, by their places.
IsText(x) == Len(x) \in Nat /\ DOMAIN x = 1..Len(x)

\* Text y has text x in it, or has it but for dots.
Has(y, x) ==
    \E k \in Nat : k + Len(x) <= Len(y) /\ \A i \in DOMAIN x : y[k + i] = x[i]
HasButDots(y, x) ==
    Len(y) = Len(x) /\ \A i \in DOMAIN x : y[i] = x[i] \/ x[i] = "."

\* A pattern shows in every text that has one it shows in.
LEMMA ShowsWithin ==
    ASSUME NEW x, NEW y, IsText(x), IsText(y), Has(y, x),
           NEW pattern, IsText(pattern), Shows(x, pattern)
    PROVE  Shows(y, pattern)
<1>1. PICK k \in Nat : k + Len(x) <= Len(y) /\ \A i \in DOMAIN x : y[k + i] = x[i]
  BY DEF Has
<1>2. PICK i \in 0..(Len(x) - Len(pattern)) : \A j \in DOMAIN pattern : x[i + j] \in pattern[j]
  BY DEF Shows
<1>3. k + i \in 0..(Len(y) - Len(pattern))
  BY <1>1, <1>2 DEF IsText
<1>4. ASSUME NEW j \in DOMAIN pattern PROVE y[(k + i) + j] \in pattern[j]
  <2>1. i + j \in DOMAIN x /\ k + (i + j) = (k + i) + j
    BY <1>2 DEF IsText
  <2> QED BY <1>1, <1>2, <2>1
<1> QED BY <1>3, <1>4 DEF Shows

\* A pattern without dots shows whatever becomes of the dots.
LEMMA ShowsButDots ==
    ASSUME NEW x, NEW y, IsText(x), IsText(y), HasButDots(y, x),
           NEW pattern, IsText(pattern), \A j \in DOMAIN pattern : "." \notin pattern[j],
           Shows(x, pattern)
    PROVE  Shows(y, pattern)
<1>1. PICK i \in 0..(Len(x) - Len(pattern)) : \A j \in DOMAIN pattern : x[i + j] \in pattern[j]
  BY DEF Shows
<1>2. i \in 0..(Len(y) - Len(pattern))
  BY DEF HasButDots
<1>3. ASSUME NEW j \in DOMAIN pattern PROVE y[i + j] \in pattern[j]
  <2>1. i + j \in DOMAIN x
    BY DEF IsText
  <2> QED BY <1>1, <2>1 DEF HasButDots
<1> QED BY <1>2, <1>3 DEF Shows

\* Patterns of up to five words are sequences.
LEMMA Patterns ==
    ASSUME NEW A, NEW B, NEW C, NEW D, NEW E
    PROVE  /\ IsText(<< A >>) /\ IsText(<< A, B >>) /\ IsText(<< A, B, C >>)
           /\ IsText(<< A, B, C, D >>) /\ IsText(<< A, B, C, D, E >>)
BY DEF IsText

\* A sum beside a currency, before or after it.
LEMMA Beside ==
    ASSUME NEW A, NEW B, NEW C, NEW D
    PROVE  LET sums == {<< A, B >>, << A, C, B >>}
           IN  \A sum \in sums : IsText(<< D >> \o sum) /\ IsText(sum \o << D >>)
BY DEF IsText

\* The rule that goes by an id, of a text whose dots are closed up in `closed'.
Says(id, text, closed) ==
    \/ id = "name_or_symbol_contains_url" /\ Url(closed)
    \/ id = "name_or_symbol_contains_bare_domain" /\ BareDomain(closed)
    \/ id = "urgency_language" /\ Claim(text)
    \/ id = "reward_language" /\ Reward(text)
    \/ id = "quotes_a_cash_amount" /\ Money(text)
    \/ id = "qr_code_lure" /\ Qr(text)
    \/ id = "pressure_language" /\ Pressure(text)
    \/ id = "non_latin_homoglyph" /\ Lookalike(text)
    \/ id = "impersonates_a_state_reserve" /\ ImpersonatesAStateReserve(text)
    \/ id = "impersonates_an_ai_brand" /\ ImpersonatesAnAiBrand(text)
Sees(id, text) == Says(id, Lowered(text), CloseDotSpacing(Lowered(text)))

\* A rule about texts is a reason exactly when it sees the name or the symbol.
LEMMA ReasonsAre ==
    ASSUME NEW known, DOMAIN known \subseteq DOMAIN Known, NEW held, NEW id \in TextRuleIds
    PROVE  id \in ClassifyToken(known, held) <=> Sees(id, held.name) \/ Sees(id, held.symbol)
<1>1. id \notin {TickerId(ticker) : ticker \in Impersonated(known, held)}
  BY RuleIdsDiffer DEF Impersonated
<1> DEFINE x == Lowered(held.name)
           y == Lowered(held.symbol)
           texts == {x, y}
           closed == {CloseDotSpacing(text) : text \in texts}
           fires ==
          [ name_or_symbol_contains_url         |-> \E text \in closed : Url(text),
            name_or_symbol_contains_bare_domain |-> \E text \in closed : BareDomain(text),
            urgency_language                    |-> \E text \in texts : Claim(text),
            reward_language                     |-> \E text \in texts : Reward(text),
            quotes_a_cash_amount                |-> \E text \in texts : Money(text),
            qr_code_lure                        |-> \E text \in texts : Qr(text),
            pressure_language                   |-> \E text \in texts : Pressure(text),
            non_latin_homoglyph                 |-> \E text \in texts : Lookalike(text),
            impersonates_a_state_reserve        |->
                \E text \in texts : ImpersonatesAStateReserve(text),
            impersonates_an_ai_brand            |->
                \E text \in texts : ImpersonatesAnAiBrand(text) ]
           ids == {TickerId(ticker) : ticker \in Impersonated(known, held)}
<1>2. ClassifyToken(known, held) = {i \in DOMAIN fires : fires[i]} \cup ids
  BY DEF ClassifyToken
<1>3. closed = {CloseDotSpacing(x), CloseDotSpacing(y)} /\ texts = {x, y}
  OBVIOUS
<1> DEFINE cx == CloseDotSpacing(x)
           cy == CloseDotSpacing(y)
<1> HIDE DEF x, y, texts, closed, cx, cy
<1>4. DOMAIN fires = TextRuleIds
  BY DEF TextRuleIds
<1>5. fires[id] <=> Says(id, x, cx) \/ Says(id, y, cy)
  <2>1. CASE id = "name_or_symbol_contains_url"
    BY <1>3, <2>1 DEF Says, cx, cy
  <2>2. CASE id = "name_or_symbol_contains_bare_domain"
    BY <1>3, <2>2 DEF Says, cx, cy
  <2>3. CASE id = "urgency_language"
    BY <1>3, <2>3 DEF Says
  <2>4. CASE id = "reward_language"
    BY <1>3, <2>4 DEF Says
  <2>5. CASE id = "quotes_a_cash_amount"
    BY <1>3, <2>5 DEF Says
  <2>6. CASE id = "qr_code_lure"
    BY <1>3, <2>6 DEF Says
  <2>7. CASE id = "pressure_language"
    BY <1>3, <2>7 DEF Says
  <2>8. CASE id = "non_latin_homoglyph"
    BY <1>3, <2>8 DEF Says
  <2>9. CASE id = "impersonates_a_state_reserve"
    BY <1>3, <2>9 DEF Says
  <2>10. CASE id = "impersonates_an_ai_brand"
    BY <1>3, <2>10 DEF Says
  <2> QED BY <2>1, <2>2, <2>3, <2>4, <2>5, <2>6, <2>7, <2>8, <2>9, <2>10 DEF TextRuleIds
<1> HIDE DEF fires
<1>6. id \in ClassifyToken(known, held) <=> fires[id]
  BY <1>1, <1>2, <1>4
<1> QED BY <1>5, <1>6 DEF Sees, x, y, cx, cy

\* A rule that sees a text sees every text that has it.
LEMMA RulesWithin ==
    ASSUME NEW x, NEW y, IsText(x), IsText(y), Has(y, x)
    PROVE  /\ Url(x) => Url(y)
           /\ BareDomain(x) => BareDomain(y)
           /\ Claim(x) => Claim(y)
           /\ Reward(x) => Reward(y)
           /\ Money(x) => Money(y)
           /\ Qr(x) => Qr(y)
           /\ Pressure(x) => Pressure(y)
           /\ Lookalike(x) => Lookalike(y)
           /\ ImpersonatesAStateReserve(x) => ImpersonatesAStateReserve(y)
<1> DEFINE Keeps(pattern) == Shows(x, pattern) => Shows(y, pattern)
<1>1. ASSUME NEW pattern, IsText(pattern) PROVE Keeps(pattern)
  BY <1>1, ShowsWithin
<1>2. ASSUME NEW A, NEW B, NEW C, NEW D, NEW E
      PROVE  /\ Keeps(<< A >>) /\ Keeps(<< A, B >>) /\ Keeps(<< A, B, C >>)
             /\ Keeps(<< A, B, C, D >>) /\ Keeps(<< A, B, C, D, E >>)
  <2> HIDE DEF Keeps
  <2> QED BY <1>1, Patterns
<1>3. Url(x) => Url(y)
  BY <1>2 DEF Url
<1>4. BareDomain(x) => BareDomain(y)
  BY <1>2 DEF BareDomain
<1>5. (Claim(x) => Claim(y)) /\ (Reward(x) => Reward(y)) /\ (Qr(x) => Qr(y))
        /\ (Lookalike(x) => Lookalike(y))
  BY <1>2 DEF Claim, Reward, Qr, Lookalike
<1>6. Money(x) => Money(y)
  <2> DEFINE D == {"$", "usd", "usdc", "usdt"}
             C == {".", ","}
             sums == {<< Few, Groups3 >>, << Few, C, Groups3 >>}
  <2>1. ASSUME NEW sum \in sums PROVE Keeps(<< D >> \o sum) /\ Keeps(sum \o << D >>)
    <3>1. IsText(<< D >> \o sum) /\ IsText(sum \o << D >>)
      <4> HIDE DEF D, C
      <4> QED BY Beside
    <3> HIDE DEF Keeps, D, sums
    <3> QED BY <1>1, <3>1
  <2> QED BY <2>1 DEF Money
<1>7. Pressure(x) => Pressure(y)
  <2>1. \A phrase \in Pressures : Keeps(phrase)
    <3> HIDE DEF Keeps
    <3> QED BY <1>2 DEF Pressures
  <2> QED BY <2>1 DEF Pressure
<1>8. ImpersonatesAStateReserve(x) => ImpersonatesAStateReserve(y)
  <2>1. \A body \in StateBody : Keeps(body)
    <3> HIDE DEF Keeps
    <3> QED BY <1>2 DEF StateBody
  <2> QED BY <1>2, <2>1 DEF ImpersonatesAStateReserve
<1> QED BY <1>3, <1>4, <1>5, <1>6, <1>7, <1>8

\* A rule that is not about domains or sums does not see the dots.
LEMMA RulesButDots ==
    ASSUME NEW x, NEW y, IsText(x), IsText(y), HasButDots(y, x)
    PROVE  /\ Claim(x) => Claim(y)
           /\ Reward(x) => Reward(y)
           /\ Qr(x) => Qr(y)
           /\ Pressure(x) => Pressure(y)
           /\ Lookalike(x) => Lookalike(y)
           /\ ImpersonatesAStateReserve(x) => ImpersonatesAStateReserve(y)
<1> DEFINE Keeps(pattern) == Shows(x, pattern) => Shows(y, pattern)
<1>1. ASSUME NEW pattern, IsText(pattern), \A j \in DOMAIN pattern : "." \notin pattern[j]
      PROVE  Keeps(pattern)
  BY <1>1, ShowsButDots
<1>2. ASSUME NEW A, "." \notin A PROVE Keeps(<< A >>)
  <2> HIDE DEF Keeps
  <2>1. \A j \in DOMAIN << A >> : "." \notin << A >>[j]
    BY <1>2
  <2> QED BY <1>1, <2>1, Patterns
<1>3. ASSUME NEW A, NEW B, "." \notin A, "." \notin B PROVE Keeps(<< A, B >>)
  <2> HIDE DEF Keeps
  <2>1. \A j \in DOMAIN << A, B >> : "." \notin << A, B >>[j]
    BY <1>3
  <2> QED BY <1>1, <2>1, Patterns
<1> HIDE DEF Keeps
<1>4. Keeps(<< ClaimWords >>) /\ Keeps(<< RewardWords >>) /\ Keeps(<< {"scan", "qr"} >>)
  BY <1>2 DEF ClaimWords, RewardWords
<1>5. Keeps(<< Foreign >>)
  BY <1>2, WordsAssumption
<1>6. \A phrase \in Pressures : Keeps(phrase)
  BY <1>2, <1>3 DEF Pressures
<1>7. Keeps(<< ReserveWords >>) /\ Keeps(<< ReserveQualifier >>) /\ Keeps(<< StateCommodity >>)
  BY <1>2 DEF ReserveWords, ReserveQualifier, StateCommodity
<1>8. \A body \in StateBody : Keeps(body)
  BY <1>3 DEF StateBody
<1> USE DEF Keeps
<1>9. (Claim(x) => Claim(y)) /\ (Reward(x) => Reward(y)) /\ (Qr(x) => Qr(y))
        /\ (Lookalike(x) => Lookalike(y)) /\ (Pressure(x) => Pressure(y))
  BY <1>4, <1>5, <1>6 DEF Claim, Reward, Qr, Lookalike, Pressure
<1>10. ImpersonatesAStateReserve(x) => ImpersonatesAStateReserve(y)
  BY <1>7, <1>8 DEF ImpersonatesAStateReserve
<1> QED BY <1>9, <1>10

\* Words and marks that may stand in a text.
Words == {"-", "1", "."} \cup DOMAIN Known \cup UNION {Range(text) : text \in Texts}

\* A text written in small letters, or with its dots closed up or spaced, has
\* as many words and marks.
LEMMA Respelt ==
    ASSUME NEW text, IsText(text)
    PROVE  /\ IsText(Lowered(text)) /\ Len(Lowered(text)) = Len(text)
           /\ IsText(CloseDotSpacing(text)) /\ Len(CloseDotSpacing(text)) = Len(text)
           /\ IsText(Spaced(text)) /\ Len(Spaced(text)) = Len(text)
<1> DEFINE n == Len(text)
<1>1. n \in Nat /\ DOMAIN text = 1..n
  BY DEF IsText
<1>2. ASSUME NEW f, f = [i \in 1..n |-> f[i]] PROVE IsText(f) /\ Len(f) = n
  <2>1. f \in [1..n -> {f[i] : i \in 1..n}]
    BY <1>2
  <2> HIDE DEF n
  <2>2. f \in Seq({f[i] : i \in 1..n}) /\ Len(f) = n
    BY <1>1, <2>1, IsSequence
  <2>3. DOMAIN f = 1..n
    BY <2>1
  <2> QED BY <1>1, <2>2, <2>3 DEF IsText
<1> HIDE DEF n
<1>3. IsText(Lowered(text)) /\ Len(Lowered(text)) = n
  BY <1>1, <1>2 DEF Lowered
<1>4. IsText(CloseDotSpacing(text)) /\ Len(CloseDotSpacing(text)) = n
  BY <1>1, <1>2 DEF CloseDotSpacing
<1>5. IsText(Spaced(text)) /\ Len(Spaced(text)) = n
  BY <1>1, <1>2 DEF Spaced
<1> QED BY <1>3, <1>4, <1>5 DEF n

\* A text in another is so in small letters, and with the dots closed up.
LEMMA HasRespelt ==
    ASSUME NEW x, NEW y, IsText(x), IsText(y), Has(y, x)
    PROVE  Has(Lowered(y), Lowered(x)) /\ Has(CloseDotSpacing(y), CloseDotSpacing(x))
<1>1. PICK k \in Nat : k + Len(x) <= Len(y) /\ \A i \in DOMAIN x : y[k + i] = x[i]
  BY DEF Has
<1>2. \A i \in DOMAIN x : k + i \in DOMAIN y
  BY <1>1 DEF IsText
<1>3. \A i \in DOMAIN x : Lowered(y)[k + i] = Lowered(x)[i]
  BY <1>1, <1>2 DEF Lowered
<1>4. \A i \in DOMAIN x : CloseDotSpacing(y)[k + i] = CloseDotSpacing(x)[i]
  BY <1>1, <1>2 DEF CloseDotSpacing
<1>5. DOMAIN Lowered(x) = DOMAIN x /\ DOMAIN CloseDotSpacing(x) = DOMAIN x
  BY DEF Lowered, CloseDotSpacing
<1>6. /\ Len(Lowered(x)) = Len(x) /\ Len(CloseDotSpacing(x)) = Len(x)
      /\ Len(Lowered(y)) = Len(y) /\ Len(CloseDotSpacing(y)) = Len(y)
  BY Respelt
<1> QED BY <1>1, <1>3, <1>4, <1>5, <1>6 DEF Has

\* What a text rule sees in a text it sees in one that has it.
LEMMA SeenWithin ==
    ASSUME NEW x, NEW y, IsText(x), IsText(y), Has(y, x),
           NEW id \in TextRuleIds \ {"impersonates_an_ai_brand"}, Sees(id, x)
    PROVE  Sees(id, y)
<1> DEFINE lx == Lowered(x)
           ly == Lowered(y)
           cx == CloseDotSpacing(lx)
           cy == CloseDotSpacing(ly)
<1>1. IsText(lx) /\ IsText(ly) /\ Has(ly, lx)
  BY HasRespelt, Respelt
<1> HIDE DEF lx, ly
<1>2. IsText(cx) /\ IsText(cy) /\ Has(cy, cx)
  BY <1>1, HasRespelt, Respelt
<1>3. Says(id, lx, cx)
  BY DEF Sees, lx, cx
<1> HIDE DEF cx, cy
<1>4. Says(id, ly, cy)
  <2>1. (Url(cx) => Url(cy)) /\ (BareDomain(cx) => BareDomain(cy))
    BY <1>2, RulesWithin
  <2> QED BY <1>1, <1>3, <2>1, RulesWithin DEF Says
<1> QED BY <1>4 DEF Sees, ly, cy

\* What a text rule sees in a text, unless it is a sum, it sees with spaces
\* around the dots.
LEMMA SeenSpaced ==
    ASSUME NEW x, IsText(x), NEW id \in TextRuleIds, Sees(id, x),
           id \notin {"impersonates_an_ai_brand", "quotes_a_cash_amount"}
    PROVE  Sees(id, Spaced(x))
<1> DEFINE y == Spaced(x)
           lx == Lowered(x)
           ly == Lowered(y)
<1>1. IsText(y) /\ Len(y) = Len(x) /\ DOMAIN y = DOMAIN x
  BY Respelt DEF Spaced
<1>2. \A i \in DOMAIN x : y[i] = IF x[i] = "." THEN " . " ELSE x[i]
  BY DEF Spaced
<1> HIDE DEF y
<1>3. \A i \in DOMAIN x :
        /\ lx[i] = IF x[i] \in DOMAIN Lower THEN Lower[x[i]] ELSE x[i]
        /\ ly[i] = IF y[i] \in DOMAIN Lower THEN Lower[y[i]] ELSE y[i]
  BY <1>1 DEF Lowered
<1>4. IsText(lx) /\ IsText(ly) /\ Len(lx) = Len(x) /\ Len(ly) = Len(x)
        /\ DOMAIN lx = DOMAIN x /\ DOMAIN ly = DOMAIN x
  BY <1>1, Respelt DEF Lowered
<1> HIDE DEF lx, ly
<1>5. "." \notin DOMAIN Lower /\ " . " \notin DOMAIN Lower
  BY WordsAssumption
<1>6. \A i \in DOMAIN x : ly[i] = lx[i] \/ (lx[i] = "." /\ ly[i] = " . ")
  BY <1>2, <1>3, <1>5
<1>7. HasButDots(ly, lx)
  BY <1>4, <1>6 DEF HasButDots
<1>8. CloseDotSpacing(ly) = CloseDotSpacing(lx)
  BY <1>4, <1>6 DEF CloseDotSpacing
<1>9. Says(id, lx, CloseDotSpacing(lx))
  BY DEF Sees, lx
<1>10. Says(id, ly, CloseDotSpacing(ly))
  BY <1>4, <1>7, <1>8, <1>9, RulesButDots DEF Says
<1> QED BY <1>10 DEF Sees, ly, y

\* Texts are made of words and marks.
LEMMA TextTyped == ASSUME NEW text \in Texts PROVE text \in Seq(Words)
<1> DEFINE S == UNION {Range(t) : t \in Texts}
<1>1. text \in Seq(S)
  BY WordsAssumption
<1>2. S \subseteq Words
  BY DEF Words
<1> HIDE DEF S
<1> QED BY <1>1, <1>2, SeqMonotonic

\* The one text a token has, as its name or as its symbol.
IsLure(held, text) ==
    /\ text \in Seq(Words)
    /\ \/ held.name = text /\ held.symbol = << >>
       \/ held.name = << >> /\ held.symbol = text

\* A copy has no name, and the ticker, with a mark or without, for a symbol.
LEMMA CopySymbols ==
    ASSUME NEW ticker \in DOMAIN Known, NEW held \in Copies(ticker)
    PROVE  /\ held.name = << >>
           /\ \E mark \in {"-", "1", "."} :
                held.symbol \in {<< ticker >>, << ticker, mark >>, << mark, ticker >>}
<1>1. PICK symbol \in {<< ticker >>} \cup
            UNION {{<< ticker, mark >>, << mark, ticker >>} : mark \in {"-", "1", "."}},
           address \in Range(Known) :
         held = [AsSymbol(symbol) EXCEPT !.address = address]
  BY DEF Copies
<1>2. held.name = << >> /\ held.symbol = symbol
  BY <1>1 DEF AsSymbol
<1> QED BY <1>1, <1>2

\* A token the comments do not call legitimate has one text.
LEMMA OneText ==
    ASSUME NEW held \in Tokens \ Genuine
    PROVE  \E text : IsLure(held, text)
<1>2. CASE \E text \in Texts : held = AsName(text) \/ held = AsSymbol(text)
  BY <1>2, TextTyped DEF AsName, AsSymbol, IsLure
<1>3. CASE \E ticker \in DOMAIN Known : held \in Copies(ticker)
  <2>1. PICK ticker \in DOMAIN Known : held \in Copies(ticker)
    BY <1>3
  <2>2. PICK mark \in {"-", "1", "."} :
          held.symbol \in {<< ticker >>, << ticker, mark >>, << mark, ticker >>}
    BY <2>1, CopySymbols
  <2>3. ticker \in Words /\ mark \in Words
    BY <2>1, <2>2 DEF Words
  <2>4. << ticker >> \in Seq(Words) /\ << ticker, mark >> \in Seq(Words)
          /\ << mark, ticker >> \in Seq(Words)
    BY <2>3
  <2>5. held.symbol \in Seq(Words)
    BY <2>2, <2>4
  <2>6. held.name = << >>
    BY <2>1, CopySymbols
  <2> QED BY <2>5, <2>6 DEF IsLure
<1> QED BY <1>2, <1>3 DEF Tokens

\* A text that is put before or after another one is still there.
LEMMA HasPart ==
    ASSUME NEW lure \in Seq(Words), NEW other \in Seq(Words)
    PROVE  \A text \in {lure \o other, other \o lure} :
              IsText(text) /\ Has(text, lure) /\ Has(text, << >>)
<1> DEFINE m == Len(lure)
           n == Len(other)
<1>1. m \in Nat /\ n \in Nat /\ DOMAIN lure = 1..m /\ DOMAIN other = 1..n
  OBVIOUS
<1>2. /\ IsText(lure \o other) /\ Len(lure \o other) = m + n
      /\ \A i \in 1..m : (lure \o other)[0 + i] = lure[i]
  BY DEF IsText
<1>3. /\ IsText(other \o lure) /\ Len(other \o lure) = n + m
      /\ \A i \in 1..m : (other \o lure)[n + i] = lure[i]
  BY DEF IsText
<1>4. Has(lure \o other, lure)
  BY <1>1, <1>2 DEF Has
<1>5. Has(other \o lure, lure)
  BY <1>1, <1>3 DEF Has
<1>6. Len(<< >>) = 0 /\ DOMAIN << >> = {}
  OBVIOUS
<1>7. Has(lure \o other, << >>) /\ Has(other \o lure, << >>)
  BY <1>1, <1>2, <1>3, <1>6 DEF Has
<1> QED BY <1>2, <1>3, <1>4, <1>5, <1>7

\* A detector knows a ticker by its contract or not at all.
LEMMA DetectorKnows ==
    ASSUME NEW known \in Detectors
    PROVE  DOMAIN known \subseteq DOMAIN Known /\ \A t \in DOMAIN known : known[t] = Known[t]
BY DEF Detectors, Restrict

\* A rule about texts that sees a lure sees it with another text beside it, in
\* either field, and, unless it is about sums, with spaces around the dots.
LEMMA SeenAnyhow ==
    ASSUME NEW known \in Detectors, NEW held, NEW lure, IsLure(held, lure),
           NEW other \in Seq(Words), NEW text \in {lure \o other, other \o lure},
           NEW id \in TextRuleIds \ {"impersonates_an_ai_brand"},
           id \in ClassifyToken(known, held)
    PROVE  /\ id \in ClassifyToken(known, AsName(text))
           /\ id \in ClassifyToken(known, AsSymbol(text))
           /\ id # "quotes_a_cash_amount" =>
                 /\ id \in ClassifyToken(known, AsName(Spaced(text)))
                 /\ id \in ClassifyToken(known, AsSymbol(Spaced(text)))
<1>1. DOMAIN known \subseteq DOMAIN Known
  BY DetectorKnows
<1>2. Sees(id, held.name) \/ Sees(id, held.symbol)
  BY <1>1, ReasonsAre
<1>3. Sees(id, lure) \/ Sees(id, << >>)
  BY <1>2 DEF IsLure
<1>4. lure \in Seq(Words)
  BY DEF IsLure
<1>5. IsText(text) /\ Has(text, lure) /\ Has(text, << >>)
  BY <1>4, HasPart
<1>6. IsText(lure) /\ IsText(<< >>)
  BY <1>4 DEF IsText
<1>7. Sees(id, text)
  BY <1>3, <1>5, <1>6, SeenWithin
<1>8. id # "quotes_a_cash_amount" => Sees(id, Spaced(text))
  BY <1>5, <1>7, SeenSpaced
<1>9. ASSUME NEW t, Sees(id, t)
      PROVE  id \in ClassifyToken(known, AsName(t)) /\ id \in ClassifyToken(known, AsSymbol(t))
  <2>1. AsName(t).name = t /\ AsSymbol(t).symbol = t
    BY DEF AsName, AsSymbol
  <2> QED BY <1>1, <1>9, <2>1, ReasonsAre
<1> QED BY <1>7, <1>8, <1>9

\* The rules about texts read the texts only.
LEMMA TextsJudged ==
    ASSUME NEW known \in Detectors, NEW held, NEW other,
           held.name = other.name, held.symbol = other.symbol,
           ClassifyToken(Restrict(Known, {}), other) # {}
    PROVE  ClassifyToken(known, held) # {}
<1> DEFINE none == Restrict(Known, {})
<1>1. DOMAIN none = {} /\ none \in Detectors
  BY DEF Restrict, Detectors
<1> HIDE DEF none
<1>2. ClassifyToken(none, other) \subseteq TextRuleIds
  BY <1>1, ReasonsListed DEF RuleIds
<1>3. PICK id \in TextRuleIds : id \in ClassifyToken(none, other)
  BY <1>2 DEF none
<1>4. Sees(id, other.name) \/ Sees(id, other.symbol)
  BY <1>1, <1>3, ReasonsAre
<1>5. id \in ClassifyToken(known, held)
  BY <1>4, ReasonsAre, DetectorKnows
<1> QED BY <1>5

\* More tickers known, more copies seen.
LEMMA LegitimateSpared ==
    ASSUME NEW known \in Detectors, NEW held \in Genuine
    PROVE  ClassifyToken(known, held) = {}
<1>1. ClassifyToken(Known, held) = {}
  BY ExamplesAssumption DEF Suspicious
<1>2. Impersonated(known, held) \subseteq Impersonated(Known, held)
  BY DetectorKnows DEF Impersonated, Canonical
<1>3. ASSUME NEW id \in ClassifyToken(known, held) PROVE FALSE
  <2>1. id \notin TextRuleIds
    BY <1>1, <1>3, DetectorKnows, ReasonsAre
  <2>2. PICK ticker \in Impersonated(known, held) : id = TickerId(ticker)
    BY <2>1 DEF ClassifyToken, TextRuleIds
  <2>3. TickerId(ticker) \in ClassifyToken(Known, held)
    BY <1>2, <2>2 DEF ClassifyToken
  <2> QED BY <1>1, <2>3
<1> QED BY <1>3

\* RunTogether's round.
Spelt(spelt, word, kept) == IF word \in kept THEN spelt \o word ELSE spelt

\* What is run together of a text of at most two words.
LEMMA TwoRunTogether ==
    ASSUME NEW n, n \in 0..2, NEW text, DOMAIN text = 1..n, NEW kept
    PROVE  RunTogether(text, kept) =
              LET one == IF n >= 1 THEN Spelt("", text[1], kept) ELSE ""
              IN  IF n = 2 THEN Spelt(one, text[2], kept) ELSE one
<1> DEFINE Folds(g) == g = [s \in SUBSET (1..n) |->
                     IF s = {} THEN "" ELSE Spelt(g[s \ {Max(s)}], text[Max(s)], kept)]
           iter == CHOOSE g : Folds(g)
           one(s) == IF 1 \in s THEN Spelt("", text[1], kept) ELSE ""
           h == [s \in SUBSET (1..n) |->
                   IF 2 \in s THEN Spelt(one(s), text[2], kept) ELSE one(s)]
<1>1. RunTogether(text, kept) = iter[1..n]
  BY DEF RunTogether, FoldLeft, MapThenFoldSet, Spelt
<1>2. n \in Nat
  OBVIOUS
<1>3. \A s \in SUBSET (1..n) : s # {} => Max(s) = IF 2 \in s THEN 2 ELSE 1
  <2> TAKE s \in SUBSET (1..n)
  <2> HAVE s # {}
  <2>1. \A x \in s : x \in {1, 2}
    OBVIOUS
  <2> DEFINE top == IF 2 \in s THEN 2 ELSE 1
  <2>2. top \in s /\ \A x \in s : top >= x
    <3>1. PICK x \in s : TRUE
      OBVIOUS
    <3>2. 2 \in s \/ 1 \in s
      BY <2>1, <3>1
    <3> QED BY <2>1, <3>2
  <2>3. \A y \in s : (\A x \in s : y >= x) => y = top
    BY <2>1
  <2> HIDE DEF top
  <2>4. Max(s) = top
    BY <2>2, <2>3 DEF Max
  <2> QED BY <2>4 DEF top
<1>4. ASSUME NEW s \in SUBSET (1..n)
      PROVE  h[s] = IF s = {} THEN "" ELSE Spelt(h[s \ {Max(s)}], text[Max(s)], kept)
  <2>1. s \ {1} \in SUBSET (1..n) /\ s \ {2} \in SUBSET (1..n)
    OBVIOUS
  <2>2. CASE s = {}
    BY <2>2
  <2>3. CASE 2 \in s
    <3>1. h[s \ {2}] = one(s)
      BY <2>1
    <3> QED BY <1>3, <2>3, <3>1
  <2>4. CASE s # {} /\ 2 \notin s
    <3>1. s = {1}
      <4>1. \A x \in s : x \in {1, 2}
        OBVIOUS
      <4> QED BY <2>4, <4>1
    <3>2. h[s \ {1}] = ""
      BY <2>1, <3>1
    <3> QED BY <1>3, <2>4, <3>1, <3>2
  <2> QED BY <2>2, <2>3, <2>4
<1>5. Folds(iter)
  <2> HIDE DEF one
  <2>1. Folds(h)
    BY <1>4
  <2> HIDE DEF h
  <2> QED BY <2>1
<1>6. iter[1..n] = h[1..n]
  <2> HIDE DEF iter, h
  <2>1. InStep(iter, h, 1..n, LastIn(n))
    BY <1>4, <1>5 DEF LastIn, InStep
  <2>2. Picks(LastIn(n), 1..n)
    BY <1>2, LastOf DEF Picks, LastIn
  <2>3. IsFiniteSet(1..n)
    BY <1>2, FS_Interval
  <2> HIDE DEF Folds
  <2> QED BY <2>1, <2>2, <2>3, FoldsAgree
<1> HIDE DEF iter, Folds
<1>7. h[1..n] = IF n = 2 THEN Spelt(one(1..n), text[2], kept) ELSE one(1..n)
  <2>1. 1..n \in SUBSET (1..n) /\ (2 \in 1..n <=> n = 2)
    OBVIOUS
  <2> HIDE DEF one
  <2> QED BY <2>1
<1>8. one(1..n) = IF n >= 1 THEN Spelt("", text[1], kept) ELSE ""
  <2>1. 1 \in 1..n <=> n >= 1
    OBVIOUS
  <2> QED BY <2>1
<1> HIDE DEF one, h
<1> QED BY <1>1, <1>6, <1>7, <1>8

\* A copy of a known ticker is seen through marks and digits.
LEMMA CopySeen ==
    ASSUME NEW known \in Detectors, NEW ticker \in DOMAIN known,
           NEW held \in Copies(ticker), held.address # Known[ticker]
    PROVE  ClassifyToken(known, held) # {}
<1> DEFINE kept == Latin \cup Initials
           text == Lowered(held.symbol)
<1>1. ticker \in DOMAIN Known /\ known[ticker] = Known[ticker]
  BY DetectorKnows
<1>2. PICK mark \in {"-", "1", "."} :
          held.symbol \in {<< ticker >>, << ticker, mark >>, << mark, ticker >>}
  BY <1>1, CopySymbols
<1>3. ticker \notin DOMAIN Lower /\ mark \notin DOMAIN Lower
  BY <1>1, <1>2, WordsAssumption
<1>4. ticker \in kept
  BY <1>1 DEF Latin
<1>5. mark \notin kept
  <2>1. mark \notin DOMAIN Known /\ mark \notin Plain
    BY <1>2, WordsAssumption
  <2>2. mark \notin Tlds \cup ClaimWords \cup RewardWords \cup ReserveWords
    BY <1>2 DEF Tlds, ClaimWords, RewardWords, ReserveWords
  <2>3. mark \notin ReserveQualifier \cup StateCommodity \cup AiBrands \cup Initials
    BY <1>2 DEF ReserveQualifier, StateCommodity, AiBrands, Initials
  <2>4. mark \notin {"scan", "qr", "www", "usd", "usdc", "usdt"}
    BY <1>2
  <2> QED BY <2>1, <2>2, <2>3, <2>4 DEF Latin
<1> HIDE DEF kept
<1>6. "" \o ticker = ticker
  BY <1>1, WordsAssumption
<1>7. RunTogether(text, kept) = ticker
  <2>1. Spelt("", ticker, kept) = ticker
    BY <1>4, <1>6 DEF Spelt
  <2>2. Spelt("", mark, kept) = "" /\ Spelt(ticker, mark, kept) = ticker
    BY <1>5 DEF Spelt
  <2>3. CASE held.symbol = << ticker >>
    <3>1. DOMAIN text = 1..1 /\ text[1] = ticker
      BY <1>3, <2>3 DEF Lowered
    <3>2. 1 \in 0..2 /\ 1 >= 1 /\ 1 # 2
      OBVIOUS
    <3> HIDE DEF text
    <3> QED BY <2>1, <3>1, <3>2, TwoRunTogether
  <2>4. CASE held.symbol = << ticker, mark >>
    <3>1. DOMAIN text = 1..2 /\ text[1] = ticker /\ text[2] = mark
      BY <1>3, <2>4 DEF Lowered
    <3>2. 2 \in 0..2 /\ 2 >= 1
      OBVIOUS
    <3> HIDE DEF text
    <3> QED BY <2>1, <2>2, <3>1, <3>2, TwoRunTogether
  <2>5. CASE held.symbol = << mark, ticker >>
    <3>1. DOMAIN text = 1..2 /\ text[1] = mark /\ text[2] = ticker
      BY <1>3, <2>5 DEF Lowered
    <3>2. 2 \in 0..2 /\ 2 >= 1
      OBVIOUS
    <3> HIDE DEF text
    <3> QED BY <2>1, <2>2, <3>1, <3>2, TwoRunTogether
  <2> QED BY <1>2, <2>3, <2>4, <2>5
<1>8. ticker \in Impersonated(known, held)
  BY <1>1, <1>7 DEF Impersonated, Canonical, kept
<1>9. TickerId(ticker) \in ClassifyToken(known, held)
  BY <1>8 DEF ClassifyToken
<1> QED BY <1>9

\* Whatever is written around a lure, and whichever tickers are known, it is
\* seen (scamHeuristics.mjs classifyToken).
THEOREM NoLureHidden == RuleSpec => []LuresSeen
<1>1. RuleInv => LuresSeen
  <2> SUFFICES ASSUME RuleInv, token # NoToken PROVE LuresSeen
    BY DEF LuresSeen
  <2> DEFINE reasons == ClassifyToken(running, token)
             seen    == (reasons \cap TextRuleIds) \ {"impersonates_an_ai_brand"}
             lure    == token.name \o token.symbol
             Named(text)  == ClassifyToken(running, AsName(text))
             Symbol(text) == ClassifyToken(running, AsSymbol(text))
  <2>1. running \in Detectors /\ token \in Tokens
    BY DEF RuleInv
  <2>2. token \in Genuine => reasons = {}
    BY <2>1, LegitimateSpared
  <2>3. \A ticker \in DOMAIN running :
           token \in Copies(ticker) => reasons # {} \/ token.address = Known[ticker]
    BY <2>1, CopySeen
  <2>4. ASSUME token \notin Genuine PROVE IsLure(token, lure)
    <3>1. PICK text : IsLure(token, text)
      BY <2>1, <2>4, OneText
    <3>2. text \in Seq(Words)
      BY <3>1 DEF IsLure
    <3>3. text \o << >> = text /\ << >> \o text = text
      BY <3>2, ConcatEmptySeq
    <3>4. lure = text
      BY <3>1, <3>3 DEF IsLure
    <3> QED BY <3>1, <3>4
  <2>5. lure \in Lures /\ token \notin Genuine => reasons # {}
    <3> SUFFICES ASSUME lure \in Lures, token \notin Genuine PROVE reasons # {}
      OBVIOUS
    <3> DEFINE held == IF token.symbol = << >> THEN AsName(lure) ELSE AsSymbol(lure)
    <3>1. held.name = token.name /\ held.symbol = token.symbol
      <4>1. IsLure(token, lure)
        BY <2>4
      <4> HIDE DEF lure
      <4> QED BY <4>1 DEF IsLure, AsName, AsSymbol
    <3>2. ClassifyToken(Restrict(Known, {}), held) # {}
      BY ExamplesAssumption
    <3> HIDE DEF held
    <3> QED BY <2>1, <3>1, <3>2, TextsJudged
  <2>6. ASSUME NEW other \in Texts, NEW text \in {lure \o other, other \o lure}, NEW id \in seen
        PROVE  /\ id \in Named(text) \cap Symbol(text)
               /\ id # "quotes_a_cash_amount" =>
                     id \in Named(Spaced(text)) \cap Symbol(Spaced(text))
    <3>1. IsLure(token, lure)
      BY <2>2, <2>4
    <3>2. other \in Seq(Words)
      BY TextTyped
    <3> HIDE DEF lure
    <3> QED BY <2>1, <3>1, <3>2, SeenAnyhow
  <2>7. seen # {} =>
          \A other \in Texts : \A text \in {lure \o other, other \o lure} :
              /\ seen \subseteq Named(text) \cap Symbol(text)
              /\ seen \ {"quotes_a_cash_amount"}
                   \subseteq Named(Spaced(text)) \cap Symbol(Spaced(text))
    <3> HIDE DEF seen, lure, Named, Symbol
    <3> QED BY <2>6
  <2> QED BY <2>2, <2>3, <2>5, <2>7 DEF LuresSeen
<1> QED BY <1>1, RuleInductive, PTL

-----------------------------------------------------------------------------
(* The sale of the audit *)

Apps == {ConfiguredApp(env, terms) : env \in Settings, terms \in Terms \cup {NoTerms}}

\* A request that is verified is free, or brings a payment that fits the terms
\* of the deployment that took it; one that is answered brings a payment.
Fits(request) ==
    IF request.auth = NoAuth
    THEN request.at = "verified" /\ request.app.mode = "unpaid"
    ELSE request.auth.terms = request.app.terms

StoreTypeOK ==
    /\ price \in Terms
    /\ front \in Apps
    /\ IsFiniteSet(signed) /\ NoAuth \notin signed
    /\ settled \subseteq signed
    /\ asked \in [Requests -> [at   : {"none", "sent", "verified", "answered"},
                               app  : Apps,
                               auth : signed \cup {NoAuth}]]

StoreInv ==
    /\ StoreTypeOK
    /\ \A r \in Requests :
          /\ asked[r].at = "sent" => asked[r].auth # NoAuth
          /\ asked[r].at \in {"verified", "answered"} => Fits(asked[r])
    /\ checked # NoTerms => front.mode = "paid" /\ front.terms = checked
    /\ ServedIsPaid

LEMMA AppFields ==
    ASSUME NEW app \in Apps
    PROVE  /\ app.env \in Settings /\ app.mode = AuditMode(app.env)
           /\ app.mode \in {"paid", "unpaid", "unavailable"}
           /\ app.mode = "unpaid" => app.env.allowUnpaid /\ app.env.cdpKeys < 2
  BY DEF Apps, ConfiguredApp, AuditMode, Settings

LEMMA NoRequestTyped ==
    /\ NoRequest.app \in Apps /\ NoRequest.auth = NoAuth /\ NoRequest.at = "none"
    /\ NoRequest = [at |-> NoRequest.at, app |-> NoRequest.app, auth |-> NoRequest.auth]
<1>1. NoKeys \in Settings
  BY DEF NoKeys, Settings
<1> QED BY <1>1 DEF NoRequest, Apps

LEMMA StoreInitInv == StoreInit => StoreInv
<1> SUFFICES ASSUME StoreInit PROVE StoreInv
  OBVIOUS
<1>1. front \in Apps
  BY DEF StoreInit, Apps
<1>2. StoreTypeOK
  BY <1>1, NoRequestTyped, FS_EmptySet DEF StoreInit, StoreTypeOK
<1> QED BY <1>2, NoRequestTyped DEF StoreInit, StoreInv, ServedIsPaid

\* What a request becomes, when nothing else that StoreInv speaks of changes.
LEMMA RequestMoves ==
    ASSUME StoreInv, NEW r \in Requests, NEW next,
           next \in [at   : {"none", "sent", "verified", "answered"}, app : Apps,
                     auth : signed \cup {NoAuth}],
           next.at = "sent" => next.auth # NoAuth,
           next.at \in {"verified", "answered"} => Fits(next),
           asked' = [asked EXCEPT ![r] = next],
           UNCHANGED <<price, front, signed, settled, sales, checked>>
    PROVE  StoreInv'
<1>1. StoreTypeOK'
  BY DEF StoreInv, StoreTypeOK
<1>2. \A q \in Requests : asked'[q] = IF q = r THEN next ELSE asked[q]
  BY DEF StoreInv, StoreTypeOK
<1>3. \A q \in Requests :
        /\ asked'[q].at = "sent" => asked'[q].auth # NoAuth
        /\ asked'[q].at \in {"verified", "answered"} => Fits(asked'[q])
  BY <1>2 DEF StoreInv
<1>4. ServedIsPaid'
  BY DEF StoreInv, ServedIsPaid
<1> QED BY <1>1, <1>3, <1>4 DEF StoreInv

LEMMA AskKeepsInv == ASSUME StoreInv, NEW r \in Requests, Ask(r) PROVE StoreInv'
<1> DEFINE next == [NoRequest EXCEPT !.at = "verified", !.app = front]
<1>1. CASE Unpaid(front).status = 200
  <2>1. front.mode = "unpaid"
    BY <1>1, AppFields DEF Unpaid, StoreInv, StoreTypeOK
  <2>2. next.at = "verified" /\ next.app = front /\ next.auth = NoAuth
    BY NoRequestTyped DEF NoRequest
  <2>3. next \in [at   : {"none", "sent", "verified", "answered"}, app : Apps,
                  auth : signed \cup {NoAuth}]
    BY NoRequestTyped DEF NoRequest, StoreInv, StoreTypeOK
  <2>4. Fits(next)
    BY <2>1, <2>2 DEF Fits
  <2>5. /\ asked' = [asked EXCEPT ![r] = next]
        /\ UNCHANGED <<price, front, signed, settled, sales, checked>>
    BY <1>1 DEF Ask
  <2> HIDE DEF next
  <2> QED BY <2>2, <2>3, <2>4, <2>5, RequestMoves
<1>2. CASE Unpaid(front).status # 200
  BY <1>2 DEF Ask, StoreInv, StoreTypeOK, ServedIsPaid
<1> QED BY <1>1, <1>2

LEMMA SendKeepsInv ==
    ASSUME StoreInv, NEW r \in Requests, NEW auth \in signed, Send(r, auth)
    PROVE  StoreInv'
<1>1. front \in Apps /\ NoAuth \notin signed
  BY DEF StoreInv, StoreTypeOK
<1>2. CASE front.mode = "paid"
  <2> DEFINE next == [at |-> "sent", app |-> front, auth |-> auth]
  <2>1. /\ asked' = [asked EXCEPT ![r] = next]
        /\ UNCHANGED <<price, front, signed, settled, sales, checked>>
    BY <1>2 DEF Send
  <2> QED BY <1>1, <2>1, RequestMoves
<1>3. CASE front.mode = "unpaid"
  <2> DEFINE next == [NoRequest EXCEPT !.at = "verified", !.app = front]
  <2>1. next.at = "verified" /\ next.app = front /\ next.auth = NoAuth
    BY NoRequestTyped DEF NoRequest
  <2>2. next \in [at   : {"none", "sent", "verified", "answered"}, app : Apps,
                  auth : signed \cup {NoAuth}]
    BY <1>1, NoRequestTyped DEF NoRequest
  <2>3. Fits(next)
    BY <1>3, <2>1 DEF Fits
  <2>4. /\ asked' = [asked EXCEPT ![r] = next]
        /\ UNCHANGED <<price, front, signed, settled, sales, checked>>
    BY <1>3 DEF Send
  <2> HIDE DEF next
  <2> QED BY <2>1, <2>2, <2>3, <2>4, RequestMoves
<1>4. CASE front.mode \notin {"paid", "unpaid"}
  BY <1>4 DEF Send, StoreInv, StoreTypeOK, ServedIsPaid
<1> QED BY <1>2, <1>3, <1>4

LEMMA VerifyKeepsInv == ASSUME StoreInv, NEW r \in Requests, Verify(r) PROVE StoreInv'
<1>1. /\ asked[r] \in [at : {"none", "sent", "verified", "answered"}, app : Apps,
                       auth : signed \cup {NoAuth}]
      /\ asked[r].at = "sent" /\ asked[r].auth # NoAuth
  BY DEF Verify, StoreInv, StoreTypeOK
<1> DEFINE next == IF asked[r].auth.terms = Accepts(asked[r].app) /\ asked[r].auth \notin settled
                   THEN [asked[r] EXCEPT !.at = "verified"] ELSE NoRequest
<1>2. /\ asked' = [asked EXCEPT ![r] = next]
      /\ UNCHANGED <<price, front, signed, settled, sales, checked>>
  BY DEF Verify, StoreInv, StoreTypeOK
<1>3. next \in [at : {"none", "sent", "verified", "answered"}, app : Apps,
                auth : signed \cup {NoAuth}]
  BY <1>1, NoRequestTyped
<1>4. next.at # "sent" /\ (next.at \in {"verified", "answered"} => Fits(next))
  BY <1>1, NoRequestTyped DEF Fits, Accepts
<1> HIDE DEF next
<1> QED BY <1>2, <1>3, <1>4, RequestMoves

LEMMA AnswerKeepsInv == ASSUME StoreInv, NEW r \in Requests, Answer(r) PROVE StoreInv'
<1>1. /\ asked[r] \in [at : {"none", "sent", "verified", "answered"}, app : Apps,
                       auth : signed \cup {NoAuth}]
      /\ Fits(asked[r]) /\ asked[r].at = "verified"
  BY DEF Answer, StoreInv, StoreTypeOK
<1>2. CASE asked[r].auth = NoAuth
  <2> DEFINE sale == [app |-> asked[r].app, auth |-> NoAuth, nth |-> 1]
  <2>1. /\ sales' = sales \cup {sale} /\ asked' = [asked EXCEPT ![r] = NoRequest]
        /\ UNCHANGED <<price, front, signed, settled, checked>>
    BY <1>2 DEF Answer
  <2>2. sale.auth = NoAuth /\ sale.app.env.allowUnpaid /\ sale.app.env.cdpKeys < 2
    BY <1>1, <1>2, AppFields DEF Fits
  <2> HIDE DEF sale
  <2>3. ServedIsPaid'
    BY <2>1, <2>2 DEF StoreInv, ServedIsPaid
  <2>4. StoreTypeOK'
    BY <2>1, NoRequestTyped DEF StoreInv, StoreTypeOK
  <2>5. \A q \in Requests : asked'[q] = IF q = r THEN NoRequest ELSE asked[q]
    BY <2>1 DEF StoreInv, StoreTypeOK
  <2>6. \A q \in Requests :
          /\ asked'[q].at = "sent" => asked'[q].auth # NoAuth
          /\ asked'[q].at \in {"verified", "answered"} => Fits(asked'[q])
    BY <2>5, NoRequestTyped DEF StoreInv
  <2> QED BY <2>1, <2>3, <2>4, <2>6 DEF StoreInv
<1>3. CASE asked[r].auth # NoAuth
  <2> DEFINE next == [asked[r] EXCEPT !.at = "answered"]
  <2>1. /\ asked' = [asked EXCEPT ![r] = next]
        /\ UNCHANGED <<price, front, signed, settled, sales, checked>>
    BY <1>3 DEF Answer, StoreInv, StoreTypeOK
  <2>2. /\ next.at = "answered" /\ next.auth = asked[r].auth /\ next.app = asked[r].app
        /\ next \in [at : {"none", "sent", "verified", "answered"}, app : Apps,
                     auth : signed \cup {NoAuth}]
    BY <1>1
  <2>3. Fits(next)
    BY <1>1, <1>3, <2>2 DEF Fits
  <2> HIDE DEF next
  <2> QED BY <2>1, <2>2, <2>3, RequestMoves
<1> QED BY <1>2, <1>3

\* A request that ends leaves what is said of the others, and of the sales,
\* when no more than its own payment is settled.
LEMMA RequestEnds ==
    ASSUME StoreInv, NEW r \in Requests,
           asked' = [asked EXCEPT ![r] = NoRequest],
           settled \subseteq settled', settled' \subseteq settled \cup ({asked[r].auth} \ {NoAuth}),
           ServedIsPaid',
           UNCHANGED <<price, front, signed, checked>>
    PROVE  StoreInv'
<1>1. asked[r].auth \in signed \cup {NoAuth}
  BY DEF StoreInv, StoreTypeOK
<1>2. StoreTypeOK'
  BY <1>1, NoRequestTyped DEF StoreInv, StoreTypeOK
<1>3. \A q \in Requests : asked'[q] = IF q = r THEN NoRequest ELSE asked[q]
  BY DEF StoreInv, StoreTypeOK
<1>4. \A q \in Requests :
        /\ asked'[q].at = "sent" => asked'[q].auth # NoAuth
        /\ asked'[q].at \in {"verified", "answered"} => Fits(asked'[q])
  BY <1>3, NoRequestTyped DEF StoreInv
<1> QED BY <1>2, <1>4 DEF StoreInv

LEMMA AnswerFailsKeepsInv ==
    ASSUME StoreInv, NEW r \in Requests, AnswerFails(r) PROVE StoreInv'
<1>1. settled \subseteq settled' /\ settled' \subseteq settled \cup ({asked[r].auth} \ {NoAuth})
  BY DEF AnswerFails
<1>2. ServedIsPaid'
  BY <1>1 DEF AnswerFails, StoreInv, ServedIsPaid
<1> QED BY <1>1, <1>2, RequestEnds DEF AnswerFails

\* The chain has not executed the payment, so nothing was served for it yet.
LEMMA SettleKeepsInv == ASSUME StoreInv, NEW r \in Requests, Settle(r) PROVE StoreInv'
<1>1. asked[r].auth # NoAuth /\ asked[r].auth.terms = asked[r].app.terms
  BY DEF Settle, StoreInv, Fits
<1>2. CASE UNCHANGED <<settled, sales>>
  <2>1. ServedIsPaid'
    BY <1>2 DEF StoreInv, ServedIsPaid
  <2> QED BY <1>2, <2>1, RequestEnds DEF Settle
<1>3. CASE ~UNCHANGED <<settled, sales>>
  <2> DEFINE sale == [app |-> asked[r].app, auth |-> asked[r].auth,
                      nth |-> 1 + Cardinality({s \in sales : s.auth = asked[r].auth})]
  <2>1. /\ asked[r].auth \notin settled
        /\ settled' = settled \cup {asked[r].auth}
        /\ sales' = sales \cup {sale}
        /\ UNCHANGED <<price, front, signed, checked>>
        /\ asked' = [asked EXCEPT ![r] = NoRequest]
    BY <1>3 DEF Settle
  <2>2. {s \in sales : s.auth = asked[r].auth} = {}
    BY <1>1, <2>1 DEF StoreInv, ServedIsPaid
  <2>3. sale.auth = asked[r].auth /\ sale.app = asked[r].app /\ sale.nth = 1
    BY <2>2, FS_EmptySet
  <2> HIDE DEF sale
  <2>4. ServedIsPaid'
    BY <1>1, <2>1, <2>3 DEF StoreInv, ServedIsPaid
  <2> QED BY <1>1, <2>1, <2>4, RequestEnds
<1> QED BY <1>2, <1>3

LEMMA SignKeepsInv == ASSUME StoreInv, NEW terms, Sign(terms) PROVE StoreInv'
<1> DEFINE auth == [terms |-> terms, nonce |-> Cardinality(signed) + 1]
<1>1. /\ signed' = signed \/ signed' = signed \cup {auth}
      /\ UNCHANGED <<price, front, asked, settled, sales, checked>>
  BY DEF Sign
<1>2. auth # NoAuth
  <2>1. Cardinality(signed) + 1 # 0
    BY FS_CardinalityType DEF StoreInv, StoreTypeOK
  <2> QED BY <2>1 DEF NoAuth
<1>3. IsFiniteSet(signed') /\ NoAuth \notin signed' /\ signed \subseteq signed'
  <2> HIDE DEF auth
  <2>1. CASE signed' = signed
    BY <2>1 DEF StoreInv, StoreTypeOK
  <2>2. CASE signed' = signed \cup {auth}
    BY <1>2, <2>2, FS_AddElement DEF StoreInv, StoreTypeOK
  <2> QED BY <1>1, <2>1, <2>2
<1>4. StoreTypeOK'
  BY <1>1, <1>3 DEF StoreInv, StoreTypeOK
<1> QED BY <1>1, <1>4 DEF StoreInv, ServedIsPaid

LEMMA OperatorKeepsInv ==
    ASSUME StoreInv,
           \/ \E terms \in Terms : Reprice(terms)
           \/ \E env \in Settings : Redeploy(env)
           \/ SmokeCheck \/ ReadCard
    PROVE  StoreInv'
<1>1. UNCHANGED <<asked, signed, settled, sales>>
  BY DEF Reprice, Redeploy, SmokeCheck, ReadCard
<1>2. ServedIsPaid'
  BY <1>1 DEF StoreInv, ServedIsPaid
<1>3. ASSUME price' \in Terms, front' \in Apps PROVE StoreTypeOK'
  BY <1>1, <1>3 DEF StoreInv, StoreTypeOK
<1>4. CASE \E terms \in Terms : Reprice(terms)
  BY <1>1, <1>2, <1>3, <1>4 DEF Reprice, StoreInv, StoreTypeOK
<1>5. ASSUME NEW env \in Settings, Redeploy(env) PROVE StoreInv'
  <2>1. front' \in Apps
    BY <1>5 DEF Redeploy, Apps, StoreInv, StoreTypeOK
  <2> QED BY <1>1, <1>2, <1>3, <1>5, <2>1 DEF Redeploy, StoreInv, StoreTypeOK
<1>6. CASE SmokeCheck
  <2>1. checked' # NoTerms => front.mode = "paid" /\ front.terms = checked'
    <3>1. front.mode \in {"paid", "unpaid", "unavailable"}
      BY AppFields DEF StoreInv, StoreTypeOK
    <3> QED BY <1>6, <3>1 DEF SmokeCheck, Unpaid, Accepts
  <2> QED BY <1>1, <1>2, <1>3, <1>6, <2>1 DEF SmokeCheck, StoreInv, StoreTypeOK
<1>7. CASE ReadCard
  BY <1>1, <1>2, <1>3, <1>7 DEF ReadCard, StoreInv, StoreTypeOK
<1> QED BY <1>4, <1>5, <1>6, <1>7

LEMMA StoreInductive == StoreSpec => []StoreInv
<1>1. StoreInv /\ [StoreNext]_storeVars => StoreInv'
  <2> SUFFICES ASSUME StoreInv, [StoreNext]_storeVars PROVE StoreInv'
    OBVIOUS
  <2>1. CASE UNCHANGED storeVars
    BY <2>1 DEF storeVars, StoreInv, StoreTypeOK, ServedIsPaid
  <2> QED BY <2>1, AskKeepsInv, SendKeepsInv, VerifyKeepsInv, AnswerKeepsInv,
             AnswerFailsKeepsInv, SettleKeepsInv, SignKeepsInv, OperatorKeepsInv
          DEF StoreNext
<1> QED BY <1>1, StoreInitInv, PTL DEF StoreSpec

\* No report leaves unpaid that was not given away on purpose, and no payment
\* buys two, whatever the requests, deployments and retries (app.mjs
\* resolveAuditMode, buildAuditPaymentMiddleware).
THEOREM AuditSold == StoreSpec => []ServedIsPaid
  BY StoreInductive, PTL DEF StoreInv

\* The card, the challenge and what is settled agree for every deployment, and
\* the smoke check tells the truth until the next one (app.mjs agentCard).
THEOREM TermsHonoured == StoreSpec => []ChargedAsAdvertised
<1>1. StoreInv => ChargedAsAdvertised
  <2> SUFFICES ASSUME StoreInv PROVE ChargedAsAdvertised
    OBVIOUS
  <2>1. ASSUME NEW app \in Apps
        PROVE  /\ AgentCard(app).payment = Unpaid(app).accepts
               /\ Unpaid(app).status = CASE AgentCard(app).audit = "paid"   -> 402
                                         [] AgentCard(app).audit = "unpaid" -> 200
                                         [] OTHER                           -> 503
    <3>1. app.mode \in {"paid", "unpaid", "unavailable"}
      BY AppFields
    <3> QED BY <3>1 DEF AgentCard, Unpaid, Accepts
  <2>2. {front} \cup {asked[r].app : r \in Requests} \subseteq Apps
    BY DEF StoreInv, StoreTypeOK
  <2>3. checked # NoTerms => Unpaid(front).status = 402 /\ AgentCard(front).payment = checked
    BY DEF StoreInv, Unpaid, AgentCard
  <2> QED BY <2>1, <2>2, <2>3 DEF StoreInv, StoreTypeOK, ChargedAsAdvertised
<1> QED BY <1>1, StoreInductive, PTL

-----------------------------------------------------------------------------
(* A lemma about numbers, for the score *)

\* What is taken off the score, and what is left of it.
LEMMA ScoreFalls ==
    ASSUME NEW m \in Nat, NEW n \in Nat, NEW a \in 0..10
    PROVE  /\ AtLeast0(100 - m - a) + 10 >= AtLeast0(100 - m - 0)
           /\ m < n => \/ AtLeast0(100 - n - a) < AtLeast0(100 - m - a)
                       \/ AtLeast0(100 - n - a) = 0
  BY DEF AtLeast0

-----------------------------------------------------------------------------
(* The limiter *)

USE LimitAssumption

\* The calls of k that were let through in the w-th window.
InWindow(k, w) == {p \in passes : p.client = k /\ p.at \div Window = w}

\* Nothing is counted for a window to come, the map holds one window, and a
\* wait that was told ends after the window the client is counted in.
Counted ==
    /\ \A k \in Clients : windows[k].count > 0 => windows[k].window <= Current
    /\ OneWindowKept
    /\ \A k \in Clients :
          told[k] # Untold /\ windows[k].count > 0
              => (windows[k].window + 1) * Window <= told[k]

\* No window let more than the limit through, and the current one no more than
\* is counted.
Limited ==
    /\ IsFiniteSet(passes)
    /\ \A p \in passes : p.at <= tick
    /\ \A k \in Clients, w \in Nat : Cardinality(InWindow(k, w)) <= Limit
    /\ \A k \in Clients : Cardinality(InWindow(k, Current)) <= Swept[k].count

LimitInv == LimitTypeOK /\ Counted /\ Limited

LEMMA DivBounds ==
    ASSUME NEW a \in Nat, NEW n \in Nat \ {0}
    PROVE  a \div n \in Nat /\ (a \div n) * n <= a /\ a < (a \div n + 1) * n
  OBVIOUS

LEMMA DivMonotone ==
    ASSUME NEW a \in Nat, NEW n \in Nat \ {0}
    PROVE  a \div n <= (a + 1) \div n
  OBVIOUS

\* Rounding up, and up to one second, never shortens what is left of a window.
LEMMA WaitLongEnough ==
    ASSUME tick \in Nat
    PROVE  /\ RetryAfter \in Nat
           /\ (Current + 1) * Window <= tick + RetryAfter * Second
<1> DEFINE rest == (Current + 1) * Window - tick
           up == (rest + Second - 1) \div Second
<1>1. Current \in Nat /\ rest \in Nat \ {0}
  <2>1. Current \in Nat /\ tick < (Current + 1) * Window
    BY DivBounds DEF Current
  <2>2. (Current + 1) * Window \in Nat
    BY <2>1
  <2> QED BY <2>1, <2>2
<1>2. up \in Nat /\ rest <= up * Second
  <2> HIDE DEF rest
  <2>1. rest + Second - 1 \in Nat
    BY <1>1
  <2>2. up \in Nat /\ rest + Second - 1 < (up + 1) * Second
    BY <2>1, DivBounds
  <2>3. (up + 1) * Second = up * Second + Second /\ up * Second \in Nat
    BY <2>2
  <2> HIDE DEF up
  <2> QED BY <1>1, <2>2, <2>3
<1>3. RetryAfter = Later(1, up)
  BY DEF RetryAfter
<1>4. RetryAfter \in Nat /\ rest <= RetryAfter * Second
  <2> HIDE DEF rest, up
  <2>1. CASE 1 > up
    BY <1>1, <1>2, <1>3, <2>1 DEF Later
  <2>2. CASE ~(1 > up)
    BY <1>1, <1>2, <1>3, <2>2 DEF Later
  <2> QED BY <2>1, <2>2
<1>5. RetryAfter * Second \in Nat /\ (Current + 1) * Window \in Nat
  BY <1>1, <1>4
<1> HIDE DEF up
<1> QED BY <1>4, <1>5

LEMMA LimitInitInv == LimitInit => LimitInv
<1> SUFFICES ASSUME LimitInit PROVE LimitInv
  OBVIOUS
<1>1. LimitTypeOK
  BY DEF LimitInit, LimitTypeOK, Absent, Untold
<1>2. Counted
  BY DEF LimitInit, Counted, OneWindowKept, Absent, Untold
<1>3. Limited
  <2>1. passes = {} /\ IsFiniteSet(passes)
    BY FS_EmptySet DEF LimitInit
  <2>2. \A k, w : Cardinality(InWindow(k, w)) = 0
    BY <2>1, FS_EmptySet DEF InWindow
  <2>3. \A k \in Clients : Swept[k].count \in Nat
    BY DEF LimitInit, Swept, Absent
  <2> QED BY <2>1, <2>2, <2>3 DEF Limited
<1> QED BY <1>1, <1>2, <1>3 DEF LimitInv

LEMMA CurrentTyped == ASSUME LimitTypeOK PROVE tick \in Nat /\ Current \in Nat
<1>1. tick \in Nat
  BY DEF LimitTypeOK
<1> QED BY <1>1, DivBounds DEF Current

\* What the sweep leaves counted is counted in the current window.
LEMMA SweptCurrent ==
    ASSUME LimitInv
    PROVE  /\ Swept \in [Clients -> [window : Nat, count : Nat]]
           /\ \A k \in Clients : Swept[k].count > 0 =>
                 Swept[k] = windows[k] /\ windows[k].window = Current
  BY CurrentTyped DEF LimitInv, LimitTypeOK, Counted, Swept, Absent

\* A call that is let through is one more of its window, and of no other.
LEMMA HitKeepsLimited ==
    ASSUME LimitInv, NEW k \in Clients, Hit(k)
    PROVE  Limited'
<1> DEFINE count == Swept[k].count + 1
           p == [client |-> k, at |-> tick, nth |-> Passed(k, tick, tick) + 1]
<1>1. /\ tick' = tick /\ Current' = Current /\ Current \in Nat
      /\ Current = tick \div Window
  BY CurrentTyped DEF Hit, Current, LimitInv
<1>2. /\ count \in Nat \ {0}
      /\ Swept \in [Clients -> [window : Nat, count : Nat]]
      /\ windows' = [Swept EXCEPT ![k] = [window |-> Current, count |-> count]]
  BY SweptCurrent DEF Hit
<1>3. \/ passes' = passes \cup {p} /\ count <= Limit
      \/ passes' = passes
  BY DEF Hit, WithinLimit
<1>4. p.client = k /\ p.at = tick
  OBVIOUS
<1>5. /\ Swept'[k].count = count
      /\ \A j \in Clients : j # k => Swept'[j].count = Swept[j].count
  <2>1. \A j \in Clients : j # k => windows'[j] = Swept[j]
    BY <1>2
  <2>2. windows'[k] = [window |-> Current, count |-> count]
    BY <1>2
  <2> HIDE DEF count
  <2>3. \A j \in Clients :
          Swept'[j] = IF windows'[j].window < Current THEN Absent ELSE windows'[j]
    BY <1>1 DEF Swept
  <2>4. Swept'[k].count = count
    BY <1>1, <2>2, <2>3
  <2>5. \A j \in Clients : Swept[j].window < Current => Swept[j] = Absent
    BY DEF Swept
  <2>6. ASSUME NEW j \in Clients, j # k PROVE Swept'[j].count = Swept[j].count
    BY <2>1, <2>3, <2>5, <2>6
  <2> QED BY <2>4, <2>6
<1> HIDE DEF count, p
<1>6. /\ IsFiniteSet(passes)
      /\ \A q \in passes : q.at <= tick
      /\ \A j \in Clients, w \in Nat : Cardinality(InWindow(j, w)) <= Limit
      /\ \A j \in Clients : Cardinality(InWindow(j, Current)) <= Swept[j].count
  BY DEF LimitInv, Limited
<1>7. \A j \in Clients, w \in Nat :
         IsFiniteSet(InWindow(j, w)) /\ Cardinality(InWindow(j, w)) \in Nat
  <2>1. \A j \in Clients, w \in Nat : InWindow(j, w) \subseteq passes
    BY DEF InWindow
  <2> QED BY <1>6, <2>1, FS_Subset, FS_CardinalityType
<1>8. CASE passes' = passes
  <2>1. \A j \in Clients, w \in Nat : InWindow(j, w)' = InWindow(j, w)
    BY <1>8 DEF InWindow
  <2>2. \A j \in Clients : Cardinality(InWindow(j, Current)) <= Swept'[j].count
    <3>1. Swept[k].count <= count
      BY <1>2 DEF count
    <3>2. Cardinality(InWindow(k, Current)) <= Swept[k].count
      BY <1>6
    <3>3. /\ Cardinality(InWindow(k, Current)) \in Int
          /\ Swept[k].count \in Int /\ count \in Int
      BY <1>1, <1>2, <1>7
    <3>4. Cardinality(InWindow(k, Current)) <= count
      BY <3>1, <3>2, <3>3
    <3> QED BY <1>5, <1>6, <3>4
  <2>3. \A j \in Clients : InWindow(j, Current)' = InWindow(j, Current)
    BY <1>1, <1>8 DEF InWindow
  <2> QED BY <1>1, <1>6, <1>8, <2>1, <2>2, <2>3 DEF Limited
<1>9. CASE passes' = passes \cup {p} /\ count <= Limit
  <2>1. IsFiniteSet(passes') /\ \A q \in passes' : q.at <= tick'
    <3>1. tick <= tick
      BY CurrentTyped DEF LimitInv
    <3> QED BY <1>1, <1>4, <1>6, <1>9, <3>1, FS_AddElement
  <2>2. ASSUME NEW j \in Clients, NEW w \in Nat, ~(j = k /\ w = Current)
        PROVE  InWindow(j, w)' = InWindow(j, w)
    BY <1>1, <1>4, <1>9, <2>2 DEF InWindow
  <2>3. InWindow(k, Current)' = InWindow(k, Current) \cup {p}
    BY <1>1, <1>4, <1>9 DEF InWindow
  <2>4. Cardinality(InWindow(k, Current)') <= count
    <3>1. /\ Cardinality(InWindow(k, Current)') \in Nat
          /\ Cardinality(InWindow(k, Current)') <= Cardinality(InWindow(k, Current)) + 1
      <4> DEFINE before == InWindow(k, Current)
                 after == InWindow(k, Current)'
      <4>1. IsFiniteSet(before) /\ Cardinality(before) \in Nat
        BY <1>1, <1>7
      <4>2. after = before \cup {p}
        BY <2>3
      <4> HIDE DEF before, after
      <4>3. /\ IsFiniteSet(after)
            /\ Cardinality(after) = Cardinality(before) \/ Cardinality(after) = Cardinality(before) + 1
        BY <4>1, <4>2, FS_AddElement
      <4> QED BY <4>1, <4>3 DEF before, after
    <3>2. Cardinality(InWindow(k, Current)) <= Swept[k].count
      BY <1>6
    <3>3. /\ Cardinality(InWindow(k, Current)) \in Nat
          /\ Swept[k].count \in Nat /\ count = Swept[k].count + 1
      BY <1>1, <1>2, <1>7 DEF count
    <3> QED BY <3>1, <3>2, <3>3
  <2>6. ASSUME NEW j \in Clients, NEW w \in Nat
        PROVE  Cardinality(InWindow(j, w)') <= Limit
    <3>1. CASE j = k /\ w = Current
      <4>1. Cardinality(InWindow(k, Current)') \in Nat
        <5>1. IsFiniteSet(InWindow(k, Current)')
          BY <2>1, FS_Subset DEF InWindow
        <5> QED BY <5>1, FS_CardinalityType
      <4>2. InWindow(j, w)' = InWindow(k, Current)'
        BY <1>1, <3>1 DEF InWindow
      <4> QED BY <1>2, <1>9, <2>4, <4>1, <4>2
    <3> QED BY <1>6, <2>2, <3>1
  <2>7. ASSUME NEW j \in Clients
        PROVE  Cardinality(InWindow(j, Current)') <= Swept'[j].count
    <3>1. CASE j = k
      BY <1>5, <2>4, <3>1
    <3>2. CASE j # k
      <4>1. InWindow(j, Current)' = InWindow(j, Current)
        BY <1>1, <1>4, <1>9, <3>2 DEF InWindow
      <4> QED BY <1>5, <1>6, <3>2, <4>1
    <3> QED BY <3>1, <3>2
  <2> QED BY <2>1, <2>6, <2>7 DEF Limited
<1> QED BY <1>3, <1>8, <1>9

LEMMA HitKeepsInv == ASSUME LimitInv, NEW k \in Clients, Hit(k) PROVE LimitInv'
<1> DEFINE count == Swept[k].count + 1
           p == [client |-> k, at |-> tick, nth |-> Passed(k, tick, tick) + 1]
<1>1. /\ count \in Nat \ {0}
      /\ windows' = [Swept EXCEPT ![k] = [window |-> Current, count |-> count]]
      /\ tick' = tick /\ Current' = Current
  BY SweptCurrent DEF Hit, Current
<1>2. RetryAfter \in Nat /\ (Current + 1) * Window <= tick + RetryAfter * Second
  BY WaitLongEnough, CurrentTyped DEF LimitInv
<1>3. \/ /\ passes' = passes \cup {p}
         /\ told' = [told EXCEPT ![k] = Untold]
      \/ /\ told' = [told EXCEPT ![k] = tick + RetryAfter * Second]
         /\ passes' = passes
  BY DEF Hit
<1>4. tick + RetryAfter * Second \in Nat
  BY <1>2, CurrentTyped DEF LimitInv
<1>5. p \in [client : Clients, at : 0..MaxTicks, nth : Nat]
  <2>1. IsFiniteSet({q \in passes : q.client = k /\ q.at \in tick..tick})
    BY FS_Subset DEF LimitInv, Limited
  <2>2. Passed(k, tick, tick) + 1 \in Nat
    BY <2>1, FS_CardinalityType DEF Passed
  <2> QED BY <2>2 DEF LimitInv, LimitTypeOK
<1> HIDE DEF count, p
<1>6. LimitTypeOK'
  <2>1. windows' \in [Clients -> [window : Nat, count : Nat]]
    BY <1>1, SweptCurrent, CurrentTyped DEF LimitInv
  <2>2. told' \in [Clients -> Nat \cup {Untold}]
    BY <1>3, <1>4 DEF LimitInv, LimitTypeOK
  <2>3. passes' \subseteq [client : Clients, at : 0..MaxTicks, nth : Nat]
    BY <1>3, <1>5 DEF LimitInv, LimitTypeOK
  <2> QED BY <1>1, <2>1, <2>2, <2>3 DEF LimitInv, LimitTypeOK
<1>7. \A j \in Clients : windows'[j].count > 0 => windows'[j].window = Current
  BY <1>1, SweptCurrent
<1>8. ASSUME NEW j \in Clients, told'[j] # Untold, windows'[j].count > 0
      PROVE  (windows'[j].window + 1) * Window <= told'[j]
  <2>1. CASE j = k
    BY <1>2, <1>3, <1>7, <1>8, <2>1 DEF LimitInv, LimitTypeOK
  <2>2. CASE j # k
    <3>1. told'[j] = told[j] /\ windows'[j] = Swept[j]
      BY <1>1, <1>3, <2>2, SweptCurrent DEF LimitInv, LimitTypeOK
    <3> QED BY <1>8, <3>1, SweptCurrent DEF LimitInv, Counted
  <2> QED BY <2>1, <2>2
<1>9. Counted'
  BY <1>1, <1>7, <1>8, CurrentTyped DEF LimitInv, Counted, OneWindowKept
<1> QED BY <1>6, <1>9, HitKeepsLimited DEF LimitInv

\* In a window that has just begun nothing was let through.
LEMMA TickKeepsLimited == ASSUME LimitInv, TickOn PROVE Limited'
<1>1. /\ tick' = tick + 1 /\ passes' = passes /\ windows' = windows
      /\ tick \in Nat
  BY CurrentTyped DEF TickOn, LimitInv
<1>2. Current \in Nat /\ Current' \in Nat /\ Current <= Current'
  <2>1. tick + 1 \in Nat
    BY <1>1
  <2> QED BY <1>1, <2>1, DivMonotone, DivBounds DEF Current
<1>3. /\ IsFiniteSet(passes')
      /\ \A p \in passes' : p.at <= tick'
      /\ \A k \in Clients, w \in Nat : Cardinality(InWindow(k, w)') <= Limit
  <2>1. \A k \in Clients, w \in Nat : InWindow(k, w)' = InWindow(k, w)
    BY <1>1 DEF InWindow
  <2>2. \A p \in passes : p.at \in Nat
    BY DEF LimitInv, LimitTypeOK
  <2> QED BY <1>1, <2>1, <2>2 DEF LimitInv, Limited
<1>4. ASSUME NEW k \in Clients
      PROVE  Cardinality(InWindow(k, Current)') <= Swept'[k].count
  <2>1. CASE Current' = Current
    <3>1. InWindow(k, Current)' = InWindow(k, Current) /\ Swept' = Swept
      BY <1>1, <2>1 DEF InWindow, Swept
    <3> QED BY <3>1 DEF LimitInv, Limited
  <2>2. CASE Current < Current'
    <3>1. ASSUME NEW p \in passes PROVE p.at \div Window # Current'
      <4>1. p.at \in Nat /\ p.at <= tick
        BY DEF LimitInv, LimitTypeOK, Limited
      <4>2. tick < (Current + 1) * Window
        BY <1>1, DivBounds DEF Current
      <4>3. p.at \div Window \in Nat /\ (p.at \div Window) * Window <= p.at
        BY <4>1, DivBounds
      <4>4. ASSUME p.at \div Window = Current' PROVE FALSE
        <5> DEFINE c == Current
                   d == Current'
        <5>1. c \in Nat /\ d \in Nat /\ c + 1 <= d
          BY <1>2, <2>2
        <5>2. d * Window <= p.at
          BY <4>3, <4>4
        <5>3. tick < (c + 1) * Window
          BY <4>2
        <5> HIDE DEF c, d
        <5>4. (c + 1) * Window <= d * Window
          BY <5>1
        <5>5. (c + 1) * Window \in Nat /\ d * Window \in Nat
          BY <5>1
        <5> QED BY <1>1, <4>1, <5>2, <5>3, <5>4, <5>5
      <4> QED BY <4>4
    <3>2. InWindow(k, Current)' = {}
      BY <1>1, <3>1 DEF InWindow
    <3>3. Swept'[k].count \in Nat
      BY <1>1, <1>2 DEF Swept, LimitInv, LimitTypeOK, Absent
    <3> QED BY <3>2, <3>3, FS_EmptySet
  <2> QED BY <1>2, <2>1, <2>2
<1> QED BY <1>3, <1>4 DEF Limited

LEMMA LimitNextInv == LimitInv /\ [LimitNext]_limitVars => LimitInv'
<1> SUFFICES ASSUME LimitInv, [LimitNext]_limitVars PROVE LimitInv'
  OBVIOUS
<1>1. CASE TickOn
  <2>1. Current <= Current' /\ Current \in Nat /\ Current' \in Nat
    <3>1. tick' = tick + 1
      BY <1>1 DEF TickOn
    <3>2. tick \in Nat /\ tick + 1 \in Nat
      BY CurrentTyped DEF LimitInv
    <3> QED BY <3>1, <3>2, DivMonotone, DivBounds DEF Current
  <2> HIDE DEF Current
  <2>2. LimitTypeOK' /\ Counted'
    BY <1>1, <2>1 DEF TickOn, LimitInv, LimitTypeOK, Counted, OneWindowKept
  <2> QED BY <1>1, <2>2, TickKeepsLimited DEF LimitInv
<1>2. CASE UNCHANGED limitVars
  <2>1. LimitTypeOK' /\ Counted'
    BY <1>2 DEF limitVars, LimitInv, LimitTypeOK, Counted, OneWindowKept, Current
  <2>2. Limited'
    BY <1>2 DEF limitVars, LimitInv, Limited, InWindow, Swept, Current
  <2> QED BY <2>1, <2>2 DEF LimitInv
<1> QED BY <1>1, <1>2, HitKeepsInv DEF LimitNext

LEMMA LimitInductive == LimitSpec => []LimitInv
  BY LimitInitInv, LimitNextInv, PTL DEF LimitSpec

\* A span of a window's length lies in two windows at most.
LEMMA SpanInTwoWindows ==
    ASSUME NEW s \in Nat, NEW a \in s..(s + Window - 1)
    PROVE  a \div Window \in {s \div Window, s \div Window + 1}
<1> DEFINE d == s \div Window
           e == a \div Window
<1>1. d \in Nat /\ d * Window <= s /\ s < (d + 1) * Window
  BY DivBounds
<1>2. a \in Nat
  OBVIOUS
<1>3. e \in Nat /\ e * Window <= a /\ a < (e + 1) * Window
  BY <1>2, DivBounds
<1> HIDE DEF d, e
<1>4. d <= e
  <2>1. d * Window < (e + 1) * Window
    <3>1. d * Window \in Nat /\ (e + 1) * Window \in Nat
      BY <1>1, <1>3
    <3> QED BY <1>1, <1>2, <1>3, <3>1
  <2> QED BY <1>1, <1>3, <2>1
<1>5. e < d + 2
  <2>1. (d + 1) * Window + Window = (d + 2) * Window
    BY <1>1
  <2>2. e * Window < (d + 2) * Window
    <3>1. (d + 1) * Window \in Nat /\ (d + 2) * Window \in Nat /\ e * Window \in Nat
      BY <1>1, <1>3
    <3> QED BY <1>1, <1>2, <1>3, <2>1, <3>1
  <2> QED BY <1>1, <1>3, <2>2
<1> QED BY <1>1, <1>3, <1>4, <1>5 DEF d, e

\* Whenever a span begins, no more than twice the limit is let through in it:
\* a window's edge doubles the limit and nothing more (rateLimit.mjs hit).
THEOREM TwiceTheLimit == LimitSpec => []AtMostTwiceTheLimit
<1>1. LimitInv => AtMostTwiceTheLimit
  <2> SUFFICES ASSUME LimitInv, NEW k \in Clients, NEW s \in 0..MaxTicks
               PROVE  Passed(k, s, s + Window - 1) <= 2 * Limit
    BY DEF AtMostTwiceTheLimit
  <2> DEFINE d == s \div Window
             span == {p \in passes : p.client = k /\ p.at \in s..(s + Window - 1)}
             first == InWindow(k, d)
             second == InWindow(k, d + 1)
  <2>1. d \in Nat /\ d + 1 \in Nat
    BY DivBounds
  <2>2. span \subseteq first \cup second
    <3> SUFFICES ASSUME NEW p \in span PROVE p \in first \cup second
      OBVIOUS
    <3>1. /\ p \in passes /\ p.client = k /\ p.at \in s..(s + Window - 1)
          /\ s \in Nat
      OBVIOUS
    <3>2. p.at \div Window = d \/ p.at \div Window = d + 1
      BY <3>1, SpanInTwoWindows
    <3> QED BY <3>1, <3>2 DEF InWindow
  <2>3. IsFiniteSet(first) /\ IsFiniteSet(second)
    BY FS_Subset DEF InWindow, LimitInv, Limited
  <2>4. Cardinality(first) <= Limit /\ Cardinality(second) <= Limit
    BY <2>1 DEF LimitInv, Limited
  <2> HIDE DEF first, second, span
  <2>5. /\ IsFiniteSet(first \cup second)
        /\ Cardinality(first \cup second)
             = Cardinality(first) + Cardinality(second) - Cardinality(first \cap second)
    BY <2>3, FS_Union
  <2>6. IsFiniteSet(first \cap second)
    BY <2>3, FS_Intersection
  <2>7. IsFiniteSet(span) /\ Cardinality(span) <= Cardinality(first \cup second)
    BY <2>2, <2>5, FS_Subset
  <2>8. /\ Cardinality(first) \in Nat /\ Cardinality(second) \in Nat
        /\ Cardinality(first \cap second) \in Nat /\ Cardinality(span) \in Nat
    BY <2>3, <2>6, <2>7, FS_CardinalityType
  <2>9. Cardinality(span) <= 2 * Limit
    BY <2>4, <2>5, <2>7, <2>8
  <2> QED BY <2>9 DEF Passed, span
<1> QED BY <1>1, LimitInductive, PTL

\* The map never holds clients of two windows, so the addresses clients call
\* from do not pile up in it (rateLimit.mjs sweep).
THEOREM MapBounded == LimitSpec => []OneWindowKept
  BY LimitInductive, PTL DEF LimitInv, Counted

\* Whoever waits as long as Retry-After says is let through, whatever the
\* window and however the seconds round (rateLimit.mjs hit).
THEOREM WaitHonest == LimitSpec => ToldWaitSuffices
<1> DEFINE InTime == \A k \in Clients :
              told'[k] # told[k] /\ told'[k] # Untold /\ told[k] # Untold
                  => tick < told[k]
<1>1. ASSUME LimitInv, NEW k \in Clients, Hit(k) PROVE InTime
  <2>1. ASSUME NEW j \in Clients, told'[j] # told[j], told'[j] # Untold, told[j] # Untold
        PROVE  tick < told[j]
    <3>1. j = k /\ ~WithinLimit(Swept[k].count + 1)
      BY <1>1, <2>1 DEF Hit, LimitInv, LimitTypeOK
    <3>2. Swept[k].count > 0
      BY <1>1, <3>1, SweptCurrent DEF WithinLimit
    <3>3. windows[k].window = Current /\ windows[k].count > 0
      BY <1>1, <3>2, SweptCurrent
    <3>4. (Current + 1) * Window <= told[k]
      BY <1>1, <2>1, <3>1, <3>3 DEF LimitInv, Counted
    <3>5. tick < (Current + 1) * Window /\ Current \in Nat /\ tick \in Nat
      BY <1>1, DivBounds, CurrentTyped DEF Current, LimitInv
    <3>6. told[k] \in Nat /\ (Current + 1) * Window \in Nat
      BY <1>1, <2>1, <3>1, <3>5 DEF LimitInv, LimitTypeOK
    <3> HIDE DEF Current
    <3> QED BY <3>1, <3>4, <3>5, <3>6
  <2> QED BY <2>1
<1>2. LimitInv /\ [LimitNext]_limitVars => [InTime]_limitVars
  BY <1>1 DEF LimitNext, TickOn, limitVars
<1> QED BY <1>2, LimitInductive, PTL DEF LimitSpec, ToldWaitSuffices

-----------------------------------------------------------------------------
(* The answers *)

USE AgentAssumption, ListsAssumption

\* What the wallet may allow: to each pair nothing, or a class of its kind.
Allowances ==
    {allowed \in [Pairs -> {None, "finite", "unlimited", "expiring", "unexpiring"}] :
        \A p \in Pairs : allowed[p] \in Classes(p) \cup {None}}

\* A report is of the wallet as it was when the report says.
Witnessed(report) ==
    /\ report.live \in Allowances
    /\ report.usable => report.at \in 0..now /\ report.live \in lived[report.at]

\* A state file dates from a run, not later than the last one.
Dated(state) ==
    state.ranAt # Never => /\ state.ranAt \in Nat /\ ranAt \in Nat
                           /\ state.ranAt <= ranAt

Files == [report : [usable : BOOLEAN, at : Nat \cup {Never}, live : Allowances],
          state  : [usable : BOOLEAN, ranAt : Nat \cup {Never}, alerted : SUBSET Pairs]]

AgentTypeOK ==
    /\ now \in 0..MaxNow
    /\ live \in Allowances
    /\ lived \in [0..MaxNow -> SUBSET Allowances]
    /\ live \in lived[now]
    /\ ranAt \in 0..now \cup {Never}
    /\ repo \in Files /\ bundle \in Files

AgentInv ==
    /\ AgentTypeOK
    /\ Witnessed(repo.report) /\ Witnessed(bundle.report)
    /\ Dated(repo.state) /\ Dated(bundle.state)
    /\ bundle.state.alerted \subseteq repo.state.alerted

LEMMA BlankTyped ==
    /\ [p \in Pairs |-> None] \in Allowances
    /\ NoReport \in [usable : BOOLEAN, at : Nat \cup {Never}, live : Allowances]
    /\ NoState \in [usable : BOOLEAN, ranAt : Nat \cup {Never}, alerted : SUBSET Pairs]
    /\ NoReport.usable = FALSE /\ NoState.ranAt = Never /\ NoState.alerted = {}
<1>1. [p \in Pairs |-> None] \in Allowances
  BY DEF Allowances
<1> QED BY <1>1 DEF NoReport, NoState

LEMMA AgentInitInv == AgentInit => AgentInv
<1> SUFFICES ASSUME AgentInit PROVE AgentInv
  OBVIOUS
<1>1. /\ now = 0 /\ live = [p \in Pairs |-> None] /\ ranAt = Never /\ bundle = repo
      /\ lived = [t \in 0..MaxNow |-> IF t = 0 THEN {live} ELSE {}]
      /\ repo \in [report : {NoReport}, state : {NoState, [NoState EXCEPT !.usable = TRUE]}]
  BY DEF AgentInit
<1>2. /\ repo \in Files /\ repo.report = NoReport
      /\ repo.state.ranAt = Never /\ repo.state.alerted = {}
  BY <1>1, BlankTyped DEF Files, NoState
<1>3. AgentTypeOK
  <2>1. live \in lived[now] /\ lived \in [0..MaxNow -> SUBSET Allowances]
    BY <1>1, BlankTyped
  <2> QED BY <1>1, <1>2, <2>1, BlankTyped DEF AgentTypeOK
<1>4. NoReport.live \in Allowances
  BY BlankTyped
<1> QED BY <1>1, <1>2, <1>3, <1>4, BlankTyped DEF AgentInv, Witnessed, Dated

\* What was lived stays so, and the clock and the runs only go on.
LEMMA PastStays ==
    ASSUME AgentInv, now' \in 0..MaxNow, now <= now',
           \A t \in 0..now : lived[t] \subseteq lived'[t],
           ranAt' = ranAt \/ (ranAt' \in Nat /\ ranAt' = now)
    PROVE  /\ \A report : Witnessed(report) => Witnessed(report)'
           /\ \A state : Dated(state) => Dated(state)'
<1>1. now \in Nat /\ now' \in Nat /\ ranAt \in 0..now \cup {Never}
  BY DEF AgentInv, AgentTypeOK
<1>2. 0..now \subseteq 0..now'
  BY <1>1
<1>3. ASSUME NEW report, Witnessed(report) PROVE Witnessed(report)'
  BY <1>2, <1>3 DEF Witnessed
<1>4. ASSUME NEW state, Dated(state) PROVE Dated(state)'
  BY <1>1, <1>4 DEF Dated, Never
<1> QED BY <1>3, <1>4

LEMMA TickKeepsInv == ASSUME AgentInv, Tick PROVE AgentInv'
<1>1. /\ now \in 0..MaxNow /\ now < MaxNow /\ now' = now + 1
      /\ lived' = [lived EXCEPT ![now + 1] = {live}]
      /\ UNCHANGED <<live, ranAt, repo, bundle>>
  BY DEF Tick, AgentInv, AgentTypeOK
<1>2. /\ now + 1 \in 0..MaxNow /\ now <= now + 1 /\ now + 1 \notin 0..now
      /\ 0..now \subseteq 0..(now + 1)
  BY <1>1
<1>3. AgentTypeOK'
  BY <1>1, <1>2 DEF AgentInv, AgentTypeOK
<1>4. \A t \in 0..now : lived[t] \subseteq lived'[t]
  BY <1>1, <1>2 DEF AgentInv, AgentTypeOK
<1> QED BY <1>1, <1>2, <1>3, <1>4, PastStays DEF AgentInv

LEMMA AllowKeepsInv ==
    ASSUME AgentInv, NEW p \in Pairs, NEW class \in Classes(p) \cup {None}, Allow(p, class)
    PROVE  AgentInv'
<1>1. /\ now \in 0..MaxNow
      /\ live' = [live EXCEPT ![p] = class]
      /\ lived' = [lived EXCEPT ![now] = @ \cup {live'}]
      /\ UNCHANGED <<now, ranAt, repo, bundle>>
  BY DEF Allow, AgentInv, AgentTypeOK
<1>2. live' \in Allowances
  BY <1>1 DEF Allowances, Classes, AgentInv, AgentTypeOK
<1>3. lived' \in [0..MaxNow -> SUBSET Allowances] /\ live' \in lived'[now]
  BY <1>1, <1>2 DEF AgentInv, AgentTypeOK
<1>4. AgentTypeOK'
  BY <1>1, <1>2, <1>3 DEF AgentInv, AgentTypeOK
<1>5. \A t \in 0..now : lived[t] \subseteq lived'[t]
  BY <1>1 DEF AgentInv, AgentTypeOK
<1>6. now <= now
  BY <1>1
<1> QED BY <1>1, <1>4, <1>5, <1>6, PastStays DEF AgentInv

LEMMA ScanKeepsInv ==
    ASSUME AgentInv, NEW t \in 0..now, NEW seen \in lived[t], ScanWritten(t, seen)
    PROVE  AgentInv'
<1> DEFINE report == [usable |-> TRUE, at |-> t, live |-> seen]
<1>1. /\ repo' = [repo EXCEPT !.report = report]
      /\ UNCHANGED <<now, live, lived, ranAt, bundle>>
  BY DEF ScanWritten
<1>2. seen \in Allowances /\ t \in Nat
  BY DEF AgentInv, AgentTypeOK
<1>3. repo'.report = report /\ repo'.state = repo.state /\ repo' \in Files
  BY <1>1, <1>2 DEF AgentInv, AgentTypeOK, Files
<1>4. Witnessed(report)
  BY <1>2 DEF Witnessed
<1>5. AgentTypeOK'
  BY <1>1, <1>3 DEF AgentInv, AgentTypeOK
<1> HIDE DEF report
<1> QED BY <1>1, <1>3, <1>4, <1>5 DEF AgentInv, Witnessed, Dated

LEMMA RunKeepsInv ==
    ASSUME AgentInv, NEW new \in SUBSET Pairs, SentinelRan(new) PROVE AgentInv'
<1> DEFINE state == [usable |-> TRUE, ranAt |-> now, alerted |-> repo.state.alerted \cup new]
<1>1. /\ repo' = [repo EXCEPT !.state = state] /\ ranAt' = now
      /\ UNCHANGED <<now, live, lived, bundle>>
  BY DEF SentinelRan, AgentInv, AgentTypeOK, Files
<1>2. now \in Nat /\ now <= now /\ now \in 0..MaxNow
  BY DEF AgentInv, AgentTypeOK
<1>3. /\ repo'.state = state /\ repo'.report = repo.report /\ repo' \in Files
      /\ repo.state.alerted \subseteq repo'.state.alerted
  BY <1>1, <1>2 DEF AgentInv, AgentTypeOK, Files
<1>5. AgentTypeOK'
  BY <1>1, <1>2, <1>3 DEF AgentInv, AgentTypeOK
<1>6. \A t \in 0..now : lived[t] \subseteq lived'[t]
  BY <1>1
<1>7. /\ \A report : Witnessed(report) => Witnessed(report)'
      /\ \A s : Dated(s) => Dated(s)'
  BY <1>1, <1>2, <1>6, PastStays
<1>8. Dated(repo.state)'
  BY <1>1, <1>2, <1>3 DEF Dated
<1>9. Witnessed(repo.report)' /\ Witnessed(bundle.report)' /\ Dated(bundle.state)'
  BY <1>1, <1>3, <1>7 DEF AgentInv, Witnessed, Dated
<1> HIDE DEF state
<1> QED BY <1>1, <1>3, <1>5, <1>8, <1>9 DEF AgentInv

LEMMA DeployKeepsInv == ASSUME AgentInv, Deploy PROVE AgentInv'
<1>1. /\ bundle' \in [report : {repo.report, NoReport}, state : {repo.state, NoState}]
      /\ UNCHANGED <<now, live, lived, ranAt, repo>>
  BY DEF Deploy
<1>2. /\ bundle'.report = repo.report \/ bundle'.report = NoReport
      /\ bundle'.state = repo.state \/ bundle'.state = NoState
      /\ bundle' \in Files
  BY <1>1, BlankTyped DEF AgentInv, AgentTypeOK, Files
<1>3. Witnessed(bundle'.report)
  <2>1. NoReport.live \in Allowances
    BY BlankTyped
  <2>2. Witnessed(NoReport)
    BY <2>1, BlankTyped DEF Witnessed
  <2> QED BY <1>2, <2>2 DEF AgentInv
<1>4. Dated(bundle'.state) /\ bundle'.state.alerted \subseteq repo.state.alerted
  <2>1. Dated(NoState) /\ NoState.alerted = {}
    BY BlankTyped DEF Dated
  <2> QED BY <1>2, <2>1 DEF AgentInv
<1>5. AgentTypeOK'
  BY <1>1, <1>2 DEF AgentInv, AgentTypeOK
<1> QED BY <1>1, <1>3, <1>4, <1>5 DEF AgentInv, Witnessed, Dated

LEMMA AgentInductive == AgentSpec => []AgentInv
<1>1. AgentInv /\ [AgentNext]_agentVars => AgentInv'
  <2> SUFFICES ASSUME AgentInv, [AgentNext]_agentVars PROVE AgentInv'
    OBVIOUS
  <2>1. CASE UNCHANGED agentVars
    BY <2>1 DEF agentVars, AgentInv, AgentTypeOK, Witnessed, Dated
  <2> QED BY <2>1, TickKeepsInv, AllowKeepsInv, ScanKeepsInv, RunKeepsInv, DeployKeepsInv
          DEF AgentNext
<1> QED BY <1>1, AgentInitInv, PTL DEF AgentSpec

\* A date that is not stale is not longer ago than the bound.
LEMMA NotStale ==
    ASSUME NEW at \in Nat \cup {Never}, NEW bound \in Nat, now \in Nat, ~Stale(at, bound)
    PROVE  at \in Nat /\ at + bound >= now
  BY DEF Stale, AtLeast0, Never

\* Of /sentinel and /drops, what is said beside the status.
LEMMA SentinelSays ==
    ASSUME SentinelAnswer.status = 200
    PROVE  /\ SentinelAnswer.overdue = Stale(bundle.state.ranAt, Expected)
           /\ SentinelAnswer.inherited = IF bundle.report.usable THEN {Inherited} ELSE {}
<1>1. bundle.state.usable
  BY DEF SentinelAnswer
<1> QED BY <1>1 DEF SentinelAnswer, SentinelReport

\* What is served as fresh is so, after any interleaving of changes, scans, runs
\* and deployments of old or broken files (freshness.mjs describeFreshness,
\* sentinelReport.mjs readSentinelReport, app.mjs computeAudit).
THEOREM AnswersHonest == AgentSpec => []AnswersAreRecent
<1>1. AgentInv => AnswersAreRecent
  <2> SUFFICES ASSUME AgentInv PROVE AnswersAreRecent
    OBVIOUS
  <2>1. /\ now \in Nat
        /\ bundle.report.at \in Nat \cup {Never} /\ bundle.state.ranAt \in Nat \cup {Never}
        /\ ranAt \in 0..now \cup {Never}
    BY DEF AgentInv, AgentTypeOK, Files
  <2>2. ASSUME bundle.report.usable, ~Stale(bundle.report.at, StaleAfter)
        PROVE  /\ bundle.report.at \in 0..now /\ bundle.report.at + StaleAfter >= now
               /\ bundle.report.live \in lived[bundle.report.at]
    BY <2>1, <2>2, NotStale DEF AgentInv, Witnessed
  <2>3. Exposure.status = 200 /\ ~Exposure.stale =>
          \E t \in 0..now : t + StaleAfter >= now /\ Exposure.live \in lived[t]
    BY <2>2 DEF Exposure
  <2>4. SentinelAnswer.status = 200 /\ ~SentinelAnswer.overdue =>
          ranAt # Never /\ ranAt + Expected >= now
    <3> SUFFICES ASSUME SentinelAnswer.status = 200, ~SentinelAnswer.overdue
                 PROVE  ranAt # Never /\ ranAt + Expected >= now
      OBVIOUS
    <3>1. bundle.state.ranAt \in Nat /\ bundle.state.ranAt + Expected >= now
      BY <2>1, SentinelSays, NotStale
    <3>2. ranAt \in Nat /\ bundle.state.ranAt <= ranAt
      BY <3>1 DEF AgentInv, Dated, Never
    <3> QED BY <2>1, <3>1, <3>2 DEF Never
  <2>5. SentinelAnswer.status = 200 =>
          \A unseen \in SentinelAnswer.inherited :
              Listed(bundle.report) \ unseen \subseteq repo.state.alerted
    BY SentinelSays DEF Inherited, AgentInv
  <2>6. \A block \in 0..now : Healthz(block).status = 200 => block + MaxLag >= now
    <3> SUFFICES ASSUME NEW block \in 0..now, Healthz(block).status = 200
                 PROVE  block + MaxLag >= now
      OBVIOUS
    <3>1. block # Never /\ ~(AtLeast0(now - block) > MaxLag)
      BY DEF Healthz, Failure, Never
    <3> QED BY <2>1, <3>1 DEF AtLeast0
  <2>7. \A list \in Lists :
         LET audit == ComputeAudit(list)
         IN  ~audit.stale /\ audit.score # Never =>
               \E t \in 0..now : \E seen \in lived[t] :
                   /\ t + StaleAfter >= now
                   /\ audit.score = HygieneScore(seen, ScanHoldings[list].flagged)
    <3> SUFFICES ASSUME NEW list \in Lists,
                        ~ComputeAudit(list).stale, ComputeAudit(list).score # Never
                 PROVE  \E t \in 0..now : \E seen \in lived[t] :
                          /\ t + StaleAfter >= now
                          /\ ComputeAudit(list).score
                               = HygieneScore(seen, ScanHoldings[list].flagged)
      OBVIOUS
    <3>1. /\ ComputeAudit(list).stale = Stale(bundle.report.at, StaleAfter)
          /\ ComputeAudit(list).score =
               IF bundle.report.usable
               THEN HygieneScore(bundle.report.live, ScanHoldings[list].flagged)
               ELSE Never
      BY DEF ComputeAudit
    <3> QED BY <2>2, <3>1
  <2> QED BY <2>3, <2>4, <2>5, <2>6, <2>7 DEF AnswersAreRecent
<1> QED BY <1>1, AgentInductive, PTL

\* The pairs that are allowed something of the classes.
Of(allowed, classes) == {p \in Pairs : allowed[p] \in classes}

LEMMA GrantedMonotone ==
    ASSUME NEW old, NEW new, NEW classes,
           Of(old, classes) \subseteq Of(new, classes)
    PROVE  /\ Cardinality(Of(old, classes)) \in Nat /\ Cardinality(Of(new, classes)) \in Nat
           /\ Cardinality(Of(old, classes)) <= Cardinality(Of(new, classes))
           /\ Cardinality(Of(old, classes)) = Cardinality(Of(new, classes))
                => Of(old, classes) = Of(new, classes)
<1>1. IsFiniteSet(Pairs)
  BY FS_Union DEF Pairs
<1>2. IsFiniteSet(Of(new, classes)) /\ IsFiniteSet(Of(old, classes))
  BY <1>1, FS_Subset DEF Of
<1> QED BY <1>2, FS_Subset, FS_CardinalityType

\* The granted pairs of two classes are the granted pairs of each.
LEMMA GrantedSum ==
    ASSUME NEW allowed, NEW c, NEW d, c # d
    PROVE  /\ Granted(allowed, c) \in Nat /\ Granted(allowed, d) \in Nat
           /\ Granted(allowed, c) = Cardinality(Of(allowed, {c}))
           /\ Cardinality(Of(allowed, {c, d})) = Granted(allowed, c) + Granted(allowed, d)
<1>1. IsFiniteSet(Pairs)
  BY FS_Union DEF Pairs
<1> DEFINE C == {p \in Pairs : allowed[p] = c}
           D == {p \in Pairs : allowed[p] = d}
<1>2. IsFiniteSet(C) /\ IsFiniteSet(D)
  BY <1>1, FS_Subset
<1>3. C \cap D = {} /\ Of(allowed, {c, d}) = C \cup D /\ Of(allowed, {c}) = C
  BY DEF Of
<1>4. Cardinality(C \cup D) = Cardinality(C) + Cardinality(D) - Cardinality(C \cap D)
  BY <1>2, FS_Union
<1>5. Cardinality(C \cap D) = 0 /\ Cardinality(C) \in Nat /\ Cardinality(D) \in Nat
  BY <1>2, <1>3, FS_EmptySet, FS_CardinalityType
<1>6. Cardinality(Of(allowed, {c, d})) = Cardinality(C) + Cardinality(D)
  <2> HIDE DEF C, D
  <2>1. Cardinality(C \cup D) = Cardinality(C) + Cardinality(D)
    BY <1>4, <1>5
  <2> QED BY <1>3, <2>1
<1> QED BY <1>3, <1>5, <1>6 DEF Granted

\* What the allowances cost together: every bare approval the finite price and
\* an unlimited one the difference, and likewise for Permit2.
Total(allowed) ==
    Cost(allowed, "unlimited") + Cost(allowed, "finite")
      + Cost(allowed, "expiring") + Cost(allowed, "unexpiring")

LEMMA TotalCounted ==
    ASSUME NEW allowed
    PROVE  /\ Total(allowed) \in Nat
           /\ Total(allowed) = 8 * Cardinality(Of(allowed, {"unlimited", "finite"}))
                                 + 17 * Cardinality(Of(allowed, {"unlimited"}))
                                 + 5 * Cardinality(Of(allowed, {"unexpiring", "expiring"}))
                                 + 3 * Cardinality(Of(allowed, {"unexpiring"}))
<1> DEFINE u == Granted(allowed, "unlimited")
           f == Granted(allowed, "finite")
           x == Granted(allowed, "unexpiring")
           e == Granted(allowed, "expiring")
<1>1. /\ u \in Nat /\ f \in Nat
      /\ Cardinality(Of(allowed, {"unlimited"})) = u
      /\ Cardinality(Of(allowed, {"unlimited", "finite"})) = u + f
  <2>1. "unlimited" # "finite"
    OBVIOUS
  <2> QED BY <2>1, GrantedSum
<1>2. /\ x \in Nat /\ e \in Nat
      /\ Cardinality(Of(allowed, {"unexpiring"})) = x
      /\ Cardinality(Of(allowed, {"unexpiring", "expiring"})) = x + e
  <2>1. "unexpiring" # "expiring"
    OBVIOUS
  <2> QED BY <2>1, GrantedSum
<1>3. Total(allowed) = u * 25 + f * 8 + e * 5 + x * 8
  BY DEF Total, Cost, Weight
<1> HIDE DEF u, f, x, e
<1> QED BY <1>1, <1>2, <1>3

\* Exposure that grows or worsens, for any number of pairs, costs more.
LEMMA WorseCostsMore ==
    ASSUME NEW old \in Allowances, NEW new \in Allowances,
           \A p \in Pairs : Worse(new[p], old[p]), new # old
    PROVE  Total(old) < Total(new)
<1> DEFINE A(allowed) == Of(allowed, {"unlimited", "finite"})
           B(allowed) == Of(allowed, {"unlimited"})
           C(allowed) == Of(allowed, {"unexpiring", "expiring"})
           D(allowed) == Of(allowed, {"unexpiring"})
<1>1. \A p \in Pairs : /\ new[p] \in Classes(p) \cup {None}
                       /\ old[p] \in Classes(p) \cup {None}
                       /\ Worse(new[p], old[p])
  BY DEF Allowances
<1>2. /\ A(old) \subseteq A(new) /\ B(old) \subseteq B(new)
      /\ C(old) \subseteq C(new) /\ D(old) \subseteq D(new)
  BY <1>1 DEF Of, Worse, None
<1>3. PICK p \in Pairs : new[p] # old[p]
  BY DEF Allowances
<1>4. A(old) # A(new) \/ B(old) # B(new) \/ C(old) # C(new) \/ D(old) # D(new)
  <2>1. CASE old[p] = None
    <3>1. new[p] \in {"unlimited", "finite", "unexpiring", "expiring"}
      BY <1>1, <1>3, <2>1 DEF Classes
    <3>2. p \notin A(old) /\ p \notin C(old)
      BY <2>1 DEF Of, None
    <3>3. p \in A(new) \/ p \in C(new)
      BY <3>1 DEF Of
    <3> QED BY <3>2, <3>3
  <2>2. CASE old[p] = "finite"
    <3>1. p \in B(new) /\ p \notin B(old)
      BY <1>1, <1>3, <2>2 DEF Of, Worse, None
    <3> QED BY <3>1
  <2>3. CASE old[p] = "expiring"
    <3>1. p \in D(new) /\ p \notin D(old)
      BY <1>1, <1>3, <2>3 DEF Of, Worse, None
    <3> QED BY <3>1
  <2>4. CASE old[p] \in {"unlimited", "unexpiring"}
    BY <1>1, <1>3, <2>4 DEF Worse, None
  <2> QED BY <1>1, <2>1, <2>2, <2>3, <2>4 DEF Classes
<1>5. /\ Cardinality(A(old)) \in Nat /\ Cardinality(A(new)) \in Nat
      /\ Cardinality(A(old)) <= Cardinality(A(new))
      /\ Cardinality(A(old)) = Cardinality(A(new)) => A(old) = A(new)
  BY <1>2, GrantedMonotone
<1>6. /\ Cardinality(B(old)) \in Nat /\ Cardinality(B(new)) \in Nat
      /\ Cardinality(B(old)) <= Cardinality(B(new))
      /\ Cardinality(B(old)) = Cardinality(B(new)) => B(old) = B(new)
  BY <1>2, GrantedMonotone
<1>7. /\ Cardinality(C(old)) \in Nat /\ Cardinality(C(new)) \in Nat
      /\ Cardinality(C(old)) <= Cardinality(C(new))
      /\ Cardinality(C(old)) = Cardinality(C(new)) => C(old) = C(new)
  BY <1>2, GrantedMonotone
<1>8. /\ Cardinality(D(old)) \in Nat /\ Cardinality(D(new)) \in Nat
      /\ Cardinality(D(old)) <= Cardinality(D(new))
      /\ Cardinality(D(old)) = Cardinality(D(new)) => D(old) = D(new)
  BY <1>2, GrantedMonotone
<1>9. /\ Total(old) = 8 * Cardinality(A(old)) + 17 * Cardinality(B(old))
                        + 5 * Cardinality(C(old)) + 3 * Cardinality(D(old))
      /\ Total(new) = 8 * Cardinality(A(new)) + 17 * Cardinality(B(new))
                        + 5 * Cardinality(C(new)) + 3 * Cardinality(D(new))
  BY TotalCounted
<1> DEFINE a0 == Cardinality(A(old))
           a1 == Cardinality(A(new))
           b0 == Cardinality(B(old))
           b1 == Cardinality(B(new))
           c0 == Cardinality(C(old))
           c1 == Cardinality(C(new))
           d0 == Cardinality(D(old))
           d1 == Cardinality(D(new))
<1>10. a0 # a1 \/ b0 # b1 \/ c0 # c1 \/ d0 # d1
  BY <1>4, <1>5, <1>6, <1>7, <1>8
<1>11. /\ a0 \in Nat /\ a1 \in Nat /\ a0 <= a1 /\ b0 \in Nat /\ b1 \in Nat /\ b0 <= b1
       /\ c0 \in Nat /\ c1 \in Nat /\ c0 <= c1 /\ d0 \in Nat /\ d1 \in Nat /\ d0 <= d1
  BY <1>5, <1>6, <1>7, <1>8
<1>12. /\ Total(old) = 8 * a0 + 17 * b0 + 5 * c0 + 3 * d0
       /\ Total(new) = 8 * a1 + 17 * b1 + 5 * c1 + 3 * d1
  BY <1>9
<1> HIDE DEF a0, a1, b0, b1, c0, c1, d0, d1
<1> QED BY <1>10, <1>11, <1>12

LEMMA ScoreIs ==
    ASSUME NEW allowed, NEW flagged
    PROVE  HygieneScore(allowed, flagged)
             = AtLeast0(100 - Total(allowed) - AirdropPenalty(flagged))
  BY DEF HygieneScore, Total

\* The score falls when exposure worsens, and airdrops cost at most 10 points,
\* for any number of pairs and of holdings (hygieneScore.mjs computeHygieneScore).
THEOREM ScoreHonest == AgentSpec => []ScoreTracksExposure
<1>1. AgentInv => ScoreTracksExposure
  <2> SUFFICES ASSUME AgentInv, NEW list \in Lists
               PROVE  LET old == HygieneScore(bundle.report.live, ScanHoldings[list].flagged)
                          new == HygieneScore(live, ScanHoldings[list].flagged)
                      IN  /\ old + 10 >= HygieneScore(bundle.report.live, 0)
                          /\ (\A p \in Pairs : Worse(live[p], bundle.report.live[p])) =>
                                \/ live = bundle.report.live
                                \/ new < old \/ new = 0
    BY DEF ScoreTracksExposure
  <2> DEFINE flagged == ScanHoldings[list].flagged
             before == bundle.report.live
  <2>1. flagged \in Nat
    <3>1. flagged = Flagged(list)
      BY DEF ScanHoldings
    <3>2. IsFiniteSet(1..Len(list))
      BY FS_Interval
    <3>3. IsFiniteSet({i \in DOMAIN list : Suspicious(list[i])})
      BY <3>2, FS_Subset
    <3> QED BY <3>1, <3>3, FS_CardinalityType DEF Flagged
  <2>2. before \in Allowances /\ live \in Allowances
    BY DEF AgentInv, AgentTypeOK, Files
  <2> HIDE DEF flagged, before
  <2>3. AirdropPenalty(flagged) \in 0..10 /\ AirdropPenalty(0) = 0
    BY <2>1 DEF AirdropPenalty
  <2>4. Total(before) \in Nat /\ Total(live) \in Nat
    BY TotalCounted
  <2>5. /\ HygieneScore(before, flagged) = AtLeast0(100 - Total(before) - AirdropPenalty(flagged))
        /\ HygieneScore(live, flagged) = AtLeast0(100 - Total(live) - AirdropPenalty(flagged))
        /\ HygieneScore(before, 0) = AtLeast0(100 - Total(before) - AirdropPenalty(0))
    BY ScoreIs
  <2>6. HygieneScore(before, flagged) + 10 >= HygieneScore(before, 0)
    <3>1. AtLeast0(100 - Total(before) - AirdropPenalty(flagged)) + 10
             >= AtLeast0(100 - Total(before) - 0)
      BY <2>3, <2>4, ScoreFalls
    <3> QED BY <2>3, <2>5, <3>1, Zenon
  <2>7. ASSUME \A p \in Pairs : Worse(live[p], before[p]), live # before
        PROVE  \/ HygieneScore(live, flagged) < HygieneScore(before, flagged)
               \/ HygieneScore(live, flagged) = 0
    <3>1. Total(before) < Total(live)
      BY <2>2, <2>7, WorseCostsMore
    <3> DEFINE a == AirdropPenalty(flagged)
    <3>2. \/ AtLeast0(100 - Total(live) - a) < AtLeast0(100 - Total(before) - a)
          \/ AtLeast0(100 - Total(live) - a) = 0
      BY <2>3, <2>4, <3>1, ScoreFalls
    <3> QED BY <2>5, <3>2, Zenon
  <2> QED BY <2>6, <2>7 DEF flagged, before
<1> QED BY <1>1, AgentInductive, PTL

-----------------------------------------------------------------------------
(* What is said of the holdings *)

\* A token that goes by a known ticker alone is flagged, unless it is the one.
LEMMA CopyFlagged ==
    ASSUME NEW ticker \in DOMAIN Known, NEW held,
           Lowered(held.symbol) = << ticker >>, held.address # Known[ticker]
    PROVE  Suspicious(held)
<1>1. ticker \in Latin \cup Initials
  BY DEF Latin
<1>2. RunTogether(<< ticker >>, Latin \cup Initials) = Spelt("", ticker, Latin \cup Initials)
  <2>1. DOMAIN << ticker >> = 1..1 /\ << ticker >>[1] = ticker
    OBVIOUS
  <2>2. 1 \in 0..2 /\ 1 >= 1 /\ 1 # 2
    OBVIOUS
  <2> QED BY <2>1, <2>2, TwoRunTogether
<1>3. RunTogether(<< ticker >>, Latin \cup Initials) = ticker
  BY <1>1, <1>2, WordsAssumption DEF Spelt
<1>4. ticker \in Impersonated(Known, held)
  BY <1>3 DEF Impersonated, Canonical
<1>5. TickerId(ticker) \in ClassifyToken(Known, held)
  BY <1>4 DEF ClassifyToken
<1> QED BY <1>5 DEF Suspicious

\* MapThenSumSet adds up what an element counts and the sum of the others.
Picked(S) == [s \in SUBSET S |-> CHOOSE x \in s : TRUE]
SumsUp(g, count, S) ==
    \A s \in SUBSET S :
        g[s] = IF s = {} THEN 0 ELSE count[Picked(S)[s]] + g[s \ {Picked(S)[s]}]

\* SumOf takes one element after another.
LEMMA SumSteps ==
    ASSUME NEW S, IsFiniteSet(S), NEW count \in [S -> Nat]
    PROVE  /\ Picks(Picked(S), S)
           /\ \E g \in [SUBSET S -> Nat] : SumsUp(g, count, S) /\ SumOf(count) = g[S]
<1> DEFINE any(s) == CHOOSE x \in s : TRUE
           Folds(g) == g = [s \in SUBSET S |->
                     IF s = {} THEN 0 ELSE count[any(s)] + g[s \ {any(s)}]]
           iter == CHOOSE g : Folds(g)
           step == [x \in Nat \X S |-> count[x[2]] + x[1]]
<1>1. SumOf(count) = iter[S]
  <2>1. DOMAIN count = S
    OBVIOUS
  <2> QED BY <2>1 DEF SumOf, MapThenSumSet, MapThenFoldSet
<1>2. \A s \in SUBSET S : s # {} => any(s) \in s
  OBVIOUS
<1> HIDE DEF any
<1>3. Picks(Picked(S), S) /\ \A s \in SUBSET S : Picked(S)[s] = any(s)
  BY <1>2 DEF Picks, Picked, any
<1>4. \A t \in Nat, x \in S : step[<<t, x>>] = count[x] + t /\ step[<<t, x>>] \in Nat
  OBVIOUS
<1> HIDE DEF step
<1>5. StaysIn(Nat, S, step)
  BY <1>4 DEF StaysIn
<1>6. PICK g \in [SUBSET S -> Nat] : IsFold(g, S, 0, step, Picked(S))
  BY <1>3, <1>5, FoldExists
<1>7. \A s \in SUBSET S : g[s] = IF s = {} THEN 0 ELSE count[any(s)] + g[s \ {any(s)}]
  <2> TAKE s \in SUBSET S
  <2>1. CASE s = {}
    BY <1>6, <2>1 DEF IsFold
  <2>2. CASE s # {}
    <3>1. any(s) \in S /\ s \ {any(s)} \in SUBSET S /\ Picked(S)[s] = any(s)
      BY <1>2, <1>3, <2>2
    <3>2. g[s \ {any(s)}] \in Nat
      BY <3>1
    <3>3. g[s] = step[<<g[s \ {any(s)}], any(s)>>]
      BY <1>6, <2>2, <3>1 DEF IsFold
    <3> QED BY <1>4, <2>2, <3>1, <3>2, <3>3
  <2> QED BY <2>1, <2>2
<1>8. Folds(iter)
  <2>1. Folds(g)
    BY <1>7
  <2> QED BY <2>1
<1>9. iter[S] = g[S]
  <2> HIDE DEF iter
  <2>1. InStep(iter, g, S, Picked(S))
    <3>1. \A s \in SUBSET S : iter[s] = IF s = {} THEN 0 ELSE count[any(s)] + iter[s \ {any(s)}]
      BY <1>8
    <3>2. \A s \in SUBSET S :
             s # {} /\ iter[s \ {any(s)}] = g[s \ {any(s)}] => iter[s] = g[s]
      BY <1>7, <3>1, Zenon
    <3>3. iter[{}] = g[{}]
      BY <1>7, <3>1, Zenon
    <3> QED BY <1>3, <3>2, <3>3 DEF InStep
  <2> HIDE DEF Folds
  <2> QED BY <1>3, <2>1, FoldsAgree
<1> HIDE DEF iter, Folds
<1>10. SumsUp(g, count, S)
  BY <1>3, <1>7 DEF SumsUp
<1> QED BY <1>1, <1>3, <1>9, <1>10

\* Where each element is counted once, the sum is how many there are; where it
\* may be counted more than once, it is no less.
Counts(count, of, I, S) ==
    /\ IsFiniteSet(S) /\ IsFiniteSet(I)
    /\ of \in [I -> SUBSET S] /\ \A i \in I : of[i] # {}
    /\ count \in [S -> Nat] /\ \A x \in S : count[x] = Cardinality({i \in I : x \in of[i]})

\* SumOf is at least the number of those that are counted.
LEMMA SumCounts ==
    ASSUME NEW count, NEW of, NEW I, NEW S, Counts(count, of, I, S)
    PROVE  /\ SumOf(count) \in Nat /\ Cardinality(I) \in Nat
           /\ Cardinality(I) <= SumOf(count)
           /\ (\A i \in I : \A x, y \in of[i] : x = y) => SumOf(count) = Cardinality(I)
<1> DEFINE Met(s) == {i \in I : of[i] \cap s # {}}
           Single == \A i \in I : \A x, y \in of[i] : x = y
           At(x) == {i \in I : x \in of[i]}
<1> /\ IsFiniteSet(S) /\ IsFiniteSet(I)
    /\ of \in [I -> SUBSET S] /\ \A i \in I : of[i] # {}
    /\ count \in [S -> Nat] /\ \A x \in S : count[x] = Cardinality({i \in I : x \in of[i]})
  BY DEF Counts
<1>1. PICK g \in [SUBSET S -> Nat] : SumsUp(g, count, S) /\ SumOf(count) = g[S]
  BY SumSteps
<1>2. Picks(Picked(S), S)
  BY SumSteps
<1>3. \A s : IsFiniteSet(Met(s)) /\ Cardinality(Met(s)) \in Nat
  BY FS_Subset, FS_CardinalityType
<1>4. \A x : IsFiniteSet(At(x)) /\ Cardinality(At(x)) \in Nat
  BY FS_Subset, FS_CardinalityType
<1> DEFINE P == {s \in SUBSET S : /\ Cardinality(Met(s)) <= g[s]
                                  /\ Single => g[s] = Cardinality(Met(s))}
<1>5. {} \in P
  <2>1. Met({}) = {} /\ Cardinality({}) = 0
    BY FS_EmptySet
  <2>2. g[{}] = 0
    BY <1>1 DEF SumsUp
  <2>3. Cardinality(Met({})) = 0
    BY <2>1
  <2> HIDE DEF Met, Single
  <2> QED BY <2>2, <2>3
<1>6. ASSUME NEW s \in SUBSET S, s # {} PROVE \E x \in s : s \ {x} \in P => s \in P
  <2> DEFINE x == Picked(S)[s]
             rest == s \ {x}
  <2>1. x \in s /\ x \in S /\ rest \in SUBSET S
    BY <1>2, <1>6 DEF Picks
  <2>2. g[s] = count[x] + g[rest]
    BY <1>1, <1>6 DEF SumsUp
  <2>3. count[x] = Cardinality(At(x))
    BY <2>1
  <2> HIDE DEF x
  <2>4. Met(s) = At(x) \cup Met(rest)
    BY <2>1
  <2>5. Single => At(x) \cap Met(rest) = {}
    OBVIOUS
  <2> HIDE DEF Met, At, Single, rest
  <2>6. Cardinality(Met(s)) = Cardinality(At(x)) + Cardinality(Met(rest))
                                - Cardinality(At(x) \cap Met(rest))
    BY <1>3, <1>4, <2>4, FS_Union
  <2>7. Cardinality(At(x) \cap Met(rest)) \in Nat
    BY <1>3, FS_Intersection, FS_CardinalityType
  <2>8. Single => Cardinality(At(x) \cap Met(rest)) = 0
    BY <2>5, FS_EmptySet
  <2>9. ASSUME rest \in P PROVE s \in P
    <3>1. g[rest] \in Nat /\ g[s] \in Nat
      BY <2>1
    <3> QED BY <1>3, <1>4, <2>2, <2>3, <2>6, <2>7, <2>8, <2>9, <3>1
  <2> QED BY <2>1, <2>9 DEF rest
<1>7. Met(S) = I
  OBVIOUS
<1> HIDE DEF P
<1>8. \A s \in SUBSET S : s \in P
  BY <1>5, <1>6, SetInduction
<1>9. S \in P
  BY <1>8
<1> HIDE DEF Met, Single
<1>10. g[S] \in Nat /\ Cardinality(I) \in Nat /\ Cardinality(I) <= g[S]
       /\ (Single => g[S] = Cardinality(I))
  BY <1>3, <1>7, <1>9 DEF P
<1> QED BY <1>1, <1>10 DEF Single

\* The groups of findSymbolCollisions after each round of its loop.
SymbolAt(list, i) == Lowered(list[i].symbol)
Gatherings(list) == [Claimed(list) -> Seq({list[i] : i \in 1..Len(list)})]
Runs(p, list) ==
    /\ p \in [0..Len(list) -> Gatherings(list)]
    /\ p[0] = [symbol \in Claimed(list) |-> << >>]
    /\ \A m \in 1..Len(list) : p[m] = Grouped(p[m - 1], list[m])
    /\ Groups(list) = p[Len(list)]

\* findSymbolCollisions groups the holdings from the first to the last.
LEMMA GroupSteps ==
    ASSUME NEW list \in Lists
    PROVE  \E p : Runs(p, list)
<1> DEFINE n == Len(list)
           T == Gatherings(list)
           first == [symbol \in Claimed(list) |-> << >>]
           Folds(g) == g = [s \in SUBSET (1..n) |->
                     IF s = {} THEN first ELSE Grouped(g[s \ {Max(s)}], list[Max(s)])]
           iter == CHOOSE g : Folds(g)
           step == [x \in T \X (1..n) |-> Grouped(x[1], list[x[2]])]
<1>1. n \in Nat /\ DOMAIN list = 1..n
  BY ListsAssumption
<1>2. Groups(list) = iter[1..n]
  BY <1>1 DEF Groups, FoldLeft, MapThenFoldSet
<1>3. first \in T
  BY DEF Gatherings
<1>4. ASSUME NEW groups \in T, NEW m \in 1..n PROVE Grouped(groups, list[m]) \in T
  <2> DEFINE symbol == SymbolAt(list, m)
             E == {list[i] : i \in 1..n}
  <2>1. symbol \in Claimed(list)
    BY <1>1 DEF Claimed, SymbolAt
  <2>2. list[m] \in E /\ groups \in [Claimed(list) -> Seq(E)]
    BY DEF Gatherings
  <2>3. Grouped(groups, list[m]) \in {groups, [groups EXCEPT ![symbol] = Append(@, list[m])]}
    BY DEF Grouped, SymbolAt
  <2> HIDE DEF E, symbol
  <2>4. Append(groups[symbol], list[m]) \in Seq(E)
    BY <2>1, <2>2
  <2>5. [groups EXCEPT ![symbol] = Append(@, list[m])] \in [Claimed(list) -> Seq(E)]
    BY <2>1, <2>2, <2>4
  <2> QED BY <2>2, <2>3, <2>5 DEF Gatherings, E
<1> HIDE DEF n, T, first
<1>5. \A t \in T, m \in 1..n : step[<<t, m>>] = Grouped(t, list[m]) /\ step[<<t, m>>] \in T
  BY <1>4
<1> HIDE DEF step
<1>6. StaysIn(T, 1..n, step)
  BY <1>5 DEF StaysIn
<1>7. PICK g \in [SUBSET (1..n) -> T] :
         IsFold(g, 1..n, first, step, LastIn(n)) /\ LeadsTo(n, T, first, step, g[1..n])
  BY <1>1, <1>3, <1>6, FoldLeftExists
<1>8. \A s \in SUBSET (1..n) :
         g[s] = IF s = {} THEN first ELSE Grouped(g[s \ {Max(s)}], list[Max(s)])
  <2> TAKE s \in SUBSET (1..n)
  <2>1. CASE s = {}
    BY <1>7, <2>1 DEF IsFold
  <2>2. CASE s # {}
    <3>1. Max(s) \in 1..n /\ s \ {Max(s)} \in SUBSET (1..n) /\ LastIn(n)[s] = Max(s)
      BY <1>1, <2>2, LastOf DEF LastIn
    <3>2. g[s \ {Max(s)}] \in T
      BY <3>1
    <3>3. g[s] = step[<<g[s \ {Max(s)}], Max(s)>>]
      BY <1>7, <2>2, <3>1 DEF IsFold
    <3> QED BY <1>5, <2>2, <3>1, <3>2, <3>3
  <2> QED BY <2>1, <2>2
<1>9. Folds(iter)
  <2>1. Folds(g)
    BY <1>8
  <2> QED BY <2>1
<1>10. iter[1..n] = g[1..n]
  <2> HIDE DEF iter
  <2>1. InStep(iter, g, 1..n, LastIn(n))
    BY <1>8, <1>9 DEF LastIn, InStep
  <2>2. IsFiniteSet(1..n) /\ Picks(LastIn(n), 1..n)
    BY <1>1, <1>3, <1>6, FoldLeftExists
  <2> HIDE DEF Folds
  <2> QED BY <2>1, <2>2, FoldsAgree
<1> HIDE DEF iter, Folds
<1>11. PICK p \in [0..n -> T] : Steps(p, n, first, step) /\ g[1..n] = p[n]
  BY <1>7 DEF LeadsTo
<1>12. p[0] = first /\ \A m \in 1..n : p[m] = Grouped(p[m - 1], list[m])
  <2>1. \A m \in 1..n : m - 1 \in 0..n
    BY <1>1
  <2> QED BY <1>5, <1>11, <2>1 DEF Steps
<1> QED BY <1>2, <1>10, <1>11, <1>12 DEF Runs, n, T, first

\* A group lists, once each, the contracts that claim its symbol.
Claims(list, s, m) == {j \in 1..m : SymbolAt(list, j) = s}
Gathered(seq, list, s, claims) ==
    /\ \A i \in 1..Len(seq) : Lowered(seq[i].symbol) = s
    /\ \A i, j \in 1..Len(seq) : seq[i].address = seq[j].address => i = j
    /\ {seq[i].address : i \in 1..Len(seq)}
         = {list[k].address : k \in claims}

\* At the end every contract of a symbol is in its group, once.
LEMMA GroupsGather ==
    ASSUME NEW list \in Lists, NEW s \in Claimed(list) \ Meaningless
    PROVE  /\ Groups(list)[s] \in Seq({list[i] : i \in 1..Len(list)})
           /\ Gathered(Groups(list)[s], list, s, Claims(list, s, Len(list)))
<1> DEFINE n == Len(list)
           E == {list[i] : i \in 1..n}
<1>1. n \in Nat /\ DOMAIN list = 1..n
  BY ListsAssumption
<1> HIDE DEF n
<1>2. PICK p : Runs(p, list)
  BY GroupSteps
<1>3. p \in [0..n -> [Claimed(list) -> Seq(E)]] /\ Groups(list) = p[n]
  BY <1>2 DEF Runs, Gatherings, n
<1>4. \A m \in 0..n : p[m][s] \in Seq(E) /\ p[m] \in [Claimed(list) -> Seq(E)]
  BY <1>3
<1>5. p[0][s] = << >>
  BY <1>2 DEF Runs
<1> HIDE DEF E
<1> DEFINE P == {m \in 0..n : Gathered(p[m][s], list, s, Claims(list, s, m))}
<1>6. 0 \in P
  <2>1. Gathered(<< >>, list, s, Claims(list, s, 0))
    BY DEF Gathered, Claims
  <2> QED BY <1>1, <1>5, <2>1
<1>7. ASSUME NEW m \in 1..n, m - 1 \in P PROVE m \in P
  <2> DEFINE old == p[m - 1][s]
             held == list[m]
             symbol == Lowered(held.symbol)
             Before == Claims(list, s, m - 1)
             Upto == Claims(list, s, m)
  <2>1. m - 1 \in 0..n /\ m \in 0..n
    BY <1>1
  <2>2. p[m] = Grouped(p[m - 1], held)
    BY <1>2 DEF Runs, n
  <2>3. Gathered(old, list, s, Before) /\ old \in Seq(E)
    BY <1>4, <1>7, <2>1
  <2>4. held \in E
    BY DEF E, n
  <2>5. symbol # s => Upto = Before
    BY <1>1 DEF SymbolAt, Claims
  <2>6. symbol = s => Upto = Before \cup {m}
    BY <1>1 DEF SymbolAt, Claims
  <2>7. p[m - 1] \in [Claimed(list) -> Seq(E)] /\ s \in Claimed(list) /\ s \notin Meaningless
    BY <1>4, <2>1
  <2>8. symbol \in Claimed(list)
    BY <1>1 DEF Claimed, SymbolAt
  <2> HIDE DEF Before, Upto, symbol, held, P
  <2>9. Gathered(p[m][s], list, s, Upto)
    <3>1. CASE symbol # s
      <4>1. p[m][s] = old
        BY <2>2, <2>7, <2>8, <3>1 DEF Grouped, symbol
      <4>2. Upto = Before
        BY <2>5, <3>1
      <4> HIDE DEF old
      <4> QED BY <2>3, <4>1, <4>2
    <3>2. CASE symbol = s /\ \E i \in DOMAIN old : old[i].address = held.address
      <4>1. p[m][s] = old
        BY <2>2, <2>7, <3>2 DEF Grouped, symbol
      <4>2. held.address \in {old[i].address : i \in 1..Len(old)}
        BY <2>3, <3>2, LenProperties
      <4>3. {list[k].address : k \in Upto}
              = {list[k].address : k \in Before} \cup {held.address}
        BY <2>6, <3>2 DEF held
      <4>4. {old[i].address : i \in 1..Len(old)} = {list[k].address : k \in Upto}
        BY <2>3, <4>2, <4>3 DEF Gathered
      <4> HIDE DEF old
      <4>5. Gathered(old, list, s, Upto)
        BY <2>3, <4>4 DEF Gathered
      <4> QED BY <4>1, <4>5
    <3>3. CASE symbol = s /\ ~ \E i \in DOMAIN old : old[i].address = held.address
      <4> DEFINE new == Append(old, held)
                 len == Len(old)
      <4>1. p[m][s] = new
        BY <2>2, <2>7, <3>3 DEF Grouped, symbol
      <4>2. len \in Nat /\ DOMAIN old = 1..len
        BY <2>3, LenProperties
      <4>3. /\ Len(new) = len + 1 /\ new[len + 1] = held
            /\ \A i \in 1..len : new[i] = old[i]
        BY <2>3, <2>4, <4>2, AppendProperties
      <4>4. \A i \in 1..(len + 1) : i \in 1..len \/ i = len + 1
        BY <4>2
      <4>5. \A i \in 1..len : i \in 1..(len + 1) /\ i # len + 1
        BY <4>2
      <4> HIDE DEF new, len
      <4>6. ASSUME NEW i \in 1..Len(new)
            PROVE  Lowered(new[i].symbol) = s
        BY <2>3, <3>3, <4>3, <4>4 DEF Gathered, symbol, len
      <4>7. ASSUME NEW i \in 1..Len(new), NEW j \in 1..Len(new), new[i].address = new[j].address
            PROVE  i = j
        BY <2>3, <3>3, <4>2, <4>3, <4>4, <4>7 DEF Gathered, len
      <4>8. {new[i].address : i \in 1..Len(new)}
              = {old[i].address : i \in 1..len} \cup {held.address}
        BY <4>2, <4>3, <4>4, <4>5
      <4>9. {list[k].address : k \in Upto}
              = {list[k].address : k \in Before} \cup {held.address}
        BY <2>6, <3>3 DEF held
      <4>10. {old[i].address : i \in 1..len} = {list[k].address : k \in Before}
        BY <2>3 DEF Gathered, len
      <4>11. {new[i].address : i \in 1..Len(new)} = {list[k].address : k \in Upto}
        BY <4>8, <4>9, <4>10
      <4>12. Gathered(new, list, s, Upto)
        BY <4>6, <4>7, <4>11 DEF Gathered
      <4> QED BY <4>1, <4>12
    <3> QED BY <3>1, <3>2, <3>3
  <2> QED BY <2>1, <2>9 DEF P, Upto
<1> HIDE DEF P
<1>8. \A m \in 0..n : m \in P
  BY <1>1, <1>6, <1>7, InductionUpTo
<1>9. n \in P /\ n \in 0..n
  BY <1>1, <1>8
<1> QED BY <1>3, <1>4, <1>9 DEF P, E, n

\* A token is flagged for finitely many reasons.
LEMMA ReasonsFinite ==
    ASSUME NEW held
    PROVE  IsFiniteSet(ClassifyToken(Known, held))
<1> DEFINE copied == Impersonated(Known, held)
           ids == {TickerId(ticker) : ticker \in copied}
<1>1. \A x, y \in ids : x = y
  BY DEF Impersonated
<1>2. IsFiniteSet(ids)
  BY <1>1, AtMostOne
<1>3. IsFiniteSet(TextRuleIds)
  <2> DEFINE id == << "name_or_symbol_contains_url", "name_or_symbol_contains_bare_domain",
     "urgency_language", "reward_language", "quotes_a_cash_amount", "qr_code_lure",
     "pressure_language", "non_latin_homoglyph", "impersonates_a_state_reserve",
     "impersonates_an_ai_brand" >>
  <2>1. TextRuleIds = {id[i] : i \in 1..10}
    <3>1. \A i : i \in 1..10 <=> i \in {1, 2, 3, 4, 5, 6, 7, 8, 9, 10}
      OBVIOUS
    <3> QED BY <3>1 DEF TextRuleIds
  <2> HIDE DEF id
  <2>2. IsFiniteSet(1..10)
    <3>1. 1 \in Int /\ 10 \in Int
      OBVIOUS
    <3> QED BY <3>1, FS_Interval
  <2> QED BY <2>1, <2>2, ImageFinite
<1>4. ClassifyToken(Known, held) \subseteq TextRuleIds \cup ids
  BY DEF ClassifyToken, TextRuleIds
<1>5. IsFiniteSet(TextRuleIds \cup ids)
  BY <1>2, <1>3, FS_Union
<1> QED BY <1>4, <1>5, FS_Subset

\* A symbol is told with the number of the contracts that claim it.
LEMMA CollisionTold ==
    ASSUME NEW list \in Lists, NEW s \in Claimed(list) \ Meaningless
    PROVE  LET claims == {list[i].address : i \in
                            {j \in DOMAIN list : Lowered(list[j].symbol) = s}}
               shown   == {c \in SymbolCollisions(list) : c.symbol = s}
           IN  /\ {c.contracts : c \in shown}
                    = IF Cardinality(claims) > 1 THEN {Cardinality(claims)} ELSE {}
               /\ \A c \in shown : s \in {<< t >> : t \in DOMAIN Known}
                                    => c.contracts - c.flagged <= 1
<1> DEFINE n == Len(list)
           group == Groups(list)[s]
           k == Len(group)
           E == {list[i] : i \in 1..n}
           claims == {list[i].address : i \in {j \in DOMAIN list : Lowered(list[j].symbol) = s}}
           shown   == {c \in SymbolCollisions(list) : c.symbol = s}
           naming == [symbol |-> s, contracts |-> k, flagged |-> Flagged(group)]
<1>1. n \in Nat /\ DOMAIN list = 1..n
  BY ListsAssumption
<1>2. group \in Seq(E) /\ Gathered(group, list, s, Claims(list, s, n))
  BY GroupsGather
<1>3. claims = {group[i].address : i \in 1..k}
  BY <1>1, <1>2 DEF Gathered, Claims, SymbolAt
<1>4. shown = IF k > 1 THEN {naming} ELSE {}
  BY DEF SymbolCollisions
<1>5. k \in Nat /\ DOMAIN group = 1..k
  BY <1>2, LenProperties
<1> HIDE DEF n, group, k, E, claims, shown
<1>6. Cardinality(claims) = k
  <2> DEFINE f == [i \in 1..k |-> group[i].address]
  <2>1. \A i, j \in 1..k : group[i].address = group[j].address => i = j
    BY <1>2 DEF Gathered, k
  <2>2. f \in Surjection(1..k, claims)
    BY <1>3 DEF Surjection
  <2>3. f \in Injection(1..k, claims)
    BY <1>3, <2>1 DEF Injection, IsInjective
  <2>4. f \in Bijection(1..k, claims)
    BY <2>2, <2>3 DEF Bijection
  <2>5. ExistsBijection(1..k, claims)
    BY <2>4 DEF ExistsBijection
  <2> HIDE DEF f
  <2> QED BY <1>5, <2>5, FS_CountingElements
<1>7. ASSUME NEW ticker \in DOMAIN Known, s = << ticker >> PROVE k - Flagged(group) <= 1
  <2> DEFINE bad == {i \in 1..k : Suspicious(group[i])}
             good == {i \in 1..k : ~Suspicious(group[i])}
  <2>1. ASSUME NEW i \in good PROVE group[i].address = Known[ticker]
    <3>1. Lowered(group[i].symbol) = << ticker >>
      BY <1>2, <1>7 DEF Gathered, k
    <3> QED BY <3>1, CopyFlagged
  <2>2. ASSUME NEW i \in good, NEW j \in good PROVE i = j
    <3>1. group[i].address = group[j].address /\ i \in 1..k /\ j \in 1..k
      BY <2>1
    <3> QED BY <1>2, <3>1 DEF Gathered, k
  <2>3. bad \cup good = 1..k /\ bad \cap good = {}
    OBVIOUS
  <2>4. Flagged(group) = Cardinality(bad)
    BY <1>5 DEF Flagged
  <2> HIDE DEF good, bad
  <2>5. IsFiniteSet(good) /\ Cardinality(good) <= 1 /\ Cardinality(good) \in Nat
    BY <2>2, AtMostOne
  <2>6. IsFiniteSet(1..k) /\ Cardinality(1..k) = k
    BY <1>5, FS_Interval
  <2>7. IsFiniteSet(bad) /\ Cardinality(bad) \in Nat
    <3>1. bad \subseteq 1..k
      BY <2>3
    <3> QED BY <2>6, <3>1, FS_Subset, FS_CardinalityType
  <2>8. k = Cardinality(bad) + Cardinality(good) - 0
    <3>1. Cardinality({}) = 0
      BY FS_EmptySet
    <3>2. Cardinality(bad \cup good) = Cardinality(bad) + Cardinality(good)
                                        - Cardinality(bad \cap good)
      BY <2>5, <2>7, FS_Union
    <3> QED BY <2>3, <2>6, <3>1, <3>2
  <2> QED BY <1>5, <2>4, <2>5, <2>7, <2>8
<1>8. {c.contracts : c \in shown} = IF Cardinality(claims) > 1 THEN {Cardinality(claims)} ELSE {}
  <2>1. {c.contracts : c \in {naming}} = {k}
    OBVIOUS
  <2> HIDE DEF naming
  <2> QED BY <1>4, <1>6, <2>1
<1>9. ASSUME NEW c \in shown, s \in {<< t >> : t \in DOMAIN Known}
      PROVE  c.contracts - c.flagged <= 1
  BY <1>4, <1>7, <1>9
<1> QED BY <1>8, <1>9 DEF claims, shown

\* What the calibration finds.
Reasons(list) == [i \in DOMAIN list |-> ClassifyToken(Known, list[i])]
Blamed(list)  == {i \in DOMAIN list : Reasons(list)[i] # {}}

\* What is counted of each standard, and of each rule, adds up.
LEMMA CountsAddUp ==
    ASSUME NEW list \in Lists
    PROVE  LET drops == Drops(list)
               rules == Calibration[list]
           IN  /\ drops.flagged = rules.total
               /\ drops.flagged = SumOf(rules.flagged) /\ drops.scanned = SumOf(drops.byStandard)
               /\ DOMAIN rules.hits \subseteq Fingerprint(Known)
               /\ drops.flagged <= SumOf(rules.hits)
               /\ drops.collisions = SymbolCollisions(list)
<1> DEFINE n == Len(list)
           All == DOMAIN list
           Bad == Blamed(list)
           reasons == Reasons(list)
           Ids == UNION Range(reasons)
           drops == Drops(list)
           rules == Calibration[list]
           S == Standards(list)
<1>1. n \in Nat /\ All = 1..n
  BY ListsAssumption
<1>2. IsFiniteSet(All) /\ Cardinality(All) = n
  <2>1. IsFiniteSet(1..n) /\ Cardinality(1..n) = n
    <3>1. IsFiniteSet(1..n) /\ Cardinality(1..n) = IF 1 > n THEN 0 ELSE (n - 1) + 1
      BY <1>1, FS_Interval
    <3> QED BY <1>1, <3>1
  <2> QED BY <1>1, <2>1
<1>3. IsFiniteSet(Bad) /\ Cardinality(Bad) \in Nat /\ Bad \subseteq All
  BY <1>2, FS_Subset, FS_CardinalityType DEF Blamed
<1>4. /\ drops.flagged = Flagged(list) /\ drops.scanned = n
      /\ drops.byStandard = [s \in S |-> Cardinality(Rows(list, s))]
      /\ drops.collisions = SymbolCollisions(list)
  <2>1. list # Unavailable
    BY ListsAssumption
  <2> QED BY <2>1 DEF Drops, ScanHoldings
<1>5. /\ rules.total = Cardinality(Bad)
      /\ rules.flagged = [s \in S |-> Cardinality({i \in Rows(list, s) : reasons[i] # {}})]
      /\ rules.hits = [id \in Ids |-> Cardinality({i \in All : id \in reasons[i]})]
  BY DEF Calibration, Blamed, Reasons
<1>6. drops.flagged = Cardinality(Bad)
  <2>1. {i \in DOMAIN list : Suspicious(list[i])} = Bad
    BY DEF Blamed, Reasons, Suspicious
  <2> QED BY <1>4, <2>1 DEF Flagged
<1>7. IsFiniteSet(S)
  <2> DEFINE standard == [i \in All |-> Standard(list[i])]
  <2>1. S = {standard[i] : i \in All}
    BY DEF Standards
  <2> HIDE DEF S, standard
  <2> QED BY <1>2, <2>1, ImageFinite
<1>8. IsFiniteSet(Ids) /\ Ids \subseteq Fingerprint(Known)
  <2>1. Range(reasons) = {reasons[i] : i \in All}
    BY DEF Range, Reasons
  <2>2. \A i \in All : reasons[i] = ClassifyToken(Known, list[i])
    BY DEF Reasons
  <2> HIDE DEF reasons, All
  <2>3. IsFiniteSet({reasons[i] : i \in All})
    BY <1>2, ImageFinite
  <2>4. \A T \in Range(reasons) : IsFiniteSet(T) /\ T \subseteq RuleIds(Known)
    BY <2>1, <2>2, ReasonsFinite, ReasonsListed
  <2> QED BY <2>1, <2>3, <2>4, FS_UNION DEF Fingerprint
<1>9. drops.scanned = SumOf(drops.byStandard)
  <2> DEFINE count == drops.byStandard
             of == [i \in All |-> {Standard(list[i])}]
  <2>1. of \in [All -> SUBSET S] /\ \A i \in All : of[i] # {} /\ \A x, y \in of[i] : x = y
    BY DEF Standards
  <2>2. ASSUME NEW s \in S
        PROVE  count[s] = Cardinality({i \in All : s \in of[i]})
                 /\ IsFiniteSet({i \in All : s \in of[i]})
    <3>1. {i \in All : s \in of[i]} = Rows(list, s)
      BY DEF Rows
    <3>2. count[s] = Cardinality(Rows(list, s))
      BY <1>4
    <3>3. IsFiniteSet(Rows(list, s))
      BY <1>2, FS_Subset DEF Rows
    <3> QED BY <3>1, <3>2, <3>3
  <2>3. count \in [S -> Nat]
    <3>1. \A s \in S : count[s] \in Nat
      BY <2>2, FS_CardinalityType
    <3> HIDE DEF S
    <3> QED BY <1>4, <3>1
  <2> HIDE DEF count, of, S, All
  <2>4. SumOf(count) = Cardinality(All)
    <3>1. Counts(count, of, All, S)
      BY <1>2, <1>7, <2>1, <2>2, <2>3 DEF Counts
    <3> QED BY <2>1, <3>1, SumCounts
  <2> QED BY <1>2, <1>4, <2>4 DEF count
<1>10. drops.flagged = SumOf(rules.flagged)
  <2> DEFINE count == rules.flagged
             of == [i \in Bad |-> {Standard(list[i])}]
  <2>1. of \in [Bad -> SUBSET S] /\ \A i \in Bad : of[i] # {} /\ \A x, y \in of[i] : x = y
    BY <1>3 DEF Standards
  <2>2. ASSUME NEW s \in S
        PROVE  count[s] = Cardinality({i \in Bad : s \in of[i]})
                 /\ IsFiniteSet({i \in Bad : s \in of[i]})
    <3>1. {i \in Bad : s \in of[i]} = {i \in Rows(list, s) : reasons[i] # {}}
      BY DEF Rows, Blamed
    <3>2. count[s] = Cardinality({i \in Rows(list, s) : reasons[i] # {}})
      BY <1>5
    <3>3. IsFiniteSet({i \in Bad : s \in of[i]})
      BY <1>3, FS_Subset
    <3> QED BY <3>1, <3>2, <3>3
  <2>3. count \in [S -> Nat]
    <3>1. \A s \in S : count[s] \in Nat
      BY <2>2, FS_CardinalityType
    <3> HIDE DEF S
    <3> QED BY <1>5, <3>1
  <2> HIDE DEF count, of, S, Bad
  <2>4. SumOf(count) = Cardinality(Bad)
    <3>1. Counts(count, of, Bad, S)
      BY <1>3, <1>7, <2>1, <2>2, <2>3 DEF Counts
    <3> QED BY <2>1, <3>1, SumCounts
  <2> QED BY <1>6, <2>4 DEF count
<1>11. drops.flagged <= SumOf(rules.hits)
  <2> DEFINE count == rules.hits
             of == [i \in Bad |-> reasons[i]]
  <2>1. of \in [Bad -> SUBSET Ids] /\ \A i \in Bad : of[i] # {}
    BY <1>3 DEF Blamed, Range, Reasons
  <2>2. ASSUME NEW id \in Ids
        PROVE  count[id] = Cardinality({i \in Bad : id \in of[i]})
                 /\ IsFiniteSet({i \in Bad : id \in of[i]})
    <3>1. {i \in Bad : id \in of[i]} = {i \in All : id \in reasons[i]}
      BY DEF Blamed
    <3>2. count[id] = Cardinality({i \in All : id \in reasons[i]})
      BY <1>5
    <3>3. IsFiniteSet({i \in Bad : id \in of[i]})
      BY <1>3, FS_Subset
    <3> QED BY <3>1, <3>2, <3>3
  <2>3. count \in [Ids -> Nat]
    <3>1. \A id \in Ids : count[id] \in Nat
      BY <2>2, FS_CardinalityType
    <3> HIDE DEF Ids
    <3> QED BY <1>5, <3>1
  <2> HIDE DEF count, of, Ids, Bad
  <2>4. Cardinality(Bad) <= SumOf(count)
    <3>1. Counts(count, of, Bad, Ids)
      BY <1>3, <1>8, <2>1, <2>2, <2>3 DEF Counts
    <3> QED BY <3>1, SumCounts
  <2> QED BY <1>6, <2>4 DEF count
<1>12. DOMAIN rules.hits \subseteq Fingerprint(Known)
  <2> HIDE DEF Ids
  <2>1. DOMAIN rules.hits = Ids
    BY <1>5
  <2> QED BY <1>8, <2>1
<1> HIDE DEF drops, rules
<1> QED BY <1>4, <1>5, <1>6, <1>9, <1>10, <1>11, <1>12 DEF drops, rules

\* What is said of the holdings is exact, whichever they are, in every state
\* (symbolCollisions.mjs findSymbolCollisions, calibrate-heuristics.mjs).
THEOREM CollisionsHonest == AgentSpec => []CollisionsExact
<1>1. CollisionsExact
  <2> SUFFICES ASSUME NEW list \in Lists
               PROVE  LET drops == Drops(list)
                          rules == Calibration[list]
            IN  /\ \A s \in Claimed(list) \ Meaningless :
                 LET claims == {list[i].address : i \in
                                   {j \in DOMAIN list : Lowered(list[j].symbol) = s}}
                     shown   == {c \in ComputeAudit(list).collisions : c.symbol = s}
                 IN  /\ {c.contracts : c \in shown}
                          = IF Cardinality(claims) > 1 THEN {Cardinality(claims)} ELSE {}
                     /\ \A c \in shown : s \in {<< t >> : t \in DOMAIN Known}
                                          => c.contracts - c.flagged <= 1
                     /\ shown \subseteq drops.collisions
            /\ drops.flagged = rules.total
            /\ drops.flagged = SumOf(rules.flagged) /\ drops.scanned = SumOf(drops.byStandard)
            /\ DOMAIN rules.hits \subseteq Fingerprint(Known)
            /\ drops.flagged <= SumOf(rules.hits)
    BY DEF CollisionsExact
  <2>1. ComputeAudit(list).collisions = SymbolCollisions(list)
    <3>1. list # Unavailable
      BY ListsAssumption
    <3> QED BY <3>1 DEF ComputeAudit, ScanHoldings
  <2> QED BY <2>1, CollisionTold, CountsAddUp
<1> QED BY <1>1, PTL
=============================================================================
