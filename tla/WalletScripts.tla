--------------------------- MODULE WalletScripts ---------------------------
(***************************************************************************)
(* Two scripts a person runs around the wallet.  spend-permission.mjs has  *)
(* a library prepare the calls of a charge or a revocation and sends them  *)
(* from the courier's account one after another, each with the nonce that  *)
(* some node has for it; other scripts send from the same account at the   *)
(* time, nodes lag, and what was sent may land unanswered or never.  And   *)
(* convert-solana-key.mjs decodes a secret.                                *)
(***************************************************************************)
EXTENDS Naturals, Sequences, SequencesExt, FiniteSets

CONSTANTS
    Terminals,       \* scripts that run at once
    Allowance,       \* what the spend permission allows a day
    MaxOrders,       \* charges and revocations prepared (bound of the model)
    KeySize,         \* bytes of a secret key: 64
    Secrets          \* what may be pasted as one: sequences over 0..58

ASSUME ScriptsAssumption ==
    /\ Allowance \in Nat /\ MaxOrders \in Nat /\ KeySize \in Nat
    /\ Secrets \subseteq Seq(0..58)

VARIABLES
    permission,      \* the spend permission on chain
    lagging,         \* the permission as a node behind the others has it
    nonce,           \* the courier's transactions mined so far
    pool,            \* its transactions that nodes hold and none has mined
    prepared,        \* prepared[i]: the calls of the i-th order
    landed,          \* landed[i]: those of them that were mined, in that order
    orders,          \* orders[d]: the order d sends, and how far it is
    keyfile,         \* the bytes in the key file
    pasted           \* the secret they come from (ghost)

permissionVars == <<permission, lagging, nonce, pool, prepared, landed, orders>>
keyVars        == <<keyfile, pasted>>
scriptVars     == <<permissionVars, keyVars>>

Approve == [kind |-> "approve", amount |-> 0]
Revoke  == [kind |-> "revoke", amount |-> 0]
Spend(amount) == [kind |-> "spend", amount |-> amount]

Calls       == [kind : {"approve", "spend", "revoke"}, amount : 0..Allowance]
Permissions == [approved : BOOLEAN, revoked : BOOLEAN, spent : 0..Allowance]
NoOrder     == [id |-> 0, sent |-> 0, waiting |-> FALSE]
Subscribed  == [approved |-> FALSE, revoked |-> FALSE, spent |-> 0]

ScriptsInit ==
    /\ permission = Subscribed /\ lagging = Subscribed
    /\ nonce = 0 /\ pool = {}
    /\ prepared = << >> /\ landed = << >>
    /\ orders = [d \in Terminals |-> NoOrder]
    /\ keyfile = << >> /\ pasted = << >>

-----------------------------------------------------------------------------
(* Calls sent one after another *)

Prepare(d, calls) ==
    /\ orders[d] = NoOrder /\ Len(prepared) < MaxOrders
    /\ prepared' = Append(prepared, calls)
    /\ landed' = Append(landed, << >>)
    /\ orders' = [orders EXCEPT ![d] = [NoOrder EXCEPT !.id = Len(prepared) + 1]]
    /\ UNCHANGED <<permission, lagging, nonce, pool, keyVars>>

\* `charge': a permission that is not on chain yet, as far as the node asked
\* knows, is approved first.  The library prepares no more than remains.
PrepareCharge(d, amount) ==
    \E known \in {permission, lagging} :
      /\ ~known.revoked /\ amount \in 1..(Allowance - known.spent)
      /\ Prepare(d, IF known.approved THEN <<Spend(amount)>>
                                      ELSE <<Approve, Spend(amount)>>)

PrepareRevoke(d) == Prepare(d, <<Revoke>>)

\* cast send: the next call goes out with a nonce that some node has for the
\* courier.  One that is mined already is refused (see CallFails); two of one
\* nonce may lie with different nodes.
SendCall(d, n) ==
    LET order == orders[d]
    IN  /\ order # NoOrder /\ ~order.waiting
        /\ n \in nonce..(nonce + Cardinality(pool))
        /\ pool' = pool \cup {[order |-> order.id, nonce |-> n,
                               call |-> prepared[order.id][order.sent + 1]]}
        /\ orders' = [orders EXCEPT ![d] =
                        [order EXCEPT !.sent = order.sent + 1, !.waiting = TRUE]]
        /\ UNCHANGED <<permission, lagging, nonce, prepared, landed, keyVars>>

PermissionTakes(call, p) ==
    CASE call.kind = "approve" -> ~p.revoked
      [] call.kind = "spend"   -> p.approved /\ ~p.revoked /\ p.spent + call.amount <= Allowance
      [] OTHER                 -> TRUE

Executed(call, p) ==
    CASE call.kind = "approve" -> [p EXCEPT !.approved = TRUE]
      [] call.kind = "spend"   -> [p EXCEPT !.spent = @ + call.amount]
      [] OTHER                 -> [p EXCEPT !.revoked = TRUE]

\* A transaction is mined, executed or reverted; those of its nonce never will
\* be, and some node has not heard of it.
Mine(tx) ==
    /\ tx.nonce = nonce
    /\ nonce' = nonce + 1
    /\ pool' = {other \in pool : other.nonce > nonce}
    /\ permission' = IF PermissionTakes(tx.call, permission)
                       THEN Executed(tx.call, permission) ELSE permission
    /\ lagging' \in {lagging, permission}
    /\ landed' = [landed EXCEPT ![tx.order] = Append(@, tx.call)]
    /\ UNCHANGED <<prepared, orders, keyVars>>

\* cast send has the receipt, of a call that was executed or reverted: the
\* script goes on to the next one, or is through.
Confirmed(d) ==
    LET order == orders[d]
    IN  /\ order # NoOrder /\ order.waiting
        /\ Len(landed[order.id]) = order.sent
        /\ orders' = [orders EXCEPT ![d] =
                        IF order.sent = Len(prepared[order.id]) THEN NoOrder
                        ELSE [order EXCEPT !.waiting = FALSE]]
        /\ UNCHANGED <<permission, lagging, nonce, pool, prepared, landed, keyVars>>

\* Mutant: the call that failed is sent again.
CallFailsRetried(d) ==
    LET order == orders[d]
    IN  /\ order # NoOrder /\ order.waiting
        /\ orders' = [orders EXCEPT ![d] =
                        [order EXCEPT !.sent = order.sent - 1, !.waiting = FALSE]]
        /\ UNCHANGED <<permission, lagging, nonce, pool, prepared, landed, keyVars>>

\* The call is refused (a stale nonce, a replacement underpriced, an estimate
\* that reverts), or its receipt does not come, or the script is stopped: what
\* was sent stays sent, and the exception ends the script.
CallFails(d) ==
    /\ orders[d] # NoOrder
    /\ orders' = [orders EXCEPT ![d] = NoOrder]
    /\ UNCHANGED <<permission, lagging, nonce, pool, prepared, landed, keyVars>>

DayPasses ==
    /\ permission' = [permission EXCEPT !.spent = 0]
    /\ lagging' = [lagging EXCEPT !.spent = 0]
    /\ UNCHANGED <<nonce, pool, prepared, landed, orders, keyVars>>

-----------------------------------------------------------------------------
(* The secret key *)

\* One round of base58Decode: bytes * 58 + value, least significant byte first.
\* What is carried out of the last byte is below 58: one byte more.
Shifted(bytes, value) ==
    LET Byte(acc, byte) == [bytes |-> Append(acc.bytes, (acc.carry + byte * 58) % 256),
                            carry |-> (acc.carry + byte * 58) \div 256]
        all == FoldLeft(Byte, [bytes |-> << >>, carry |-> value], bytes)
    IN  IF all.carry = 0 THEN all.bytes ELSE Append(all.bytes, all.carry)

\* The 1s a text begins with, whose value is 0.
Ones(text) ==
    [i \in 1..SelectInSeq(text \o <<58>>, LAMBDA value : value # 0) - 1 |-> 0]

\* Mutant: the 1s in front are not counted.
Base58Short(text) == Reverse(FoldLeft(Shifted, <<0>>, text))

\* base58Decode.
Base58Decode(text) == Reverse(FoldLeft(Shifted, <<0>>, text) \o Ones(text))

\* The file is written for a text of the alphabet that decodes to KeySize
\* bytes; what the key library says of them is not known here.
Convert(text) ==
    /\ \A i \in DOMAIN text : text[i] < 58
    /\ Len(Base58Decode(text)) = KeySize
    /\ keyfile' = Base58Decode(text) /\ pasted' = text
    /\ UNCHANGED permissionVars

-----------------------------------------------------------------------------

PermissionNext ==
    \/ \E d \in Terminals :
         \/ \E amount \in 1..Allowance : PrepareCharge(d, amount)
         \/ \E n \in nonce..(nonce + Cardinality(pool)) : SendCall(d, n)
         \/ PrepareRevoke(d) \/ Confirmed(d) \/ CallFails(d)
    \/ \E tx \in pool : Mine(tx)
    \/ DayPasses

ScriptsNext == PermissionNext \/ \E text \in Secrets : Convert(text)

ScriptsSpec == ScriptsInit /\ [][ScriptsNext]_scriptVars

-----------------------------------------------------------------------------

\* What is mined of a charge or a revocation is what was prepared, in that
\* order and none of it twice, whichever of its calls is refused, lands without
\* an answer or lies in the pool when the script ends, and whoever else sends
\* from the account: a charge spends at most once, and not before its approval
\* was mined (spend-permission.mjs:36-39; docs/JOURNAL.md:76 tells of a charge
\* whose second call was refused for a stale nonce).
ChargedInOrder ==
    \A i \in DOMAIN prepared : IsPrefix(landed[i], prepared[i])

ValueOf(digits, base) == FoldLeft(LAMBDA value, digit : value * base + digit, 0, digits)

\* The key file holds the secret that was pasted: KeySize bytes of its value,
\* with a zero in front for each leading 1 and none else, unless the text is
\* nothing but 1s, which no key is (convert-solana-key.mjs base58Decode).
KeyfileIsSecret ==
    keyfile # << >> =>
      /\ Len(keyfile) = KeySize /\ \A i \in DOMAIN keyfile : keyfile[i] \in 0..255
      /\ ValueOf(keyfile, 256) = ValueOf(pasted, 58)
      /\ \/ \A i \in DOMAIN pasted : pasted[i] = 0
         \/ SelectInSeq(keyfile, LAMBDA byte : byte # 0)
              = SelectInSeq(pasted, LAMBDA value : value # 0)
=============================================================================
