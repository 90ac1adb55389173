------------------------------ MODULE MCAgent ------------------------------
(* The rules of a detector, the answers of one deployment, the limiter of   *)
(* one instance, the sale of the audit, and the owner's scripts.  They      *)
(* share no state, so one of them moves while the others are at rest.       *)
EXTENDS Agent, RateLimit, Storefront, WalletScripts

MCInit == RuleInit /\ AgentInit /\ LimitInit /\ StoreInit /\ ScriptsInit

RulesAtRest == token = NoToken /\ running = Known /\ judge = Known

AgentAtRest == /\ now = 0 /\ changes = 0 /\ repo = bundle
               /\ repo = [report |-> NoReport, state |-> NoState]
LimitAtRest == tick = 0 /\ \A k \in Clients : windows[k].count = 0
StoreAtRest == /\ deploys = 0 /\ quoted = {} /\ signed = {} /\ sales = {}
               /\ front.env = NoKeys /\ price = front.terms
               /\ price = CHOOSE terms \in Terms : TRUE

PermissionAtRest == prepared = << >>
KeyAtRest        == keyfile = << >>
ScriptsAtRest    == PermissionAtRest /\ KeyAtRest

MCNext ==
    \/ /\ AgentAtRest /\ LimitAtRest /\ StoreAtRest /\ ScriptsAtRest /\ RuleNext
       /\ UNCHANGED <<agentVars, limitVars, storeVars, scriptVars>>
    \/ /\ RulesAtRest /\ LimitAtRest /\ StoreAtRest /\ ScriptsAtRest /\ AgentNext
       /\ UNCHANGED <<ruleVars, limitVars, storeVars, scriptVars>>
    \/ /\ RulesAtRest /\ AgentAtRest /\ StoreAtRest /\ ScriptsAtRest /\ LimitNext
       /\ UNCHANGED <<ruleVars, agentVars, storeVars, scriptVars>>
    \/ /\ RulesAtRest /\ AgentAtRest /\ LimitAtRest /\ ScriptsAtRest /\ StoreNext
       /\ UNCHANGED <<ruleVars, agentVars, limitVars, scriptVars>>
    \/ /\ RulesAtRest /\ AgentAtRest /\ LimitAtRest /\ StoreAtRest
       /\ \/ KeyAtRest /\ PermissionNext
          \/ PermissionAtRest /\ KeyAtRest /\ \E text \in Secrets : Convert(text)
       /\ UNCHANGED <<ruleVars, agentVars, limitVars, storeVars>>

MCSpec == MCInit /\ [][MCNext]_<<ruleVars, agentVars, limitVars, storeVars, scriptVars>>

MCSymmetry == Permutations(Requests) \cup Permutations(Terminals)

\* Digits of no value, of the least and the largest, and one that is none.
MCSecrets == SeqOf({0, 1, 57, 58}, 5)

MCKnown == "cake" :> 1 @@ "usdc" :> 2
MCLower == "KJK" :> "kjk" @@ "USDC" :> "usdc" @@ "OPEN" :> "open" @@ "CLAIM" :> "claim"
MCPlain == {"aero", "ai", "based", "daonext", "drop", "finance", "freedom", "gizai", "kjk",
            "lfi", "mikeai", "open", "rai", "trump", "usa", "us_pool", "zora"}

\* After the comments of scamHeuristics.mjs.
MCLures ==
    { <<"CLAIM", "https://", "aero", ".", "drop">>, <<"www", ".", "rai", ".", "cc">>,
      <<"daonext", " . ", "com">>, <<"t", ".", "me">>, <<"open", "reward">>,
      <<"scan", "us_pool">>, <<"don't", "miss", "drop">>, <<"#", "$", "50", ",", "000">>,
      <<"500", ".", "000", "$">>, <<"1", "000", "usdc">>, <<"aero-with-cyrillic-e">>,
      <<"gold", "drop", "reserve">>, <<"united", "nations", "oil">>,
      <<"OPEN", "ai">>, <<"open", "-", "ai">>, <<"gpt">> }

Token(address, name, symbol) ==
    [address |-> address, name |-> name, symbol |-> symbol, standard |-> ""]
Nft(address, name, symbol) == [Token(address, name, symbol) EXCEPT !.standard = "ERC-1155"]

MCGenuine ==
    { Token(7, <<"rai", ".", "finance">>, <<"rai">>),
      Token(7, <<"u", " . ", "s", " . ", "zora", "reserve">>, << >>),
      Token(7, <<"4844", "based">>, <<"$", "4844">>),
      Token(7, <<"freedom">>, <<".">>),
      Token(7, <<"mikeai">>, <<"gizai">>),
      Token(7, <<"based", "usa">>, << >>),
      Token(1, <<"cake">>, <<"cake">>),
      Token(2, <<"usdc">>, <<"USDC">>) }

MCTexts == MCLures \cup {t.name : t \in MCGenuine}
                   \cup {t.symbol : t \in MCGenuine}

\* Nothing; one contract twice; two spellings of one ticker, of which one
\* contract is listed twice; contracts that share a dot; a known ticker and
\* copies of it; more airdrops than the score counts.
MCLists ==
    { << >>,
      << Nft(1, <<"gpt">>, <<"lfi">>), Nft(1, <<"gpt">>, <<"lfi">>) >>,
      << Token(1, <<"kjk">>, <<"KJK">>), Nft(2, <<"kjk", "drop">>, <<"kjk">>),
         Nft(2, <<"kjk", "drop">>, <<"kjk">>) >>,
      << Token(3, <<"t", ".", "me">>, <<".">>), Nft(4, <<"scan">>, <<".">>),
         Token(5, << >>, <<"lfi">>) >>,
      << Token(2, <<"usdc">>, <<"USDC">>), Token(6, <<"usdc">>, <<"usdc">>),
         Token(7, << >>, <<"USDC">>) >>,
      [i \in 1..12 |-> Token(i, <<"open", "reward">>, <<".">>)] }
=============================================================================
