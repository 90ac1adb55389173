----------------------------- MODULE Heuristics -----------------------------
(***************************************************************************)
(* agent/lib/scamHeuristics.mjs: which of the tokens a wallet holds are    *)
(* lures, and the fingerprint of the rules that say so, which a baseline   *)
(* of the sentinel carries from one detector to the next.                  *)
(*                                                                         *)
(* A text is a sequence of words and marks, one space apart, except that   *)
(* "." is a dot without spaces around it; " . " is one with some.  A       *)
(* regular expression is a set of patterns, and a pattern a sequence of    *)
(* sets of words.                                                          *)
(***************************************************************************)
EXTENDS Naturals, Sequences, SequencesExt, Functions

CONSTANTS
    Plain,           \* Latin words that occur in no rule
    Foreign,         \* words in Cyrillic or Greek letters
    Lower,           \* Lower[w]: word w, written in capitals, in small letters
    Known,           \* KNOWN_TICKER_ADDRESSES: Known[ticker] is the address
    Texts,           \* names and symbols a token may have
    Lures,           \* ... those the comments quote as lures
    Genuine          \* the tokens they name as legitimate

\* Texts are sequences, and tickers are texts in small letters.  No plain word
\* is a mark or a number, and no dot is a letter.
ASSUME WordsAssumption ==
    /\ Texts \subseteq Seq(UNION {Range(text) : text \in Texts})
    /\ \A ticker \in DOMAIN Known : "" \o ticker = ticker
    /\ DOMAIN Known \cap DOMAIN Lower = {}
    /\ {"-", "1", "."} \cap (DOMAIN Lower \cup DOMAIN Known \cup Plain) = {}
    /\ {".", " . "} \cap (DOMAIN Lower \cup Foreign) = {}

VARIABLES
    token,           \* the token the wallet was sent last
    running,         \* KNOWN_TICKER_ADDRESSES of the detector deployed
    judge,           \* ... of the one that made the baseline (ghost)
    stored           \* the fingerprint kept with the baseline

ruleVars == <<token, running, judge, stored>>

Initials == {"t", "u", "s"}
Groups3  == {"000", "500"}                   \* three digits
Numbers  == Groups3 \cup {"1", "50", "4844"}
Few      == Numbers \ {"4844"}               \* one to three digits

Shows(text, pattern) ==
    \E i \in 0..(Len(text) - Len(pattern)) :
        \A j \in DOMAIN pattern : text[i + j] \in pattern[j]

Lowered(text) ==
    [i \in DOMAIN text |-> IF text[i] \in DOMAIN Lower THEN Lower[text[i]] ELSE text[i]]

-----------------------------------------------------------------------------
(* The rules *)

CloseDotSpacing(text) == [i \in DOMAIN text |-> IF text[i] = " . " THEN "." ELSE text[i]]

Tlds == {"io", "me", "ly", "cc", "xyz", "top", "link", "site", "app", "gg", "to",
         "club", "online", "shop", "vip", "win", "com", "net"}

ClaimWords == {"claim", "until", "expire", "expires", "visit", "airdrop"}

RewardWords == {"reward", "rewards", "rewarded", "free", "prize", "win", "winner",
                "winnings", "bonus", "giveaway", "earnings", "redeem"}

ReserveWords     == {"reserve", "reserves"}
ReserveQualifier == {"oil", "federal", "digital", "treasury", "military", "strategic",
                     "gold", "sovereign", "petroleum"}
StateBody == {<< {"united"}, {"states"} >>, << {"united"}, {"nations"} >>,
              << {"nation"}, {"america"} >>}
StateCommodity == {"oil", "reserve", "reserves", "supply", "petroleum"}

Pressures == {<< {"don't", "dont"}, {"miss"} >>, << {"last"}, {"chance"} >>,
              << {"hurry"} >>, << {"limited"}, {"time"} >>, << {"act"}, {"now"} >>}

AiBrands == {"openai", "chatgpt", "gpt", "deepseek", "anthropic", "claude",
             "midjourney", "copilot", "perplexity"}

Latin == Tlds \cup ClaimWords \cup RewardWords \cup ReserveWords \cup ReserveQualifier
           \cup StateCommodity \cup AiBrands \cup DOMAIN Known \cup Plain
           \cup {"scan", "qr", "www", "usd", "usdc", "usdt"}
Alnum == Latin \cup Initials \cup Numbers

Url(text) ==
    \/ Shows(text, << {"https://"}, Alnum, {"."}, Latin >>)
    \/ Shows(text, << {"www"}, {"."}, Alnum, {"."}, Latin >>)

BareDomain(text) == Shows(text, << Alnum, {"."}, Tlds >>)

Claim(text)  == Shows(text, << ClaimWords >>)
Reward(text) == Shows(text, << RewardWords >>)
Qr(text)     == Shows(text, << {"scan", "qr"} >>)

Pressure(text) == \E phrase \in Pressures : Shows(text, phrase)

\* Digits grouped in thousands, by a space or a mark, beside a currency.
Money(text) ==
    LET currency == << {"$", "usd", "usdc", "usdt"} >>
    IN  \E sum \in {<< Few, Groups3 >>, << Few, {".", ","}, Groups3 >>} :
            Shows(text, currency \o sum) \/ Shows(text, sum \o currency)

Lookalike(text) == Shows(text, << Foreign >>)

ImpersonatesAStateReserve(text) ==
    \/ Shows(text, << ReserveWords >>) /\ Shows(text, << ReserveQualifier >>)
    \/ (\E body \in StateBody : Shows(text, body)) /\ Shows(text, << StateCommodity >>)

\* The words of a text that are in `kept', run together.
RunTogether(text, kept) ==
    FoldLeft(LAMBDA spelt, word : IF word \in kept THEN spelt \o word ELSE spelt, "", text)

\* The whole of the name or symbol, without regard to spaces and marks.
ImpersonatesAnAiBrand(text) == RunTogether(text, Alnum) \in AiBrands

\* KNOWN_TICKER_ADDRESSES: the contract that goes by the ticker on Base.
Canonical(known, ticker) == known[ticker]

\* Mutant: an exact copy of a ticker is taken at face value.
ImpersonatedInexactly(known, held) ==
    {ticker \in DOMAIN known :
        /\ RunTogether(Lowered(held.symbol), Latin \cup Initials) = ticker
        /\ Lowered(held.symbol) # << ticker >> /\ held.address # Canonical(known, ticker)}

\* The tickers a contract claims that is not the one known by it.
Impersonated(known, held) ==
    {ticker \in DOMAIN known :
        /\ RunTogether(Lowered(held.symbol), Latin \cup Initials) = ticker
        /\ held.address # Canonical(known, ticker)}

TickerId(ticker) == "impersonates_" \o ticker

\* classifyToken: the reasons.  The two domain rules read the texts with the
\* spaces around dots closed up, all others read them as they are.
ClassifyToken(known, held) ==
    LET texts  == {Lowered(held.name), Lowered(held.symbol)}
        closed == {CloseDotSpacing(text) : text \in texts}
        fires  ==
          [ name_or_symbol_contains_url         |-> \E text \in closed : Url(text),
            name_or_symbol_contains_bare_domain |-> \E text \in closed : BareDomain(text),
            urgency_language                    |-> \E text \in texts : Claim(text),
            reward_language                     |-> \E text \in texts : Reward(text),
            quotes_a_cash_amount                |-> \E text \in texts : Money(text),
            qr_code_lure                        |-> \E text \in texts : Qr(text),
            pressure_language                   |-> \E text \in texts : Pressure(text),
            non_latin_homoglyph                 |-> \E text \in texts : Lookalike(text),
            impersonates_a_state_reserve        |->
                \E text \in texts : ImpersonatesAStateReserve(text),
            impersonates_an_ai_brand            |->
                \E text \in texts : ImpersonatesAnAiBrand(text) ]
    IN  {id \in DOMAIN fires : fires[id]}
          \cup {TickerId(ticker) : ticker \in Impersonated(known, held)}

Suspicious(held) == ClassifyToken(Known, held) # {}

-----------------------------------------------------------------------------
(* The fingerprint *)

TextRuleIds ==
    {"name_or_symbol_contains_url", "name_or_symbol_contains_bare_domain",
     "urgency_language", "reward_language", "quotes_a_cash_amount", "qr_code_lure",
     "pressure_language", "non_latin_homoglyph", "impersonates_a_state_reserve",
     "impersonates_an_ai_brand"}

\* Mutant: one id stands for all tickers.
RuleIdsWithoutTickers(known) == TextRuleIds \cup {"impersonates"}

\* RULE_IDS.
RuleIds(known) == TextRuleIds \cup {TickerId(ticker) : ticker \in DOMAIN known}

\* No two rules go by one id: no known ticker is spelt like the rest of the
\* text rules' own ids after "impersonates_".
ASSUME RuleIdsDiffer ==
    /\ \A s, t \in DOMAIN Known : TickerId(s) = TickerId(t) => s = t
    /\ \A t \in DOMAIN Known : TickerId(t) \notin TextRuleIds

\* detectorFingerprint: a digest of the ids in order, as good as the set of them.
Fingerprint(known) == RuleIds(known)

-----------------------------------------------------------------------------
(* Detectors come and go *)

AsName(text)   == [name |-> text, symbol |-> << >>, address |-> 0]
AsSymbol(text) == [name |-> << >>, symbol |-> text, address |-> 0]
NoToken == AsName(<< >>)

\* The ticker alone, and with marks or digits in it, of any contract.
Copies(ticker) ==
    {[AsSymbol(symbol) EXCEPT !.address = address] :
        symbol \in {<< ticker >>} \cup
            UNION {{<< ticker, mark >>, << mark, ticker >>} : mark \in {"-", "1", "."}},
        address \in Range(Known)}

Tokens == {AsName(text) : text \in Texts} \cup {AsSymbol(text) : text \in Texts}
            \cup Genuine \cup UNION {Copies(ticker) : ticker \in DOMAIN Known}

\* The comments judge their examples as the rules do: whatever tickers are
\* known the lures are seen, in either field, and the legitimate ones are not.
ASSUME ExamplesAssumption ==
    /\ \A text \in Lures : \A held \in {AsName(text), AsSymbol(text)} :
          ClassifyToken(Restrict(Known, {}), held) # {}
    /\ \A held \in Genuine : ~Suspicious(held)

Detectors == {Restrict(Known, tickers) : tickers \in SUBSET DOMAIN Known}

RuleInit ==
    /\ token = NoToken
    /\ running \in Detectors
    /\ judge = running /\ stored = Fingerprint(running)

\* Nobody can refuse a token.
Receive(sent) == token' = sent /\ UNCHANGED <<running, judge, stored>>

\* Tickers are added to the list or taken off it.
DeployRules(known) == running' = known /\ UNCHANGED <<token, judge, stored>>

\* What /sentinel calls willRebaseline.
WillRebaseline == stored # Fingerprint(running)

\* A cycle of the sentinel makes the baseline anew with another detector, and
\* keeps it with the same.
Rebaseline ==
    /\ WillRebaseline
    /\ judge' = running /\ stored' = Fingerprint(running)
    /\ UNCHANGED <<token, running>>

RuleNext ==
    \/ \E sent \in Tokens : Receive(sent)
    \/ \E known \in Detectors : DeployRules(known)
    \/ Rebaseline

RuleSpec == RuleInit /\ [][RuleNext]_ruleVars

-----------------------------------------------------------------------------

Spaced(text) == [i \in DOMAIN text |-> IF text[i] = "." THEN " . " ELSE text[i]]

\* What hides no lure: which field it is in, what is written before or after
\* it, and, where the lure is a domain, spaces around the dots; only a brand
\* must be the whole text.  The lures of the comments are seen, and so is a
\* copy of a known ticker with marks or digits in it, exact or not; the
\* holdings they call legitimate are not flagged (scamHeuristics.mjs:13-19,
\* 22-26, 50-52, 70-73, 89-93, 116-119, 193-196).
LuresSeen ==
    LET reasons == ClassifyToken(running, token)
        seen    == (reasons \cap TextRuleIds) \ {"impersonates_an_ai_brand"}
        lure    == token.name \o token.symbol
        Named(text)  == ClassifyToken(running, AsName(text))
        Symbol(text) == ClassifyToken(running, AsSymbol(text))
    IN  token # NoToken =>
          /\ seen # {} =>
               \A other \in Texts : \A text \in {lure \o other, other \o lure} :
                   /\ seen \subseteq Named(text) \cap Symbol(text)
                   /\ seen \ {"quotes_a_cash_amount"}
                        \subseteq Named(Spaced(text)) \cap Symbol(Spaced(text))
          /\ lure \in Lures /\ token \notin Genuine => reasons # {}
          /\ \A ticker \in DOMAIN running :
               token \in Copies(ticker) => reasons # {} \/ token.address = Known[ticker]
          /\ token \in Genuine => reasons = {}

\* The fingerprint tells detectors apart: whatever a rule says of a token it
\* says under a listed id, and as long as no new baseline is announced the
\* detector judges every token as the one that made the baseline did: what is
\* new then is new in the wallet (scamHeuristics.mjs:149-154,
\* sentinelReport.mjs:50-52).
RulesNamed ==
    token # NoToken =>
      /\ ClassifyToken(running, token) \subseteq RuleIds(running)
      /\ ~WillRebaseline => ClassifyToken(running, token) = ClassifyToken(judge, token)
=============================================================================
