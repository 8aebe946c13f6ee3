------------------------------- MODULE Entries -------------------------------
(***************************************************************************)
(* The three ways into a position on one chain and the account they share: *)
(* the ensemble and copied trades (AI_AUTONOMY=veto) or the actions of the *)
(* AI, with or without a copy-trade profile (AI_AUTONOMY=auto).  Each has  *)
(* its own checks; all of them end in executeEntry and its risk request.   *)
(* Sales and moves of the price change what the next entry is charged to.  *)
(*                                                                         *)
(* One decision cycle runs at a time, so an entry is one step: nothing     *)
(* else changes positions between its reads and its fill.  Abstracted: the *)
(* candidate's data (a finding of FreshCandidate and a small set of looks, *)
(* each with its liquidity, verdict and confidence), fees, exit levels,    *)
(* the veto, which only removes entries, and the clock of the cooldown.    *)
(* PAPER mode; the kill switch and the loss limits are EmergencyControl's. *)
(***************************************************************************)
EXTENDS Sizing

CONSTANTS Token,
          Core,          \* the strategies of the ensemble that are registered
          AiStrategy,    \* AI_STRATEGY_ID
          CopyProfiles,  \* strategy ids of COPYTRADE_PROFILES
          Looks,         \* what a fresh observation shows: [liquidity, slip, security, confidence, regime]
          JevScores,     \* scores of the pre-filter, percent; 100 stands for unscored too
          Prices,        \* dollars a token may cost
          StartUsd,      \* startingCapitalUsd
          MaxAiOpen,     \* config.ai.maxOpenPositions
          MaxCopies,     \* config.copytrade.maxPositions
          MaxSlots,      \* config.copytrade.maxSlotsPerToken
          MaxOpened      \* bound: positions opened in all

\* The PAPER router refuses a tolerance of 20000 or more.
ASSUME EntriesAssumption ==
    /\ StartUsd \in Nat \ {0} /\ Prices \subseteq Nat \ {0} /\ Prices # {}
    /\ MaxSlippageBps < 20000
    /\ {MaxAiOpen, MaxCopies, MaxSlots, MaxOpened} \subseteq Nat
    /\ AiStrategy \notin CopyProfiles
    /\ Core \subseteq Ensemble /\ Core \cap (CopyProfiles \cup {AiStrategy}) = {}

VARIABLES
    auto,    \* AI_AUTONOMY=auto: the AI decides, else the ensemble and the copies
    held,    \* positions that are not CLOSED: [id, token, strategy, usd, units, tp1]
    cash,    \* availableCapitalUsd of the PAPER book
    peak,    \* peakValueUsd
    price,   \* priceUsd of each token, times 100
    barred,  \* tokens no ENTER of the AI may buy: "cooldown" for a while, "listed" for good
    opened

account == <<held, cash, peak, price, barred, opened>>
entriesVars == <<auto, account>>

UsdOf(positions)   == MapThenSumSet(LAMBDA p : p.usd, positions)
Valued(positions)  == MapThenSumSet(LAMBDA p : (p.units * price[p.token]) \div 100, positions)
Of(strategies)     == {p \in held : p.strategy \in strategies}
In(token)          == {p \in held : p.token = token}

TotalUsd == cash + Valued(held)
Peak     == Max({StartUsd, peak, TotalUsd})
Drawdown == Max({0, (100 * (Peak - TotalUsd)) \div Peak})

(***************************************************************************)
(* freshEntryCandidate and entryRejections.  status is the scanner's, and  *)
(* "none" a token it does not know, which only a copied entry invents.     *)
(***************************************************************************)
Statuses == {"none", "TRADE_CANDIDATE", "ENTERED"}

FreshStatus(status, token, allowHeldCopySlot, synthesize) ==
    IF \/ synthesize
       \/ status = "TRADE_CANDIDATE"
       \/ status = "ENTERED" /\ allowHeldCopySlot /\ In(token) # {}
    THEN "TRADE_CANDIDATE" ELSE status

\* A refreshed observation passes when it is of this token, current and clean.
EntryRejected(status, look) ==
    \/ status # "TRADE_CANDIDATE"
    \/ ~look.current
    \/ look.liquidity < Max({MarketMinLiquidity, MinLiquidityUsd})
    \/ look.security.status = "REJECT"

EntryRequest(token, strategy, confidence, look) ==
    [size             |-> (TotalUsd * BaseRisk) \div 1000000,
     total            |-> TotalUsd,
     available        |-> cash,
     allocated        |-> UsdOf(held),
     liquidity        |-> look.liquidity,
     slip             |-> look.slip,
     security         |-> look.security,
     confidence       |-> confidence,
     performance      |-> 100,
     regime           |-> look.regime,
     drawdown         |-> Drawdown,
     positions        |-> Cardinality(held),
     tokenExposure    |-> UsdOf(In(token)),
     strategyExposure |-> UsdOf(Of({strategy})),
     dailyLoss        |-> 0, weeklyLoss |-> 0,
     killed           |-> FALSE, stopped |-> FALSE, expired |-> FALSE,
     evm              |-> FALSE, identified |-> TRUE]

\* executeEntry: the risk engine's size, filled at the price of a PAPER order.
ExecuteEntry(token, strategy, confidence, look) ==
    LET usd  == RiskSize(EntryRequest(token, strategy, confidence, look))
        fill == PaperBuyPrice(price[token],
                              AppliedSlippage(PaperSlippageBps(usd, look.liquidity), MaxSlippageBps))
    IN  /\ peak' = Peak
        /\ IF usd = 0 THEN UNCHANGED <<held, cash, opened>>
           ELSE /\ opened < MaxOpened
                /\ held' = held \cup {[id |-> opened, token |-> token, strategy |-> strategy,
                                       usd |-> usd, units |-> (100 * usd) \div fill, tp1 |-> TRUE]}
                /\ cash' = cash - usd
                /\ opened' = opened + 1

EntriesInit ==
    /\ auto \in BOOLEAN
    /\ held = {} /\ cash = StartUsd /\ peak = StartUsd
    /\ price = [t \in Token |-> 100 * Min(Prices)]
    /\ barred = [t \in Token |-> "no"] /\ opened = 0

(***************************************************************************)
(* AI_AUTONOMY=veto: the ensemble, one position per token and strategy.    *)
(***************************************************************************)
EnsembleEntry(token, strategy, look) ==
    /\ ~auto
    /\ barred[token] # "listed"
    /\ In(token) \cap Of({strategy}) = {}
    /\ ~EntryRejected("TRADE_CANDIDATE", look)
    /\ ExecuteEntry(token, strategy, look.confidence, look)
    /\ UNCHANGED <<auto, price, barred>>

\* Mutant of CopyAllowed: a position of the profile counts for one strategy only.
CopyAllowedPerProfile(token, profile) ==
    /\ Cardinality(Of({profile})) < MaxCopies
    /\ Cardinality(In(token) \cap Of({profile})) < MaxSlots

CopyAllowed(token, profile) ==
    /\ Cardinality(Of(CopyProfiles)) < MaxCopies
    /\ Cardinality(In(token) \cap Of(CopyProfiles)) < MaxSlots

\* A tracked wallet bought: neither the blacklist nor the cooldown is asked.
CopiedEntry(token, profile, look) ==
    /\ ~auto
    /\ CopyAllowed(token, profile)
    /\ ~EntryRejected(FreshStatus("none", token, FALSE, TRUE), look)
    /\ ExecuteEntry(token, profile, 60, look)
    /\ UNCHANGED <<auto, price, barred>>

(***************************************************************************)
(* AI_AUTONOMY=auto: an ENTER of the AI.  A profile is honoured only when  *)
(* a tracked wallet bought the token; the AI's own cap is then not asked.  *)
(***************************************************************************)
DampedConfidence(confidence, jev) == (confidence * (50 + jev \div 2)) \div 100

AiAllowed(token, profile) ==
    IF profile \in CopyProfiles THEN CopyAllowed(token, profile)
    ELSE Cardinality(Of({AiStrategy})) < MaxAiOpen

AiEntry(token, profile, status, look, jev) ==
    /\ auto
    /\ In(token) \cap Of({AiStrategy}) = {}
    /\ barred[token] = "no"
    /\ AiAllowed(token, profile)
    /\ ~EntryRejected(FreshStatus(status, token, profile \in CopyProfiles, FALSE), look)
    /\ ExecuteEntry(token, profile, DampedConfidence(look.confidence, jev), look)
    /\ barred' = [barred EXCEPT ![token] = "cooldown"]
    /\ UNCHANGED <<auto, price>>

(***************************************************************************)
(* Between the entries.                                                    *)
(***************************************************************************)
\* Of a token that is held; the price an unheld one is bought at is a mere unit.
PriceMoves(token, usd) ==
    /\ In(token) # {} /\ price[token] # 100 * usd
    /\ price' = [price EXCEPT ![token] = 100 * usd]
    /\ UNCHANGED <<auto, held, cash, peak, barred, opened>>

\* A full exit starts the cooldown; a catastrophic stop lists the token too.
Exit(p, catastrophic) ==
    /\ held' = held \ {p}
    /\ cash' = cash + Valued({p})
    /\ peak' = Peak
    /\ barred' = [barred EXCEPT ![p.token] = IF catastrophic \/ @ = "listed" THEN "listed" ELSE "cooldown"]
    /\ UNCHANGED <<auto, price, opened>>

\* TP1 sells half, with half of the cost, and is gone.
HalfExit(p) ==
    /\ p.tp1 /\ p.units > 1
    /\ LET rest == [p EXCEPT !.tp1 = FALSE, !.units = @ - @ \div 2, !.usd = @ - (@ * (p.units \div 2)) \div p.units]
           sold == [p EXCEPT !.units = @ \div 2]
       IN  /\ held' = (held \ {p}) \cup {rest}
           /\ cash' = cash + Valued({sold})
    /\ peak' = Peak
    /\ UNCHANGED <<auto, price, barred, opened>>

CooldownOver(token) ==
    /\ barred[token] = "cooldown"
    /\ barred' = [barred EXCEPT ![token] = "no"]
    /\ UNCHANGED <<auto, held, cash, peak, price, opened>>

EntriesNext ==
    \/ \E token \in Token, look \in Looks :
          \/ \E strategy \in Core : EnsembleEntry(token, strategy, look)
          \/ \E profile \in CopyProfiles : CopiedEntry(token, profile, look)
          \/ \E profile \in CopyProfiles \cup {AiStrategy}, status \in Statuses, jev \in JevScores :
                AiEntry(token, profile, status, look, jev)
    \/ \E token \in Token : CooldownOver(token)
    \/ \E token \in Token, usd \in Prices : PriceMoves(token, usd)
    \/ \E p \in held : HalfExit(p) \/ \E catastrophic \in BOOLEAN : Exit(p, catastrophic)

EntriesSpec == EntriesInit /\ [][EntriesNext]_entriesVars

(***************************************************************************)
(* The account is never overspent, and no more than the caps is at risk in *)
(* a token or in all, whichever path an entry took and whatever prices and *)
(* partial sales did in between.                                           *)
(***************************************************************************)
CapsHold ==
    /\ cash >= 0
    /\ UsdOf(held) <= MaxTotalUsd
    /\ \A token \in Token : UsdOf(In(token)) <= MaxTokenUsd

(***************************************************************************)
(* The counts of every path hold together: positions in all, of the AI, of *)
(* all the copy-trade profiles together, of these in one token, and one of *)
(* a strategy in a token, whichever path or mode an entry took.            *)
(***************************************************************************)
SlotsHold ==
    /\ Cardinality(held) <= MaxConcurrent
    /\ Cardinality(Of({AiStrategy})) <= MaxAiOpen
    /\ Cardinality(Of(CopyProfiles)) <= MaxCopies
    /\ \A token \in Token :
          /\ Cardinality(In(token) \cap Of(CopyProfiles)) <= MaxSlots
          /\ \A strategy \in Core \cup {AiStrategy} :
                Cardinality(In(token) \cap Of({strategy})) <= 1
=============================================================================
