-------------------------------- MODULE Sizing --------------------------------
(***************************************************************************)
(* A situation that gets worse under the desk's eyes: one observation, the *)
(* regime or the state of the account deteriorates at a time, and the      *)
(* whole chain from the observations to the size of the order is asked     *)
(* again, as every decision cycle does.  The rest of the desk does not     *)
(* matter here: nothing is entered, the situation is all the state there is.*)
(***************************************************************************)
EXTENDS Signals

CONSTANTS Candidates,  \* the candidates a situation starts from
          Securities,  \* what a security check may answer
          Pools,       \* the pool's depth and its slippage: [usd, slip]
          Series,      \* prices of the chain's coin, one a minute, that a situation starts from
          CoinPrices,  \* and the prices that may follow
          MaxSeries,   \* bound: prices in the series
          Drawdowns,   \* percent below the peak
          Records,     \* what the strategies have won and lost
          EquityUsd    \* what the account is worth

ASSUME SizingAssumption == EquityUsd \in Nat \ {0} /\ Drawdowns \subseteq Nat

VARIABLES
    sit,    \* [candidate, prices, drawdown, record, allocated]
    orders  \* what each strategy would buy for, in dollars

\* Evaluated once for each record of trades.
Performance == [record \in Records |-> PerformanceMultiplier(record)]
Winning     == [record \in Records |-> RecentWinRate(record)]

\* The regime a decision cycle asks its strategies in.
RegimeOf(x) == ClassifyRegime(x.prices, x.drawdown, 0, Winning[x.record])

\* What executeEntry puts to the risk engine for strategy s in situation x.
Request(x, s) ==
    [size             |-> (EquityUsd * BaseRisk) \div 1000000,
     total            |-> EquityUsd,
     available        |-> EquityUsd - x.allocated,
     allocated        |-> x.allocated,
     liquidity        |-> x.candidate.liquidity.usd,
     slip             |-> x.candidate.liquidity.slip,
     security         |-> x.candidate.security,
     confidence       |-> StrategyConfidence(s, x.candidate),
     performance      |-> Performance[x.record],
     regime           |-> RegimeOf(x),
     drawdown         |-> x.drawdown,
     positions        |-> IF x.allocated > 0 THEN 1 ELSE 0,
     tokenExposure    |-> 0, strategyExposure |-> x.allocated,
     dailyLoss        |-> 0, weeklyLoss |-> 0,
     killed           |-> FALSE, stopped |-> FALSE, expired |-> FALSE,
     evm              |-> FALSE, identified |-> TRUE]

\* A strategy that does not decide to enter buys nothing.
Orders(x) ==
    LET entering == EnterDecisions(x.candidate, RegimeOf(x))
    IN  [s \in Ensemble |-> IF s \in entering THEN RiskSize(Request(x, s)) ELSE 0]

Becomes(x) == sit' = x /\ orders' = Orders(x)

SizingInit ==
    /\ sit \in [candidate : Candidates, prices : Series, drawdown : {0}, record : Records, allocated : {0}]
    /\ orders = Orders(sit)

\* SAFE is better than anything else, a warning better than no data at all.
WorseSecurity(old, new) ==
    \/ old.status = "SAFE" /\ new.status # "SAFE"
    \/ old.status \in {"SAFE", "WARNING"} /\ new.status = old.status
       /\ new.score <= old.score /\ new.confidence <= old.confidence /\ new # old
    \/ old.status = "WARNING" /\ SecurityDataMissing(new)
    \/ new.status = "REJECT" /\ old.status # "REJECT"

SecurityWorsens ==
    \E security \in Securities :
       /\ WorseSecurity(sit.candidate.security, security)
       /\ Becomes([sit EXCEPT !.candidate.security = security])

PoolShrinks ==
    \E pool \in Pools :
       /\ pool.usd < sit.candidate.liquidity.usd
       /\ Becomes([sit EXCEPT !.candidate.liquidity.usd = pool.usd,
                              !.candidate.liquidity.slip = pool.slip])

\* One more price, and the regime it makes is sized lower.
MarketTurns ==
    \E usd \in CoinPrices, gap \in {MinGap - 1, MinGap} :
       LET turned == [sit EXCEPT !.prices = AddSample(@, usd, gap)]
       IN  /\ Len(turned.prices) <= MaxSeries
           /\ RegimeMultiplier(RegimeOf(turned)) < RegimeMultiplier(RegimeOf(sit))
           /\ Becomes(turned)

AccountFalls ==
    \E drawdown \in Drawdowns :
       /\ drawdown > sit.drawdown
       /\ Becomes([sit EXCEPT !.drawdown = drawdown])

CapitalUsed ==
    /\ sit.allocated = 0
    /\ Becomes([sit EXCEPT !.allocated = EquityUsd \div 3])

SizingNext == SecurityWorsens \/ PoolShrinks \/ MarketTurns \/ AccountFalls \/ CapitalUsed

sizingVars == <<sit, orders>>
SizingSpec == SizingInit /\ [][SizingNext]_sizingVars

\* The data behind a warning goes missing: its 60 percent become 50, and the warning's
\* score and what it costs in confidence are gone.
WarningLost ==
    /\ sit.candidate.security.status = "WARNING"
    /\ SecurityDataMissing(sit'.candidate.security)

(***************************************************************************)
(* A step that makes the situation worse, be it the verdict on the token,  *)
(* the depth of its pool, the market, the drawdown of the account or the   *)
(* capital in use, never makes the order of a strategy larger, although    *)
(* missing data raises the opportunity score (scoreCandidate weighs what   *)
(* is left) and with it the confidence of the strategy.                    *)
(*                                                                         *)
(* It does when the data behind a warning goes missing, but by little:     *)
(* 50 percent for 60, a confidence of 85 at most for one of 45 at least    *)
(* (the score of 60 that fresh momentum asks for, less the warning's 15),  *)
(* so half of 92.5 for 60 percent of 72.5, not 7 percent more, to a dollar.*)
(***************************************************************************)
SizeNeverGrows ==
    [][\A s \in Ensemble : orders[s] > 0 =>
          IF WarningLost THEN 100 * orders'[s] <= 107 * (orders[s] + 1)
                         ELSE orders'[s] <= orders[s]]_sizingVars

(***************************************************************************)
(* README.md:110 says "missing data -> no trade": no strategy buys a token *)
(* whose security nobody could tell.                                       *)
(***************************************************************************)
NoDataNoTrade ==
    \A s \in Ensemble : orders[s] > 0 => ~SecurityDataMissing(sit.candidate.security)
=============================================================================
