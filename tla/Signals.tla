------------------------------- MODULE Signals -------------------------------
(***************************************************************************)
(* From the observations of a token to the strategies that would enter it: *)
(* the features, the scores, the four strategies of the ensemble, and the  *)
(* regime of the market they are asked in.                                 *)
(*                                                                         *)
(* A candidate c is a record [layers, market, liquidity, holders,          *)
(* security]; layers names the observations that are there.  Price         *)
(* changes, holder growth and pool changes are tenths of a percent, ratios *)
(* percent (130 is 1.3), scores and confidences 0 .. 100 rounded down,     *)
(* logarithms tenths.  A feature that falls back to the snapshot it was    *)
(* computed from is the snapshot's value; reasons and risks are their      *)
(* number where a strategy counts them; skipping and rejecting are both    *)
(* not entering.                                                           *)
(***************************************************************************)
EXTENDS RiskEngine, TLC

CONSTANTS MarketMinLiquidity  \* config.market.minLiquidityUsd, passed to the strategies

ASSUME SignalsAssumption == MarketMinLiquidity \in Nat

Layers == {"market", "liquidity", "holders", "security"}

Magnitude(x) == IF x < 0 THEN -x ELSE x

\* Tenths of log10: how many steps of a tenth of a decade n has passed.
TenLog(n) ==
    LET mantissa  == <<1000, 1259, 1585, 1995, 2512, 3162, 3981, 5012, 6310, 7943>>
        Power(k)  == mantissa[(k % 10) + 1] * 10^(k \div 10)
    IN  Cardinality({k \in 1 .. 60 : Power(k) <= 1000 * Min({n, 1000000})})

HoldersMissing(holders) == holders.total <= 0 /\ holders.confidence <= 10

(***************************************************************************)
(* Features.  The finest window that saw a trade gives the ratio of buys   *)
(* to sells; no trade in any window is unknown, not bearish.               *)
(***************************************************************************)
NoRatio == -1

RatioFromCounts(buys, sells) ==
    CASE buys = 0 /\ sells = 0 -> NoRatio
      [] sells > 0             -> (100 * buys) \div sells
      [] OTHER                 -> 100 * buys

BuySellRatio(m) ==
    LET ratios == <<RatioFromCounts(m.buys1m, m.sells1m),
                    RatioFromCounts(m.buys5m, m.sells5m),
                    RatioFromCounts(m.buys1h, m.sells1h)>>
        known  == SelectSeq(ratios, LAMBDA ratio : ratio # NoRatio)
    IN  IF known = <<>> THEN NoRatio ELSE known[1]

VolumeBuyPct(m) == IF m.vol1m > 0 THEN (100 * m.buyVol1m) \div m.vol1m ELSE 50

(***************************************************************************)
(* Scores.  A dimension without data drops out and the others are weighed  *)
(* again; NoScore is the null of the code.                                 *)
(***************************************************************************)
NoScore == -1
Score(x) == Clamp(x, 0, 100)

SecurityScore(c) ==
    CASE "security" \notin c.layers            -> 0
      [] SecurityDataMissing(c.security)       -> NoScore
      [] c.security.status = "REJECT"          -> 0
      [] c.security.status = "UNKNOWN" /\ ~SecurityDataMissing(c.security)
                                               -> Score((c.security.score * 3 * c.security.confidence) \div 1000)
      [] c.security.status = "WARNING"         -> Score((c.security.score * 6) \div 10)
      [] OTHER                                 -> Score((c.security.score * c.security.confidence) \div 100)

LiquidityScore(c) ==
    IF "liquidity" \notin c.layers THEN 0
    ELSE LET depth == Min({100, 50 + (45 * Max({0, TenLog(c.liquidity.usd) - 47})) \div 10})
             slip  == Max({0, 100 - c.liquidity.slip[2] \div 3})
             trend == 50 + Clamp((2 * c.liquidity.change5m) \div 10, -50, 50)
             age   == CASE c.liquidity.ageMinutes < 5          -> 20
                        [] c.liquidity.ageMinutes \in 5 .. 29  -> 60
                        [] OTHER                               -> 100
         IN  Score((depth * 4 + slip * 3 + trend * 2 + age) \div 10)

HolderScore(c) ==
    CASE "holders" \notin c.layers   -> 0
      [] "holders" \in c.layers /\ HoldersMissing(c.holders) -> NoScore
      [] OTHER ->
           LET h     == c.holders
               clean == Score(100 - (15 * h.insiderPct + 12 * h.sniperPct) \div 10 - h.bundlerPct)
               count == Min({100, (33 * TenLog(Max({1, h.total}))) \div 10})
               trend == Score(100 - Max({0, (3 * h.concentrationChange) \div 10}))
           IN  Score((25 * Score(100 - h.top10Pct) + 30 * clean + 20 * count
                      + 15 * Score(50 + (5 * h.growth5m) \div 10) + 10 * trend) \div 100)

\* A rise of 5 to 20 percent in five minutes is the best there is.
Rise5m(p) ==
    CASE p < 0         -> Score(50 + p)
      [] p \in 0 .. 4   -> 55
      [] p \in 5 .. 19  -> 70 + (p - 5) * 2
      [] p \in 20 .. 49 -> 100 - (p - 20) \div 2
      [] OTHER         -> 40

Rise15m(p) ==
    CASE p < 0        -> Score(50 + p \div 2)
      [] p \in 0 .. 29 -> 60 + p
      [] OTHER        -> Score(90 - (p - 30) \div 2)

MomentumScore(c) ==
    IF "market" \notin c.layers THEN 0
    ELSE LET m        == c.market
             pressure == IF m.sells1m > 0 THEN (100 * m.buys1m) \div m.sells1m ELSE 200
             burst    == IF m.vol5m > 0 THEN (500 * m.vol1m) \div m.vol5m ELSE 100
         IN  Score((30 * Rise5m(Clamp(m.change5m \div 10, -100, 100))
                    + 25 * Score(Rise15m(Clamp(m.change15m \div 10, -100, 100)))
                    + 25 * Score((40 * pressure) \div 100)
                    + 20 * Score((50 * burst) \div 100)) \div 100)

MarketQualityScore(c) ==
    IF "market" \notin c.layers THEN 0
    ELSE Score((40 * Min({100, 4 * TenLog(Max({1, c.market.traders24h}))})
                + 40 * Min({100, (33 * Max({0, TenLog(Max({1, c.market.vol24h})) - 30})) \div 10})
                + 20 * c.market.confidence) \div 100)

ExecutionScore(c) ==
    IF "liquidity" \notin c.layers THEN 0
    ELSE Score((Max({0, 100 - c.liquidity.slip[2] \div 2})
                + Min({100, c.liquidity.usd \div 5000})) \div 2)

RiskScore(c) ==
    LET Penalty(applies, points) == IF applies THEN points ELSE 0
    IN  Score(80
              - Penalty("security" \in c.layers /\ c.security.status = "WARNING", 20)
              - Penalty("holders" \in c.layers /\ c.holders.concentrationChange > 30, 15)
              - Penalty("liquidity" \in c.layers /\ c.liquidity.change5m < -100, 20)
              - Penalty("market" \in c.layers /\ Magnitude(c.market.change1m) > 150, 10))

Dimensions == {"security", "liquidity", "holder", "momentum", "marketQuality", "execution", "risk"}

Weight == [security |-> 25, liquidity |-> 20, holder |-> 20, momentum |-> 15,
           marketQuality |-> 10, execution |-> 5, risk |-> 5]

Scores(c) ==
    [security |-> SecurityScore(c), liquidity |-> LiquidityScore(c), holder |-> HolderScore(c),
     momentum |-> MomentumScore(c), marketQuality |-> MarketQualityScore(c),
     execution |-> ExecutionScore(c), risk |-> RiskScore(c)]

Opportunity(c) ==
    LET scores == Scores(c)
        active == {d \in Dimensions : scores[d] # NoScore}
    IN  Score(MapThenSumSet(LAMBDA d : scores[d] * Weight[d], active)
              \div MapThenSumSet(LAMBDA d : Weight[d], active))

(***************************************************************************)
(* The ensemble.                                                           *)
(***************************************************************************)
Momentum == "strategy-fresh-momentum"
Scalp    == "strategy-micro-scalp"
Dip      == "strategy-dip-reversion"
Breakout == "strategy-breakout-continuation"
Ensemble == {Momentum, Scalp, Dip, Breakout}

MinimumScore == (Momentum :> 60) @@ (Scalp :> 50) @@ (Dip :> 55) @@ (Breakout :> 55)

\* The deepest fall of the pool's depth in five minutes a strategy still enters on.
MaxDrain == (Momentum :> 150) @@ (Scalp :> 100) @@ (Dip :> 150) @@ (Breakout :> 100)

\* What every strategy asks before it looks for its own pattern.
Tradable(s, c, regime) ==
    /\ regime \notin {"RISK_OFF", "BEAR"}
    /\ Layers \ (IF s = Momentum THEN {} ELSE {"holders"}) \subseteq c.layers
    /\ c.security.status # "REJECT"
    /\ c.liquidity.usd >= MarketMinLiquidity
    /\ c.liquidity.change5m >= -MaxDrain[s]
    /\ Magnitude(c.market.change1m) <= 500

\* Without holders their growth is taken for zero.
HolderGrowth(c) == IF "holders" \in c.layers THEN c.holders.growth5m ELSE 0

TurnoverConfirms(c) == c.liquidity.usd > 0 /\ 20 * c.market.vol5m >= c.liquidity.usd

MomentumSignals(c) ==
    LET ratio == BuySellRatio(c.market)
    IN  {signal \in {"liquidity", "growth", "ratio", "volume", "hour", "holders"} :
           CASE signal = "liquidity" -> c.liquidity.change5m > 0
             [] signal = "growth"    -> c.holders.growth5m > 0
             [] signal = "ratio"     -> ratio >= 150
             [] signal = "volume"    -> VolumeBuyPct(c.market) >= 60
             [] signal = "hour"      -> ratio = NoRatio /\ c.market.change1h >= 10
             [] signal = "holders"   -> ratio = NoRatio /\ c.holders.total >= 1000}

MomentumEnters(c) ==
    LET ratio == BuySellRatio(c.market) IN
    /\ c.holders.top10Pct <= 70 /\ c.holders.insiderPct <= 25
    /\ c.holders.concentrationChange <= 30
    /\ \E change \in {c.market.change5m, c.market.change15m, c.market.change1h} : change > 0
    /\ ratio = NoRatio \/ ratio >= 100
    /\ Cardinality(MomentumSignals(c)) >= 2

FineData(m) == m.vol1m > 0 /\ m.buyers1m > 0

\* A burst within one minute, or what a chain without such data shows of one.
ScalpBurst(m) ==
    /\ m.change1m >= 12
    /\ 10 * m.vol1m >= 18 * Max({1, m.vol5m \div 5})
    /\ m.buyVol1m > m.sellVol1m
    /\ m.buyers1m >= 3

ScalpCoarse(c) ==
    LET ratio == BuySellRatio(c.market)
        move  == IF c.market.change5m # 0 THEN c.market.change5m ELSE c.market.change1h
    IN  /\ move >= 15 /\ c.market.change1h > 0
        /\ \/ ratio >= 130
           \/ ratio = NoRatio /\ (HolderGrowth(c) > 5 \/ TurnoverConfirms(c))

ScalpTurnoverOnly(c) ==
    ~FineData(c.market) /\ BuySellRatio(c.market) = NoRatio /\ HolderGrowth(c) <= 5

ScalpEnters(c) ==
    /\ c.market.change5m >= -100
    /\ IF FineData(c.market) THEN ScalpBurst(c.market) ELSE ScalpCoarse(c)

DipEnters(c) ==
    LET ratio == BuySellRatio(c.market)
    IN  /\ c.market.change24h >= 50
        /\ c.market.change15m \in -200 .. -40
        /\ c.market.change1h >= -150 /\ c.market.change5m >= -100
        /\ \/ ratio >= 70
           \/ ratio = NoRatio /\ (HolderGrowth(c) >= 0 \/ TurnoverConfirms(c))

BreakoutEnters(c) ==
    LET ratio == BuySellRatio(c.market)
    IN  /\ c.market.change15m >= 50 /\ c.market.change1h \in 80 .. 1000
        /\ c.market.change5m >= 0
        /\ \/ ratio >= 120
           \/ ratio = NoRatio /\ (HolderGrowth(c) > 5 \/ TurnoverConfirms(c))

Enters(s, c) ==
    CASE s = Momentum -> MomentumEnters(c)
      [] s = Scalp    -> ScalpEnters(c)
      [] s = Dip      -> DipEnters(c)
      [] s = Breakout -> BreakoutEnters(c)

\* Confidence: a share of the opportunity, capped, less what a warning costs.
WarningCosts(c, points) == IF c.security.status = "WARNING" THEN points ELSE 0

MomentumConfidence(c) == Max({30, Min({85, Opportunity(c)}) - WarningCosts(c, 15)})
DipConfidence(c)      == Max({25, Min({60, 35 + Opportunity(c) \div 3}) - WarningCosts(c, 10)})
BreakoutConfidence(c) == Max({30, Min({80, 45 + (2 * Opportunity(c)) \div 5}) - WarningCosts(c, 10)})
ScalpConfidence(c)    ==
    Max({30, Min({70, 40 + (2 * Opportunity(c)) \div 5}) - WarningCosts(c, 10)
             - (IF ScalpTurnoverOnly(c) THEN 5 ELSE 0)})

StrategyConfidence(s, c) ==
    CASE s = Momentum -> MomentumConfidence(c)
      [] s = Scalp    -> ScalpConfidence(c)
      [] s = Dip      -> DipConfidence(c)
      [] s = Breakout -> BreakoutConfidence(c)

\* The strategies that would enter c now.
EnterDecisions(c, regime) ==
    {s \in Ensemble : /\ Opportunity(c) >= MinimumScore[s]
                      /\ Tradable(s, c, regime)
                      /\ Enters(s, c)}

(***************************************************************************)
(* The regime: a bounded series of prices of the chain's own coin, one a   *)
(* minute, and what the account and the strategies have lost.  Prices are  *)
(* whole, returns hundredths of a percent.                                 *)
(***************************************************************************)
MaxSamples == 60
MinSamples == 6
MinGap     == 60  \* seconds between two samples

\* A price that comes gap seconds after the last one kept, too early or not.
AddSample(prices, price, gap) ==
    LET longer == Append(prices, price)
    IN  IF gap < MinGap THEN prices
        ELSE IF Len(longer) > MaxSamples THEN Tail(longer) ELSE longer

Change(from, to) == IF from > 0 THEN (10000 * (to - from)) \div from ELSE 0

Returns(prices) == [i \in 1 .. Len(prices) - 1 |-> Change(prices[i], prices[i + 1])]

\* The variance of the returns, so that no root is needed: 1.2 % is 14400.
Variance(returns) ==
    IF Len(returns) < 2 THEN 0
    ELSE LET mean == SumOf(returns) \div Len(returns)
         IN  SumOf([i \in DOMAIN returns |-> (returns[i] - mean)^2]) \div (Len(returns) - 1)

\* The win rate of the momentum strategy counts once it has 30 trades.
NoWinRate == -1
RecentWinRate(pnls) == IF Len(pnls) >= ShrinkageSample THEN WinRate(pnls) ELSE NoWinRate

ClassifyRegime(prices, drawdown, dailyLoss, recentWinRate) ==
    LET trend   == IF prices = <<>> THEN 0 ELSE Change(prices[1], prices[Len(prices)])
        vol     == Variance(Returns(prices))
        failing == recentWinRate \in 0 .. 24
    IN  IF drawdown >= MaxDrawdownPct \/ dailyLoss >= MaxDailyLossUsd THEN "RISK_OFF"
        ELSE IF Len(prices) < MinSamples THEN "UNKNOWN"
        ELSE IF vol > 14400 THEN "HIGH_VOLATILITY"
        ELSE IF failing THEN "RISK_OFF"
        ELSE IF trend <= -300 THEN "BEAR"
        ELSE IF trend >= 200 THEN "BULL"
        ELSE IF vol < 225 /\ Magnitude(trend) < 100 THEN "LOW_VOLATILITY"
        ELSE "UNKNOWN"
=============================================================================
