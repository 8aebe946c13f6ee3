------------------------------ MODULE RiskEngine ------------------------------
(***************************************************************************)
(* RiskEngine.evaluate: the gates every entry passes and the size it gets. *)
(* A request r is a record: the intent's size, the portfolio it is charged *)
(* to, what is known of the token, and the regime.  Amounts are US dollars,*)
(* confidences and multipliers percent, risk fractions parts per million,  *)
(* rounded down; -1 stands for a number the validation refuses.            *)
(*                                                                         *)
(* Also the two numbers evaluate is given: the multiplier of a strategy's  *)
(* record, and the slippage a PAPER order is filled with.                  *)
(***************************************************************************)
EXTENDS Integers, SequencesExt, FiniteSetsExt

CONSTANTS BaseRisk, MinRisk, MaxRisk,  \* risk fractions, parts per million
          MaxPositionUsd, MaxTokenUsd, MaxTotalUsd,
          MaxStrategyPct,
          MaxSlippageBps,
          MinLiquidityUsd,
          MaxConcurrent,
          MaxDailyLossUsd, MaxWeeklyLossUsd,
          MaxDrawdownPct, EmergencyDrawdownPct,
          DustUsd                      \* MIN_POSITION_USD

RiskLimits == {BaseRisk, MinRisk, MaxRisk, MaxPositionUsd, MaxTokenUsd, MaxTotalUsd,
               MaxStrategyPct, MaxSlippageBps, MinLiquidityUsd, MaxConcurrent,
               MaxDailyLossUsd, MaxWeeklyLossUsd, MaxDrawdownPct, EmergencyDrawdownPct}

ASSUME RiskAssumption == RiskLimits \subseteq Nat /\ DustUsd \in Nat
ASSUME RiskOrder == MinRisk <= MaxRisk /\ MaxDrawdownPct > 0 /\ MinLiquidityUsd > 0

Clamp(value, low, high) == Max({low, Min({high, value})})

Regimes == {"BULL", "BEAR", "LOW_VOLATILITY", "HIGH_VOLATILITY", "RISK_OFF", "UNKNOWN"}

(***************************************************************************)
(* What is known of a token's safety.  A provider that never indexed the   *)
(* token answers UNKNOWN with nothing but NO_DATA or PROVIDER_ERROR.       *)
(***************************************************************************)
SecurityDataMissing(security) ==
    /\ security.status = "UNKNOWN"
    /\ security.reasons # {}
    /\ security.reasons \subseteq {"NO_DATA", "PROVIDER_ERROR"}

\* Interpolated between the provider's estimates for 50, 500 and 5000 dollars.
EstimatedSlippage(size, slip) ==
    LET Between(a, b, from, width) == (a * (width - (size - from)) + b * (size - from)) \div width
    IN  CASE size <= 50   -> slip[1]
          [] size \in 51 .. 500    -> Between(slip[1], slip[2], 50, 450)
          [] size \in 501 .. 5000  -> Between(slip[2], slip[3], 500, 4500)
          [] OTHER        -> (slip[3] * size) \div 5000

(***************************************************************************)
(* The validation that comes before any arithmetic.                        *)
(***************************************************************************)
Amounts(r) == {r.size, r.total, r.allocated, r.liquidity, r.dailyLoss, r.weeklyLoss,
               r.drawdown, r.tokenExposure, r.strategyExposure, r.performance, r.positions}
              \cup Range(r.slip)

ValidRequest(r) ==
    /\ Amounts(r) \subseteq Nat
    /\ r.available # -1 /\ r.size > 0 /\ r.total > 0
    /\ {r.confidence, r.security.confidence} \subseteq 0 .. 100
    /\ r.regime \in Regimes
    /\ r.identified
    /\ 0 \notin RiskLimits

\* Mutant of Charged: the order that is asked for is not counted.
ChargedBefore(exposure, r) == exposure

\* Exposure is charged with the size that was asked for, before it is scaled.
Charged(exposure, r) == exposure + r.size

\* The hard gates.
Gates(r) ==
    [KILL_SWITCH_ACTIVE              |-> r.killed,
     STOP_NEW_ENTRIES_ACTIVE         |-> r.stopped,
     SECURITY_REJECTED               |-> r.security.status = "REJECT",
     SECURITY_UNKNOWN_LOW_CONFIDENCE |-> /\ r.security.status = "UNKNOWN"
                                         /\ r.security.confidence < 50
                                         /\ ~SecurityDataMissing(r.security),
     SECURITY_UNVERIFIED_EVM         |-> SecurityDataMissing(r.security) /\ r.evm,
     LIQUIDITY_BELOW_MINIMUM         |-> r.liquidity < MinLiquidityUsd,
     SLIPPAGE_EXCEEDS_MAX            |-> EstimatedSlippage(r.size, r.slip) > MaxSlippageBps,
     DAILY_LOSS_LIMIT                |-> r.dailyLoss >= MaxDailyLossUsd,
     WEEKLY_LOSS_LIMIT               |-> r.weeklyLoss >= MaxWeeklyLossUsd,
     EMERGENCY_DRAWDOWN              |-> r.drawdown >= EmergencyDrawdownPct,
     MAX_POSITIONS                   |-> r.positions >= MaxConcurrent,
     INSUFFICIENT_CAPITAL            |-> r.available < DustUsd,
     TOKEN_EXPOSURE_EXCEEDED         |-> Charged(r.tokenExposure, r) > MaxTokenUsd,
     TOTAL_EXPOSURE_EXCEEDED         |-> Charged(r.allocated, r) > MaxTotalUsd,
     STRATEGY_EXPOSURE_EXCEEDED      |-> Charged(r.strategyExposure, r) * 100 > MaxStrategyPct * r.total,
     INTENT_EXPIRED                  |-> r.expired]

Rejections(r) == {gate \in DOMAIN Gates(r) : Gates(r)[gate]}

(***************************************************************************)
(* Sizing.                                                                 *)
(***************************************************************************)
RegimeMultiplier(regime) ==
    CASE regime \in {"BULL", "LOW_VOLATILITY"} -> 100
      [] regime = "UNKNOWN"                    -> 70
      [] regime = "HIGH_VOLATILITY"            -> 60
      [] regime \in {"RISK_OFF", "BEAR"}       -> 40

\* From 0.6 at the minimum to 1 at eleven times the minimum.
LiquidityMultiplier(liquidity) ==
    Clamp(60 + (4 * (liquidity - MinLiquidityUsd)) \div MinLiquidityUsd, 60, 100)

DrawdownMultiplier(drawdown) == Clamp(100 - (80 * drawdown) \div MaxDrawdownPct, 20, 100)

\* Mutant of Multipliers: a token whose safety is unknown is sized as a safe one.
MultipliersUndamped(r) ==
    <<50 + r.confidence \div 2,
      Clamp(r.performance, 50, 150),
      RegimeMultiplier(r.regime),
      LiquidityMultiplier(r.liquidity),
      DrawdownMultiplier(r.drawdown),
      IF r.security.status = "WARNING" THEN 60 ELSE 100>>

Multipliers(r) ==
    <<50 + r.confidence \div 2,
      Clamp(r.performance, 50, 150),
      RegimeMultiplier(r.regime),
      LiquidityMultiplier(r.liquidity),
      DrawdownMultiplier(r.drawdown),
      IF r.security.status = "WARNING" THEN 60 ELSE 100,
      IF SecurityDataMissing(r.security) THEN 50 ELSE 100>>

RiskFraction(r) ==
    Clamp(FoldLeft(LAMBDA risk, multiplier : (risk * multiplier) \div 100, BaseRisk, Multipliers(r)),
          MinRisk, MaxRisk)

Sized(r) ==
    Min({(r.total * RiskFraction(r)) \div 1000000,
         MaxPositionUsd,
         (r.available * 95) \div 100,
         r.size})

Approved(r)  == ValidRequest(r) /\ Rejections(r) = {}
RiskSize(r)  == IF Approved(r) THEN Sized(r) ELSE 0

(***************************************************************************)
(* StrategyPerformanceTracker.getStats: the record of a strategy, shrunk   *)
(* towards 1 for small samples.  pnls is the sequence of its net results.  *)
(***************************************************************************)
ShrinkageSample == 30

SumOf(numbers) == FoldLeft(+, 0, numbers)

\* The ratio of gross wins to gross losses, percent; without a loss it is 1.
ProfitFactor(pnls) ==
    LET lost == -SumOf(SelectSeq(pnls, LAMBDA p : p <= 0))
    IN  IF lost > 0 THEN (100 * SumOf(SelectSeq(pnls, LAMBDA p : p > 0))) \div lost ELSE 100

RawMultiplier(expectancy, factor) ==
    CASE expectancy <= 0                        -> 50
      [] expectancy > 0 /\ factor >= 200        -> 140
      [] expectancy > 0 /\ factor \in 150 .. 199 -> 120
      [] expectancy > 0 /\ factor \in 120 .. 149 -> 110
      [] expectancy > 0 /\ factor \in 100 .. 119 -> 100
      [] OTHER                                  -> 70

PerformanceMultiplier(pnls) ==
    LET weight == Min({Len(pnls), ShrinkageSample})
        raw    == RawMultiplier(SumOf(pnls), ProfitFactor(pnls))
    IN  Clamp((100 * (ShrinkageSample - weight) + raw * weight) \div ShrinkageSample, 30, 150)

\* Percent of the trades that won; a strategy that never traded counts as even.
WinRate(pnls) ==
    IF pnls = <<>> THEN 50
    ELSE (100 * Len(SelectSeq(pnls, LAMBDA p : p > 0))) \div Len(pnls)

(***************************************************************************)
(* The fill of a PAPER order: the estimate of the host for its size in the *)
(* pool, else half the tolerance.                                          *)
(***************************************************************************)
PaperSlippageBps(size, liquidity) ==
    IF liquidity <= 0 THEN 9500 ELSE 10 + (size * 10000) \div liquidity

AppliedSlippage(expected, tolerance) ==
    IF expected \in 0 .. 9999 THEN expected ELSE tolerance \div 2

PaperBuyPrice(price, slippage) == (price * 10000) \div (10000 - slippage)
=============================================================================
