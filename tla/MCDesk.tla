-------------------------------- MODULE MCDesk --------------------------------
(* Instances of Desk for TLC: what the providers may show, and the trades  *)
(* and replies that are tried.                                             *)
EXTENDS Desk
CONSTANTS t1, t2, w1, w2

Security(status, reasons, score, confidence) ==
    [status |-> status, reasons |-> reasons, score |-> score, confidence |-> confidence]
Safe      == Security("SAFE", {}, 100, 90)
Doubtful  == Security("SAFE", {}, 100, 55)
Blemished == Security("SAFE", {"OTHER"}, 25, 90)
Warned    == Security("WARNING", {"OTHER"}, 65, 90)
Condemned == Security("WARNING", {"OTHER"}, 0, 90)
NoData    == Security("UNKNOWN", {"NO_DATA"}, 30, 30)
Failed    == Security("UNKNOWN", {"OTHER"}, 30, 20)
Refused   == Security("REJECT", {"OTHER"}, 0, 90)
TheSecurities == {Safe, Doubtful, Blemished, Warned, Condemned, NoData, Failed, Refused}

DeepPool == [usd |-> 500000, slip |-> <<20, 30, 200>>]
MidPool  == [usd |-> 60000, slip |-> <<60, 80, 600>>]
ThinPool == [usd |-> 16000, slip |-> <<150, 240, 2000>>]
ThePools == {MidPool, ThinPool}

Pool(pool, change, age) == [usd |-> pool.usd, slip |-> pool.slip, change5m |-> change, ageMinutes |-> age]

Quiet == [change1m |-> 0, change5m |-> 0, change15m |-> 0, change1h |-> 0, change24h |-> 0,
          vol1m |-> 0, vol5m |-> 0, buyVol1m |-> 0, sellVol1m |-> 0, buyers1m |-> 0,
          buys1m |-> 0, sells1m |-> 0, buys5m |-> 0, sells5m |-> 0, buys1h |-> 0, sells1h |-> 0,
          traders24h |-> 900, vol24h |-> 900000, confidence |-> 90]
Rising  == [Quiet EXCEPT !.change5m = 80, !.change15m = 90, !.change1h = 200, !.vol5m = 5000,
                         !.buys5m = 30, !.sells5m = 15]
Burst   == [Rising EXCEPT !.change1m = 30, !.vol1m = 4000, !.buyVol1m = 3000, !.sellVol1m = 1000,
                          !.buyers1m = 9, !.buys1m = 12, !.sells1m = 4]
Coarse  == [Rising EXCEPT !.buys5m = 0, !.sells5m = 0]
Pullback == [Quiet EXCEPT !.change24h = 200, !.change15m = -80, !.change1h = -50, !.change5m = 5,
                          !.vol5m = 5000, !.buys1h = 40, !.sells1h = 50]

Base == [total |-> 3000, confidence |-> 90, top10Pct |-> 25, insiderPct |-> 3, sniperPct |-> 2,
         bundlerPct |-> 1, growth5m |-> 10, concentrationChange |-> 0]
Unknown == [total |-> 0, confidence |-> 10, top10Pct |-> 0, insiderPct |-> 0, sniperPct |-> 0,
            bundlerPct |-> 0, growth5m |-> 0, concentrationChange |-> 0]

Seen(market, holders) ==
    [layers |-> Layers, market |-> market, liquidity |-> Pool(DeepPool, 10, 90),
     holders |-> holders, security |-> Safe]
TheCandidates == {Seen(Rising, Base), Seen(Burst, Base), Seen(Coarse, Unknown), Seen(Pullback, Base)}
                 \cup {[Seen(Coarse, Base) EXCEPT !.layers = Layers \ {"holders"}]}

\* For the run of NoDataNoTrade: the data behind a poor warning goes missing.
Poor          == Security("WARNING", {"OTHER"}, 30, 90)
ThePoor       == {[Seen(Rising, Base) EXCEPT !.security = Poor]}
OnlyNoData    == {NoData}

Up    == <<10000, 10050, 10100, 10150, 10200, 10260, 10300>>
Flat  == <<10000, 10001, 10000, 10001, 10000, 10001, 10000>>
Short == <<10000, 10010>>
TheSeries == {Up, Flat, Short}

Wins   == [i \in 1 .. 10 |-> IF i % 3 = 0 THEN -5 ELSE 10]
Losses == [i \in 1 .. 30 |-> IF i % 6 = 0 THEN 10 ELSE -5]
TheRecords == {Wins, Losses}
OnlyUp     == {Up}
OnlyWins   == {Wins}

TheLooks == {[liquidity |-> 500000, slip |-> <<20, 30, 200>>, security |-> Safe, confidence |-> 80, regime |-> "BULL", current |-> TRUE],
             [liquidity |-> 60000, slip |-> <<60, 80, 600>>, security |-> Safe, confidence |-> 80, regime |-> "BULL", current |-> FALSE]}
TheCore == {Momentum}

Raw(type, known, why, stop) ==
    [type |-> type, token |-> known, chain |-> known, rationale |-> why, stop |-> stop]
TheReplies == {<<Raw("BUY", TRUE, TRUE, 0), Raw("ENTER", TRUE, TRUE, 0), Raw("ENTER", TRUE, TRUE, 0)>>,
               <<Raw("TIGHTEN", TRUE, TRUE, 90), Raw("EXIT", TRUE, FALSE, 0)>>}

Swap(id, wallet, lt, buy) == [id |-> id, wallet |-> wallet, lt |-> lt, buy |-> buy]
TheSwaps == {Swap(1, w1, 1, TRUE), Swap(2, w1, 2, TRUE), Swap(3, w1, 3, TRUE),
             Swap(4, w1, 3, TRUE), Swap(5, w2, 2, FALSE)}
=============================================================================
