---------------------------- MODULE ChartIndicators ----------------------------
(***************************************************************************)
(* The indicators the chart computes over a whole series of candles        *)
(* (TVChart.tsx), beside those the server keeps candle by candle           *)
(* (AruAlgo).  A result is a sequence with one value per candle.           *)
(***************************************************************************)
EXTENDS Fractions, Sequences, SequencesExt

\* A running average of a sequence of fractions: the first value starts it, each of the
\* others enters with a weight.
Mix(period, weight, avg, v) == Over(Plus(Scale(period - 1, avg), Scale(weight, v)), period - 1 + weight)

Smoothed(values, period, weight) ==
    LET avg[i \in DOMAIN values] ==
            IF i = 1 THEN values[1] ELSE Mix(period, weight, avg[i - 1], values[i])
    IN  avg

Wilder(values, period) == Smoothed(values, period, 1)

ChartEma(candles, period) == Smoothed([i \in DOMAIN candles |-> Whole(candles[i].close)], period, 2)

\* computeVWAP: a candle without volume counts as one.
Weight(c) == IF c.volume = 0 THEN 1 ELSE c.volume

Vwap(candles) ==
    LET traded(i) == SumFunction([j \in 1..i |-> Weight(candles[j])
                                     * (candles[j].high + candles[j].low + candles[j].close)])
        volume(i) == SumFunction([j \in 1..i |-> Weight(candles[j])])
    IN  [i \in DOMAIN candles |-> Ratio(traded(i), 3 * volume(i))]

ChartTrueRange(candles, i) ==
    LET c == candles[i] IN
    IF i = 1 THEN c.high - c.low
    ELSE Max({c.high - c.low, Abs(c.high - candles[i - 1].close), Abs(c.low - candles[i - 1].close)})

ChartAtr(candles, period) == Wilder([i \in DOMAIN candles |-> Whole(ChartTrueRange(candles, i))], period)

\* computeATRBands: one and a half ranges above and below the close.
Bands(candles, period) ==
    LET atr == ChartAtr(candles, period)
        band(i, way) == Plus(Whole(candles[i].close), Over(Scale(3 * way, atr[i]), 2))
    IN  [upper |-> [i \in DOMAIN candles |-> band(i, 1)],
         lower |-> [i \in DOMAIN candles |-> band(i, -1)]]

Strength(gain, loss) ==
    IF loss.num = 0 THEN Ratio(10000, 101) ELSE Scale(100, Divide(gain, Plus(gain, loss)))

\* The gains (way = 1) or the losses (way = -1), from the average of the first period of them on.
ChartMoves(candles, period, way) ==
    LET moved(i) == Max({way * (candles[i].close - candles[i - 1].close), 0})
        first == Ratio(SumFunction([i \in 2..period + 1 |-> moved(i)]), period)
    IN  Wilder([j \in 1..Len(candles) - period |-> IF j = 1 THEN first ELSE Whole(moved(j + period))], period)

\* Slip: a value is pushed before the averages are updated.
ChartRsiLate(candles, period) ==
    [i \in DOMAIN candles |->
        IF i <= period + 1 THEN Whole(50)
        ELSE Strength(ChartMoves(candles, period, 1)[i - period - 1],
                      ChartMoves(candles, period, -1)[i - period - 1])]

\* computeRSI: 50 up to and including the candle that completes the first average.
ChartRsi(candles, period) ==
    [i \in DOMAIN candles |->
        IF i <= period + 1 THEN Whole(50)
        ELSE Strength(ChartMoves(candles, period, 1)[i - period], ChartMoves(candles, period, -1)[i - period])]

\* The movement up (way = 1) or down (way = -1) of a candle, if it is the larger one.
Direction(candles, i, way) ==
    LET up == candles[i].high - candles[i - 1].high
        down == candles[i - 1].low - candles[i].low
    IN  IF i = 1 THEN 0
        ELSE IF way = 1 THEN (IF up > down /\ up > 0 THEN up ELSE 0)
        ELSE (IF down > up /\ down > 0 THEN down ELSE 0)

\* The directional index of the averages of both movements and of the range.
ChartDx(plusDM, minusDM, range) ==
    IF range.num = 0 \/ Plus(plusDM, minusDM).num = 0 THEN Whole(0)
    ELSE Scale(100, Divide(Magnitude(Minus(plusDM, minusDM)), Plus(plusDM, minusDM)))

\* computeADX: 15 for the first candle; the averages start from no movement at all.
ChartAdx(candles, period) ==
    LET average(way) == Wilder([i \in DOMAIN candles |-> Whole(Direction(candles, i, way))], period)
        plusDM == average(1)
        minusDM == average(-1)
        range == ChartAtr(candles, period)
        adx == Wilder([i \in DOMAIN candles |->
                          IF i = 1 THEN Whole(0) ELSE ChartDx(plusDM[i], minusDM[i], range[i])], period)
    IN  [i \in DOMAIN candles |-> IF i = 1 THEN Whole(15) ELSE adx[i]]
================================================================================
