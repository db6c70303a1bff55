-------------------------------- MODULE AruAlgo --------------------------------
(***************************************************************************)
(* The indicator of aruAlgo.ts as operators: ProcessCandle takes an        *)
(* instance and a candle and gives the instance afterwards and the result. *)
(*                                                                         *)
(* An instance has two parts, because of how aruAlgoService.ts copies it:  *)
(* "shared" is what its fields refer to (the candles and the two caches),  *)
(* "own" is the numbers the fields hold.  A field that is null or NaN is   *)
(* the empty tuple, a field with a value v is <<v>>.  A candle keeps its   *)
(* time as the number of its interval; its volume, the wording of labels   *)
(* and the rounding of their prices are left out.                          *)
(***************************************************************************)
EXTENDS Fractions, Sequences, SequencesExt

CONSTANTS Sensitivity, AtrPeriod, TrendEmaPeriod, RsiPeriod, RsiOverbought, RsiOversold,
          AdxPeriod, AdxThreshold,
          SlMultiplier, TpMultiplier,   \* in tenths: 1.5 is 15
          SmoothPeriod,   \* the 5 of atrstop_5
          MaxLen          \* candles kept

ASSUME AruAlgoAssumption ==
    /\ {Sensitivity, RsiOverbought, RsiOversold, AdxThreshold, SlMultiplier, TpMultiplier} \subseteq Nat
    /\ {AtrPeriod, TrendEmaPeriod, RsiPeriod, AdxPeriod, SmoothPeriod} \subseteq Nat \ {0}
    /\ MaxLen \in Nat /\ MaxLen > 2 /\ MaxLen > RsiPeriod

NewShared == [candles |-> <<>>, trendEma |-> <<>>, stopEma |-> <<>>, avgGain |-> <<>>, avgLoss |-> <<>>]
NewOwn == [atrStopPrev |-> <<>>, lastSL |-> <<>>, lastTP |-> <<>>, lastSmoothedAtrStop |-> <<>>,
           plusDM |-> <<>>, minusDM |-> <<>>, tr |-> <<>>, dx |-> <<>>]

-----------------------------------------------------------------------------
PushCandle(candles, candle) ==
    IF Len(candles) = MaxLen THEN Append(Tail(candles), candle) ELSE Append(candles, candle)

Ema(period, prev, value) ==
    IF prev = <<>> THEN value ELSE Plus(prev[1], Over(Scale(2, Minus(value, prev[1])), period + 1))

\* Slip: the old average keeps its full weight.
RmaHeavy(period, prev, value) ==
    IF prev = <<>> THEN value ELSE Over(Plus(Scale(period, prev[1]), value), period)
Rma(period, prev, value) ==
    IF prev = <<>> THEN value ELSE Over(Plus(Scale(period - 1, prev[1]), value), period)

TrueRange(prev, curr) ==
    Max({curr.high - curr.low, Abs(curr.high - prev.close), Abs(curr.low - prev.close)})

\* _computeATRUsingRMA: the second candle starts the average.
Atr(tr, candles, prev, curr) ==
    Rma(AtrPeriod, IF Len(candles) = 2 THEN <<>> ELSE tr, Whole(TrueRange(prev, curr)))

\* The gain (way = 1) or the loss (way = -1) of a candle.
Moved(way, prev, curr) == Max({way * (curr.close - prev.close), 0})

\* The average of the last RsiPeriod changes, once there are as many.
FirstAverage(way, candles) ==
    LET n == Len(candles)
    IN  IF n < RsiPeriod + 1 THEN <<>>
        ELSE <<Ratio(SumFunction([i \in n - RsiPeriod + 1 .. n |-> Moved(way, candles[i - 1], candles[i])]),
                     RsiPeriod)>>

\* What _updateRSI keeps of a kind of move.
Averaged(avg, way, candles, prev, curr) ==
    IF avg = <<>> THEN FirstAverage(way, candles)
    ELSE <<Rma(RsiPeriod, avg, Whole(Moved(way, prev, curr)))>>

\* 100 - 100/(1 + rs), with rs = 100 when nothing was lost.
Rsi(gain, loss) ==
    IF gain = <<>> THEN <<>>
    ELSE IF loss[1].num = 0 THEN <<Ratio(10000, 101)>>
    ELSE <<Scale(100, Divide(gain[1], Plus(gain[1], loss[1])))>>

\* The directional index of one candle, from the averages of its moves up and down.
Dx(plusDM, minusDM, both) ==
    IF both.num = 0 THEN both ELSE Scale(100, Divide(Magnitude(Minus(plusDM, minusDM)), both))

Directional(own, plusDM, minusDM, tr, adx) ==
    [plusDM |-> <<plusDM>>, minusDM |-> <<minusDM>>, tr |-> <<tr>>,
     dx |-> IF tr.num = 0 THEN own.dx ELSE <<adx>>,
     adx |-> IF tr.num = 0 THEN tr ELSE adx]

\* _updateADX; the average range it smooths a second time is the one of the ATR.
Adx(own, atr, prev, curr) ==
    LET up == curr.high - prev.high
        down == prev.low - curr.low
        plusDM == Rma(AdxPeriod, own.plusDM, Whole(IF up > down /\ up > 0 THEN up ELSE 0))
        minusDM == Rma(AdxPeriod, own.minusDM, Whole(IF down > up /\ down > 0 THEN down ELSE 0))
    IN  Directional(own, plusDM, minusDM, Rma(AdxPeriod, <<atr>>, Whole(TrueRange(prev, curr))),
                    Rma(AdxPeriod, own.dx, Dx(plusDM, minusDM, Plus(plusDM, minusDM))))

\* The trailing stop: it moves with the price's side, and starts anew on a change of side.
Stop(stop, prevSrc, src, nLoss) ==
    IF Less(stop, src) THEN
        IF Less(stop, prevSrc) THEN Largest(stop, Minus(src, nLoss)) ELSE Minus(src, nLoss)
    ELSE IF Less(src, stop) /\ Less(prevSrc, stop) THEN Smallest(stop, Plus(src, nLoss))
    ELSE Plus(src, nLoss)

\* Slip: the previous candle is not looked at.
NowAbove(aNow, bNow, prevClose, lastSmoothed) == Less(bNow, aNow)

\* _wasCrossOver: whichever way is asked, the previous close has to be at or below the stop.
WasCrossOver(aNow, bNow, prevClose, lastSmoothed) ==
    /\ AtMost(prevClose, IF lastSmoothed = <<>> THEN bNow ELSE lastSmoothed[1])
    /\ Less(bNow, aNow)

-----------------------------------------------------------------------------
\* Stop loss and target of a signal: of a buy (way = 1) or a sell (way = -1).
Levels(own, way, src, atr) ==
    [own EXCEPT !.lastSL = <<Minus(src, Over(Scale(way * SlMultiplier, atr), 10))>>,
                !.lastTP = <<Plus(src, Over(Scale(way * TpMultiplier, atr), 10))>>]

NotReady(shared, own) == [shared |-> shared, own |-> own, result |-> [ready |-> FALSE]]

\* The averages and the stop after a candle.
Averages(shared, own, candles, prev, curr, atr) ==
    [atr |-> atr,
     trendEma |-> Ema(TrendEmaPeriod, shared.trendEma, Whole(curr.close)),
     avgGain |-> Averaged(shared.avgGain, 1, candles, prev, curr),
     avgLoss |-> Averaged(shared.avgLoss, -1, candles, prev, curr),
     dm |-> Adx(own, atr, prev, curr),
     atrStop |-> Stop(IF own.atrStopPrev = <<>> THEN Whole(prev.close) ELSE own.atrStopPrev[1],
                      Whole(prev.close), Whole(curr.close), Scale(Sensitivity, atr))]

\* The conditions of a signal, and what the instance keeps, given the averages a.
Signals(shared, own, candles, prev, curr, a, smoothed, rsi) ==
    LET src == Whole(curr.close)
        prevSrc == Whole(prev.close)
        strong == Less(Whole(AdxThreshold), a.dm.adx)
        simpleBuy == WasCrossOver(src, smoothed, prevSrc, own.lastSmoothedAtrStop)
        simpleSell == WasCrossOver(smoothed, src, prevSrc, own.lastSmoothedAtrStop)
        buy == /\ simpleBuy /\ AtMost(a.trendEma, src) /\ strong
               /\ rsi # <<>> /\ Less(rsi[1], Whole(RsiOversold))
        sell == /\ simpleSell /\ AtMost(src, a.trendEma) /\ strong
                /\ rsi # <<>> /\ Less(Whole(RsiOverbought), rsi[1])
        kept == [own EXCEPT !.atrStopPrev = <<a.atrStop>>, !.lastSmoothedAtrStop = <<smoothed>>,
                            !.plusDM = a.dm.plusDM, !.minusDM = a.dm.minusDM, !.tr = a.dm.tr, !.dx = a.dm.dx]
        after == IF simpleBuy THEN Levels(kept, 1, src, a.atr)
                 ELSE IF simpleSell THEN Levels(kept, -1, src, a.atr) ELSE kept
    IN  [shared |-> [candles |-> candles, trendEma |-> <<a.trendEma>>, stopEma |-> <<smoothed>>,
                     avgGain |-> a.avgGain, avgLoss |-> a.avgLoss],
         own |-> after,
         result |-> [ready |-> TRUE, time |-> curr.time, close |-> curr.close, atr |-> a.atr,
                     stop |-> a.atrStop, smoothedAtrStop |-> smoothed, trendEma |-> a.trendEma,
                     rsi |-> rsi, adx |-> a.dm.adx, buyCond |-> buy, sellCond |-> sell,
                     simpleBuyCond |-> simpleBuy, simpleSellCond |-> simpleSell,
                     lastSL |-> after.lastSL, lastTP |-> after.lastTP]]

Smoothing(shared, own, candles, prev, curr, a) ==
    Signals(shared, own, candles, prev, curr, a,
            Ema(SmoothPeriod, shared.stopEma, a.atrStop), Rsi(a.avgGain, a.avgLoss))

Evaluate(shared, own, candles) ==
    LET prev == candles[Len(candles) - 1]
        curr == candles[Len(candles)]
    IN  Smoothing(shared, own, candles, prev, curr,
                  Averages(shared, own, candles, prev, curr, Atr(own.tr, candles, prev, curr)))

ProcessCandle(shared, own, candle) ==
    LET candles == PushCandle(shared.candles, candle)
    IN  IF Len(candles) < 2 THEN NotReady([shared EXCEPT !.candles = candles], own)
        ELSE Evaluate(shared, own, candles)
================================================================================
