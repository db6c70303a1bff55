----------------------------- MODULE CandleService -----------------------------
(***************************************************************************)
(* Candles and indicators of one symbol (aruAlgoService.ts): ticks are     *)
(* folded into the open candle; a tick of a later interval closes it, runs *)
(* the indicator and publishes the result, which the handler awaits before *)
(* it opens the next candle.  A client that subscribes makes the gateway   *)
(* (index.ts) call getLatestIndicators at any moment, that wait included.  *)
(*                                                                         *)
(* Time is the number of the candle interval a time stamp falls in.  A     *)
(* tick can be stamped earlier than one already handled: live ticks carry  *)
(* the exchange's time and synthetic ticks the server's.                   *)
(***************************************************************************)
EXTENDS AruAlgo, ChartIndicators

CONSTANTS Price, BasePrice,
          Seeds,       \* candles the indicator is seeded with
          Lateness,    \* bound: how many intervals before the latest one a tick is stamped
          MaxSlot,     \* bound: the last interval
          MaxTicks,    \* bound: ticks folded into one candle
          MaxUpsets    \* bound: subscriptions of clients and publications that fail, together

ASSUME CandleAssumption ==
    /\ Price \subseteq Nat \ {0} /\ IsFiniteSet(Price) /\ BasePrice \in Price
    /\ {Seeds, MaxSlot, MaxTicks, MaxUpsets} \subseteq Nat
    /\ Lateness \in Nat
    /\ RsiPeriod \in 2..Seeds   \* 14 candles and 100 seeds: the seeds warm up the RSI

VARIABLES now,         \* the latest interval a tick was stamped with
          current,     \* currentCandle: a sequence of at most one candle
          shared, own, \* state.algo
          tick,        \* the tick whose handler awaits a publication: at most one
          pending,     \* the result being published
          published,   \* the last result published
          reads,       \* dry runs so far
          readSince,   \* whether there was one since the last closed candle
          lost

candlevars == <<now, current, shared, own, tick, pending, published, reads, readSince, lost>>

-----------------------------------------------------------------------------
CandleOf(t) == [time |-> t.slot, open |-> t.price, high |-> t.price, low |-> t.price, close |-> t.price,
               volume |-> 1]

Fold(c, t) == [c EXCEPT !.high = Max({@, t.price}), !.low = Min({@, t.price}), !.close = t.price, !.volume = @ + 1]

\* A step of the walk of seedInitialCandles: the close it ends at, and how far it reached
\* above and below.
Step == [close : Price, high : Price, low : Price]
Still(price) == [close |-> price, high |-> price, low |-> price]

SeedCandle(i, open, step) ==
    [time |-> i - Seeds - 1, open |-> open, high |-> Max({open, step.close, step.high}),
     low |-> Min({open, step.close, step.low}), close |-> step.close, volume |-> 1]

\* seedInitialCandles: a walk that starts at the base price
Seeded(walk) ==
    LET process(a, i) == ProcessCandle(a.shared, a.own, SeedCandle(i, walk[i].close, walk[i + 1]))
    IN  FoldLeft(process, NotReady(NewShared, NewOwn), [i \in 1..Seeds |-> i])

Nothing == [ready |-> FALSE]

CandleInit ==
    /\ now = 0 /\ current = <<>> /\ tick = <<>>
    /\ \E walk \in {w \in [1..Seeds + 1 -> Step] : w[1] = Still(BasePrice)} :
        /\ shared = Seeded(walk).shared
        /\ own = Seeded(walk).own
    /\ pending = Nothing /\ published = Nothing
    /\ reads = 0 /\ readSince = FALSE /\ lost = 0

Open(t) == current' = <<CandleOf(t)>>

\* Slip: a tick of an earlier interval closes the candle too.
ClosesOther(t) == t.slot # current[1].time
Closes(t) == t.slot > current[1].time

Ticks == [slot : now - Lateness .. Min({now + 1, MaxSlot}), price : Price]

Stamped(t) == now' = Max({now, t.slot})

\* The handler of market.ticks, when no candle is open or the tick belongs to it.
FoldTick(t) ==
    /\ tick = <<>>
    /\ \/ current = <<>> /\ Open(t)
       \/ /\ current # <<>> /\ ~Closes(t)
          /\ current[1].volume < MaxTicks
          /\ current' = <<Fold(current[1], t)>>
    /\ Stamped(t)
    /\ UNCHANGED <<shared, own, tick, pending, published, reads, readSince, lost>>

\* The handler, up to the publication of the indicators.
CloseCandle(t) ==
    /\ tick = <<>> /\ current # <<>> /\ Closes(t)
    /\ LET done == ProcessCandle(shared, own, current[1]) IN
        /\ shared' = done.shared /\ own' = done.own
        /\ IF done.result.ready
           THEN tick' = <<t>> /\ pending' = done.result /\ UNCHANGED current
           ELSE Open(t) /\ UNCHANGED <<tick, pending>>
    /\ Stamped(t)
    /\ UNCHANGED <<published, reads, readSince, lost>>

\* Its rest: the publication ends or throws, the next candle is opened.
Published ==
    /\ tick # <<>>
    /\ Open(tick[1])
    /\ tick' = <<>> /\ pending' = Nothing /\ readSince' = FALSE
    /\ \/ published' = pending /\ lost' = lost
       \/ reads + lost < MaxUpsets /\ lost' = lost + 1 /\ published' = published
    /\ UNCHANGED <<now, shared, own, reads>>

\* What the dry run leaves in the live instance: Object.assign copies references.
DryRun(candle) == shared' = ProcessCandle(shared, own, candle).shared

\* getLatestIndicators, which the gateway calls for the first message to a subscriber.
GetLatestIndicators ==
    /\ reads + lost < MaxUpsets
    /\ current # <<>>
    /\ DryRun(current[1])
    /\ reads' = reads + 1 /\ readSince' = TRUE
    /\ UNCHANGED <<now, current, own, tick, pending, published, lost>>

CandleNext ==
    \/ \E t \in Ticks : FoldTick(t) \/ CloseCandle(t)
    \/ Published
    \/ GetLatestIndicators

CandleSpec == CandleInit /\ [][CandleNext]_candlevars

-----------------------------------------------------------------------------
Between(lo, x, hi) == AtMost(lo, x) /\ AtMost(x, hi)

Percent(x) == Between(Whole(0), x, Whole(100))

\* However candles, dry runs and failures follow each other, what is published
\* stays in range: the average true range within the range of prices, the moving
\* average within the prices, RSI (which the seeds warm up) and ADX between 0 and
\* 100, and the stop within Sensitivity average ranges of the close.
ServerInRange ==
    \A r \in {pending, published} : r.ready =>
        /\ Between(Whole(0), r.atr, Whole(Max(Price) - Min(Price)))
        /\ Between(Whole(Min(Price)), r.trendEma, Whole(Max(Price)))
        /\ r.rsi # <<>> /\ \A i \in DOMAIN r.rsi : Percent(r.rsi[i])
        /\ Percent(r.adx)
        /\ AtMost(Magnitude(Minus(Whole(r.close), r.stop)), Scale(Sensitivity, r.atr))

\* Over any series the chart's lines stay in range: VWAP and moving average within
\* the prices, the lower band below the upper one by three average ranges at most
\* three times the span, ADX between 0 and 100.
ChartInRange ==
    pending.ready =>
        LET series == shared.candles
            newest == Len(series)
            bands == Bands(series, AtrPeriod)
            inPrices(x) == Between(Whole(Min(Price)), x, Whole(Max(Price)))
        IN  /\ inPrices(Vwap(series)[newest])
            /\ inPrices(ChartEma(series, TrendEmaPeriod)[newest])
            /\ Between(Whole(0), Minus(bands.upper[newest], bands.lower[newest]),
                       Whole(3 * (Max(Price) - Min(Price))))
            /\ Percent(ChartAdx(series, AdxPeriod)[newest])

\* The formulas of the server and those of the chart, over the same candles.
IndicatorsInRange == ServerInRange /\ ChartInRange

\* The RSI the server publishes is the one the chart computes over the same candles
\* (as long as none was dropped), so that the live values continue the chart's line;
\* candles that dry runs left in the series count for both.
RsiAgreesWithChart ==
    pending.ready /\ Len(shared.candles) \in RsiPeriod + 2 .. MaxLen - 1 =>
        pending.rsi = <<ChartRsi(shared.candles, RsiPeriod)[Len(shared.candles)]>>

\* Without a dry run in between, a candle that crosses above the stop is not
\* followed by another one that does: buy arrows do not repeat.
NoRepeatedBuy ==
    [][ (published' # published /\ published.ready /\ published'.simpleBuyCond /\ ~readSince /\ lost = 0)
            => ~published.simpleBuyCond ]_candlevars

\* Candles are closed and published in the order of their intervals, each once,
\* whatever the order of the time stamps of the ticks; the series of the indicator
\* is in that order too once it is past the seeds, except for what dry runs left in it.
CandlesInOrder ==
    /\ published.ready /\ current # <<>> => published.time < current[1].time
    /\ reads = 0 => \A i \in 2..Len(shared.candles) :
                       shared.candles[i].time >= 0 => shared.candles[i - 1].time < shared.candles[i].time

\* A claim of the code's comment (aruAlgoService.ts:178): a dry run is temporary,
\* the live indicator does not notice it.
DryRunIsTemporary == [][reads' # reads => UNCHANGED <<shared, own>>]_candlevars
================================================================================
