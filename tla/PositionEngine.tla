----------------------------- MODULE PositionEngine -----------------------------
(***************************************************************************)
(* Positions in memory and their flush to the positions table              *)
(* (positionEngine.ts), for one symbol.  Trades are handled synchronously; *)
(* the flush awaits every statement, and trades are handled meanwhile.     *)
(*                                                                         *)
(* Arithmetic is exact (fractions), where the code uses doubles.  Margin   *)
(* and liquidation price are functions of size and entry price (leverage   *)
(* is always 1) and left out; so is markToMarket, because nobody publishes *)
(* market.ticks.  External: the pool gives BEGIN, the UPSERTs and COMMIT   *)
(* of a flush the same connection, which pool.query does not promise, and  *)
(* a flush ends before the next one starts, five seconds later.            *)
(***************************************************************************)
EXTENDS Fractions, FiniteSets, Functions

CONSTANTS User, Price, Quantity,
          MaxTrades,   \* bound: trades
          MaxFaults,   \* bound: statements that fail
          MaxCrashes   \* bound: crashes of the process

ASSUME PositionAssumption ==
    /\ IsFiniteSet(User)
    /\ Price \subseteq Nat \ {0} /\ Quantity \subseteq Nat \ {0}
    /\ MaxTrades \in Nat /\ MaxFaults \in Nat /\ MaxCrashes \in Nat

VARIABLES pos,     \* positions; Flat where the map has no entry
          table,   \* the positions table, committed; Closed where it has no row
          flush,   \* where flushToDB is
          todo,    \* dirty positions it has not written
          sent,    \* the row of the UPSERT in flight
          work,    \* rows written in its transaction
          cash,    \* net proceeds of the trades a position has seen
          raced,   \* whether a trade was handled during a flush
          trades, faults, crashes

vars == <<pos, table, flush, todo, sent, work, cash, raced, trades, faults, crashes>>
flushvars == <<flush, todo, sent, work>>

-----------------------------------------------------------------------------
Closed == [size |-> 0, averageEntryPrice |-> Whole(0), realizedPnl |-> Whole(0)]
Flat == [row |-> Closed, isDirty |-> FALSE]

-----------------------------------------------------------------------------
\* Slip: what is traded is closed, whatever the size was.
ReducedWhole(size, quantity) == quantity
Reduced(size, quantity) == IF Abs(size) < quantity THEN Abs(size) ELSE quantity

\* Slip: the notional of a short position is negative.
NotionalSigned(row) == Scale(row.size, row.averageEntryPrice)
Notional(row) == Scale(Abs(row.size), row.averageEntryPrice)

\* The entry price after scaling out: a flip starts anew.
EntryPrice(row, newSize, price) ==
    IF Abs(newSize - row.size) > Abs(row.size) THEN Whole(price)
    ELSE IF newSize = 0 THEN Whole(0) ELSE row.averageEntryPrice

ProcessSide(row, side, price, quantity) ==
    LET tradeQty == IF side = "BUY" THEN quantity ELSE -quantity
        newSize == row.size + tradeQty
        perUnit == IF side = "BUY" THEN Plus(row.averageEntryPrice, Whole(-price))
                   ELSE Plus(Whole(price), Scale(-1, row.averageEntryPrice))
    IN  IF Sign(row.size) = Sign(tradeQty) \/ row.size = 0
        THEN [row EXCEPT !.size = newSize,
                         !.averageEntryPrice = Over(Plus(Notional(row), Whole(quantity * price)), Abs(newSize))]
        ELSE [size |-> newSize,
              averageEntryPrice |-> EntryPrice(row, newSize, price),
              realizedPnl |-> Plus(row.realizedPnl, Scale(Reduced(row.size, quantity), perUnit))]

-----------------------------------------------------------------------------
Init ==
    /\ pos = [u \in User |-> Flat]
    /\ table = [u \in User |-> Closed]
    /\ flush = "idle" /\ todo = {} /\ sent = {} /\ work = {}
    /\ cash = [u \in User |-> Whole(0)]
    /\ raced = FALSE
    /\ trades = 0 /\ faults = 0 /\ crashes = 0

Applied(p, side, price, quantity) == [row |-> ProcessSide(p.row, side, price, quantity), isDirty |-> TRUE]

\* Slip: both sides are computed from the positions before the trade.
HandleTradeAtOnce(b, s, price, quantity) ==
    /\ trades < MaxTrades
    /\ trades' = trades + 1
    /\ pos' = [pos EXCEPT ![b] = Applied(pos[b], "BUY", price, quantity),
                          ![s] = Applied(pos[s], "SELL", price, quantity)]
    /\ cash' = [[cash EXCEPT ![b] = Plus(@, Whole(-price * quantity))]
                     EXCEPT ![s] = Plus(@, Whole(price * quantity))]
    /\ raced' = (raced \/ flush # "idle")
    /\ UNCHANGED <<table, flushvars, faults, crashes>>

\* handleTradeExecution: the buyer, then the seller, who may be the same user.
HandleTrade(b, s, price, quantity) ==
    /\ trades < MaxTrades
    /\ trades' = trades + 1
    /\ pos' = [[pos EXCEPT ![b] = Applied(@, "BUY", price, quantity)]
                    EXCEPT ![s] = Applied(@, "SELL", price, quantity)]
    /\ cash' = [[cash EXCEPT ![b] = Plus(@, Whole(-price * quantity))]
                     EXCEPT ![s] = Plus(@, Whole(price * quantity))]
    /\ raced' = (raced \/ flush # "idle")
    /\ UNCHANGED <<table, flushvars, faults, crashes>>

\* Slip: closed positions are not written.
DirtyOpen == {u \in User : pos[u].isDirty /\ pos[u].row.size # 0}
Dirty == {u \in User : pos[u].isDirty}

\* The timer fires and BEGIN is sent.
StartFlush ==
    /\ flush = "idle" /\ Dirty # {}
    /\ flush' = "begin" /\ todo' = Dirty
    /\ UNCHANGED <<pos, table, sent, work, cash, raced, trades, faults, crashes>>

\* The values of a row are taken when its UPSERT is sent; COMMIT follows the last.
SendNext(rest, p) ==
    /\ todo' = rest
    /\ IF rest = {} THEN flush' = "commit" /\ sent' = {}
       ELSE flush' = "upsert" /\ \E u \in rest : sent' = {[user |-> u, row |-> p[u].row]}

BeginDone ==
    /\ flush = "begin"
    /\ SendNext(todo, pos)
    /\ UNCHANGED <<pos, table, work, cash, raced, trades, faults, crashes>>

\* Slip: ON CONFLICT DO NOTHING.
UpsertDoneNothing ==
    /\ flush = "upsert"
    /\ \E m \in sent :
         /\ work' = work \cup {r \in sent : table[r.user] = Closed}
         /\ pos' = [pos EXCEPT ![m.user].isDirty = FALSE]
         /\ SendNext(todo \ {m.user}, pos)
    /\ UNCHANGED <<table, cash, raced, trades, faults, crashes>>

\* isDirty is cleared when the UPSERT returns, whatever has happened to the position since.
UpsertDone ==
    /\ flush = "upsert"
    /\ \E m \in sent :
         /\ work' = work \cup {m}
         /\ pos' = [pos EXCEPT ![m.user].isDirty = FALSE]
         /\ SendNext(todo \ {m.user}, pos)
    /\ UNCHANGED <<table, cash, raced, trades, faults, crashes>>

Ended(step) == flush' = step /\ todo' = {} /\ sent' = {} /\ work' = {}

CommitDone ==
    /\ flush = "commit"
    /\ table' = [u \in User |-> IF \E m \in work : m.user = u
                                 THEN (CHOOSE m \in work : m.user = u).row ELSE table[u]]
    /\ Ended("idle")
    /\ UNCHANGED <<pos, cash, raced, trades, faults, crashes>>

\* A statement fails; the catch block sends ROLLBACK.
Fault ==
    /\ flush \in {"begin", "upsert", "commit"}
    /\ faults < MaxFaults
    /\ faults' = faults + 1
    /\ Ended("rollback")
    /\ UNCHANGED <<pos, table, cash, raced, trades, crashes>>

RollbackDone ==
    /\ flush = "rollback"
    /\ Ended("idle")
    /\ UNCHANGED <<pos, table, cash, raced, trades, faults, crashes>>

\* What a position loaded from a row has earned so far.
Proceeds(row) == Plus(row.realizedPnl, Scale(-1 * row.size, row.averageEntryPrice))

\* The process dies (a failing ROLLBACK is an unhandled rejection) and init loads the open
\* positions.
Restart ==
    /\ crashes < MaxCrashes
    /\ crashes' = crashes + 1
    /\ pos' = [u \in User |-> IF table[u].size = 0 THEN Flat ELSE [row |-> table[u], isDirty |-> FALSE]]
    /\ cash' = [u \in User |-> Proceeds(pos'[u].row)]
    /\ Ended("idle")
    /\ UNCHANGED <<table, raced, trades, faults>>

Flush == StartFlush \/ BeginDone \/ UpsertDone \/ CommitDone \/ RollbackDone

Next ==
    \/ \E b, s \in User, price \in Price, quantity \in Quantity : HandleTrade(b, s, price, quantity)
    \/ Flush
    \/ Fault
    \/ Restart

\* The timer fires and statements return.
Spec == Init /\ [][Next]_vars /\ WF_vars(Flush)

-----------------------------------------------------------------------------
IsRatio(x) == x.num \in Int /\ x.den \in Nat \ {0}
IsRow(r) == r.size \in Int /\ IsRatio(r.averageEntryPrice) /\ IsRatio(r.realizedPnl)

TypeOK ==
    /\ \A u \in User : IsRow(pos[u].row) /\ pos[u].isDirty \in BOOLEAN /\ IsRow(table[u]) /\ IsRatio(cash[u])
    /\ flush \in {"idle", "begin", "upsert", "commit", "rollback"}
    /\ todo \subseteq User
    /\ \A m \in sent \cup work : m.user \in User /\ IsRow(m.row)
    /\ sent # {} <=> flush = "upsert"
    /\ work # {} => flush \in {"upsert", "commit"}
    /\ raced \in BOOLEAN
    /\ trades \in 0..MaxTrades /\ faults \in 0..MaxFaults /\ crashes \in 0..MaxCrashes

\* Realized PnL and cost basis account for all money that a position has cost or earned,
\* through any scaling in, scaling out, closing and flipping, in well-typed states.
CashFlow ==
    TypeOK /\ \A u \in User : Same(Proceeds(pos[u].row), cash[u])

\* An open position's entry price lies between the prices that were traded; a closed
\* position has none.
EntryPriceInRange ==
    \A u \in User :
        IF pos[u].row.size = 0 THEN pos[u].row.averageEntryPrice = Whole(0)
        ELSE \E lowest, highest \in Price :
                 /\ AtMost(Whole(lowest), pos[u].row.averageEntryPrice)
                 /\ AtMost(pos[u].row.averageEntryPrice, Whole(highest))

\* What one holds another has sold, users who trade with themselves included.
ZeroSum == crashes = 0 => SumFunctionOnSet([u \in User |-> pos[u].row.size], User) = 0

Synced == \A u \in User : ~pos[u].isDirty => table[u] = pos[u].row

\* A position that is not dirty is in the table, if no trade was handled during a flush and
\* nothing failed.
SyncedUnlessRaced == flush = "idle" /\ ~raced /\ faults = 0 /\ crashes = 0 => Synced

\* What ends the wait for a position's row: another trade, a failed statement, a crash.
Disturbances == trades + faults + crashes

\* The UPSERT in flight carries older values of a position, and will clear its flag.
Overtaken(u) == \E m \in sent : m.user = u /\ m.row # pos[u].row

\* positionEngine.ts:57: the row of a dirty position reaches the table, its latest values and
\* not just its flag, from wherever the flush is and whatever has failed before, unless it is
\* disturbed again.  Only a position that changes while its own UPSERT is in flight is left out.
DirtyReachesTable ==
    \A u \in User, n \in 0..(MaxTrades + MaxFaults + MaxCrashes) :
        pos[u].isDirty /\ ~Overtaken(u) /\ Disturbances = n
          ~> table[u] = pos[u].row \/ Disturbances > n

\* positionEngine.ts:15 calls isDirty the flag for DB sync: between flushes a position that
\* is not dirty is in the table.
SyncedWhenClean == flush = "idle" => Synced
=============================================================================
