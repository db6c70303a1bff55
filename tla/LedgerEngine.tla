------------------------------ MODULE LedgerEngine ------------------------------
(***************************************************************************)
(* The double-entry ledger (ledgerEngine.ts), registration (auth.ts) and   *)
(* the two reconciliation jobs (reconciliationWorker.ts), with concurrent  *)
(* callers.  A call runs a fixed list of SQL statements in one transaction *)
(* on one pooled connection; statements of different connections           *)
(* interleave.                                                             *)
(*                                                                         *)
(* PostgreSQL is external: READ COMMITTED, row locks until the end of the  *)
(* transaction (FOR UPDATE and UPDATE), a private version of each written  *)
(* row that COMMIT publishes, CHECK (balance >= 0), and a deadlock         *)
(* detector that aborts one member of a cycle.                             *)
(*                                                                         *)
(* An UPDATE and the INSERT of its ledger entry are one step, with the     *)
(* transaction header; one symbol, BTCUSDT.                                *)
(*                                                                         *)
(* An amount is a number of grains; a NUMERIC(20,8) column holds whole     *)
(* units of its last decimal, and a unit is Grain grains: what is assigned *)
(* to a balance and to an entry's amount is rounded, each on its own.      *)
(***************************************************************************)
EXTENDS Integers, Sequences, FiniteSets, Functions

CONSTANTS User, System,
          Opening, Seed,     \* in units of the last decimal
          Grain,             \* the grains of a unit
          Price, Quantity,   \* a quantity, and a price times a quantity, are in grains
          Conn,        \* the connection pool
          MaxCalls,    \* bound: calls
          MaxFaults    \* bound: statements that fail

VARIABLES balance,   \* accounts.balance, committed
          entries,   \* ledger_entries, committed
          tx,        \* the transaction on each connection
          alarms,    \* what the reconciliation jobs have reported
          calls, faults

vars == <<balance, entries, tx, alarms, calls, faults>>

Owner == User \cup {System}
Currency == {"USD", "BTC"}
Kind == {"CHECKING", "ESCROW"}
Side == {"BUY", "SELL"}
Wallets(o) == {<<o, c, k>> : c \in Currency, k \in Kind}
Account == UNION {Wallets(o) : o \in Owner}
SystemUsd == <<System, "USD", "CHECKING">>

ASSUME LedgerAssumption ==
    /\ System \notin User
    /\ DOMAIN Opening \subseteq Account
    /\ \A o \in Owner : Wallets(o) \subseteq DOMAIN Opening \/ (o # System /\ Wallets(o) \cap DOMAIN Opening = {})
    /\ Opening \in [DOMAIN Opening -> Nat]
    /\ Seed \in Nat \ {0} /\ Grain \in Nat \ {0} /\ Price \subseteq Nat \ {0} /\ Quantity \subseteq Nat \ {0}
    /\ MaxCalls \in Nat /\ MaxFaults \in Nat

-----------------------------------------------------------------------------
\* Statements
SelectForUpdate(a) == [op |-> "lock", row |-> a, amount |-> 0]
Require(a, n) == [op |-> "check", row |-> a, amount |-> n]
Debit(a, n) == [op |-> "debit", row |-> a, amount |-> n]
Credit(a, n) == [op |-> "credit", row |-> a, amount |-> n]
InsertCredit(a, n) == [op |-> "entry", row |-> a, amount |-> n]
InsertWallets(u) == [op |-> "open", row |-> <<u, "USD", "CHECKING">>, amount |-> Seed * Grain]

Currencies(side) == IF side = "BUY" THEN "USD" ELSE "BTC"
Amount(call) == IF call.side = "BUY" THEN call.price * call.quantity ELSE call.quantity
Checking(call) == <<call.user, Currencies(call.side), "CHECKING">>
Escrow(call) == <<call.user, Currencies(call.side), "ESCROW">>

LockEscrow(call) ==
    <<SelectForUpdate(Checking(call)), Require(Checking(call), Amount(call)),
      SelectForUpdate(Escrow(call)),
      Debit(Checking(call), Amount(call)), Credit(Escrow(call), Amount(call))>>

\* Slip: the rows are locked in the order in which the money moves.
ReleaseEscrowReversed(call) ==
    <<SelectForUpdate(Escrow(call)), SelectForUpdate(Checking(call)),
      Require(Escrow(call), Amount(call)),
      Debit(Escrow(call), Amount(call)), Credit(Checking(call), Amount(call))>>

ReleaseEscrow(call) ==
    <<SelectForUpdate(Checking(call)), SelectForUpdate(Escrow(call)),
      Require(Escrow(call), Amount(call)),
      Debit(Escrow(call), Amount(call)), Credit(Checking(call), Amount(call))>>

\* The exchange itself trades out of its checking accounts.
SettleTrade(call) ==
    LET cash == call.price * call.quantity
        buyerCash == <<call.buyer, "USD", IF call.buyer = System THEN "CHECKING" ELSE "ESCROW">>
        sellerCash == <<call.seller, "USD", "CHECKING">>
        sellerAsset == <<call.seller, "BTC", IF call.seller = System THEN "CHECKING" ELSE "ESCROW">>
        buyerAsset == <<call.buyer, "BTC", "CHECKING">>
    IN  <<SelectForUpdate(buyerCash), SelectForUpdate(sellerCash),
          SelectForUpdate(sellerAsset), SelectForUpdate(buyerAsset),
          Require(buyerCash, cash), Require(sellerAsset, call.quantity),
          Debit(buyerCash, cash), Credit(sellerCash, cash),
          Debit(sellerAsset, call.quantity), Credit(buyerAsset, call.quantity)>>

\* The user's USD wallet is inserted with its balance, so its credit is an entry only.
Register(call) ==
    <<InsertWallets(call.user), Debit(SystemUsd, Seed * Grain),
      InsertCredit(<<call.user, "USD", "CHECKING">>, Seed * Grain)>>

Call ==
    [name : {"lockEscrow", "releaseEscrow"}, user : User, side : Side, price : Price, quantity : Quantity]
    \cup [name : {"settleTrade"}, buyer : Owner, seller : Owner, price : Price, quantity : Quantity]
    \cup [name : {"register"}, user : User]

Statements(call) ==
    CASE call.name = "lockEscrow" -> LockEscrow(call)
      [] call.name = "releaseEscrow" -> ReleaseEscrow(call)
      [] call.name = "settleTrade" -> SettleTrade(call)
      [] call.name = "register" -> Register(call)

-----------------------------------------------------------------------------
\* A connection without a transaction.
Idle == [call |-> [name |-> "none"], id |-> 0, todo |-> <<>>, locks |-> {}, seen |-> <<>>,
         work |-> <<>>, wrote |-> {}]
Busy(c) == tx[c] # Idle
Now(c) == Head(tx[c].todo)
Running(c, op) == tx[c].todo # <<>> /\ Now(c).op = op

\* The rows the next statement must lock: rows that are not committed block only a second
\* INSERT of the same.
Rows(c) ==
    IF tx[c].todo = <<>> \/ Now(c).op \in {"check", "entry"} THEN {}
    ELSE IF Now(c).op = "open" THEN Wallets(Now(c).row[1])
    ELSE {Now(c).row} \cap DOMAIN balance
WaitsFor(c, d) == c # d /\ Rows(c) \cap tx[d].locks # {}
Blocked(c) == \E d \in Conn : WaitsFor(c, d)

\* Each of these waits for another one of them, and none is superfluous.
Stuck(D) == D # {} /\ \A c \in D : \E d \in D : WaitsFor(c, d)
Cycle(D) == Stuck(D) /\ \A E \in SUBSET D : Stuck(E) => E = D

\* The rows of old with the versions in new.
Overlay(new, old) ==
    [a \in DOMAIN new \cup DOMAIN old |-> IF a \in DOMAIN new THEN new[a] ELSE old[a]]
Version(a, n) == [b \in {a} |-> n]

\* Grains as a column stores them: the nearest unit, and a half goes away from zero.
Rounded(n) ==
    IF n >= 0 THEN (2 * n + Grain) \div (2 * Grain) ELSE -((Grain - 2 * n) \div (2 * Grain))

\* The version of a row that the transaction sees, and the constraint on a new one.
Visible(c, a) == IF a \in DOMAIN tx[c].work THEN tx[c].work[a] ELSE balance[a]
Overdrawn(n) == n < 0

\* What a row of n units holds after this statement.
NewBalance(c, n) == Rounded(n * Grain + (IF Now(c).op = "debit" THEN -Now(c).amount ELSE Now(c).amount))

\* An entry of amount zero violates chk_amount_positive.
Vanishes(c) == Rounded(Now(c).amount) = 0

\* What was asked for is no column: it is kept to speak of the rounding.
Entry(c, type) == [tx |-> <<tx[c].id, Now(c).row[2]>>, account |-> Now(c).row, type |-> type,
                   amount |-> Rounded(Now(c).amount), asked |-> Now(c).amount]

\* Slip: the catch block swallows the error, and COMMIT follows.
RollbackForgotten(c) ==
    /\ tx' = [tx EXCEPT ![c].todo = <<>>]
    /\ UNCHANGED <<balance, entries>>

\* The catch block: ROLLBACK, release.
Rollback(c) ==
    /\ tx' = [tx EXCEPT ![c] = Idle]
    /\ UNCHANGED <<balance, entries>>

Init ==
    /\ balance = Opening
    /\ entries = {}
    /\ tx = [c \in Conn |-> Idle]
    /\ alarms = {}
    /\ calls = 0 /\ faults = 0

Begin(c, call) ==
    /\ ~Busy(c)
    /\ calls < MaxCalls
    /\ calls' = calls + 1
    /\ tx' = [tx EXCEPT ![c] = [Idle EXCEPT !.call = call, !.id = calls + 1, !.todo = Statements(call)]]
    /\ UNCHANGED <<balance, entries, alarms, faults>>

\* Slip: the call waits for the wallet to be created.
GetAccountLockedPatient(c) ==
    LET a == Now(c).row
    IN  /\ Running(c, "lock") /\ ~Blocked(c)
        /\ a \in DOMAIN balance
        /\ tx' = [tx EXCEPT ![c].locks = @ \cup {a}, ![c].seen = Overlay(Version(a, Visible(c, a)), @),
                            ![c].todo = Tail(@)]
        /\ UNCHANGED <<balance, entries, alarms, calls, faults>>

\* A wallet that does not exist is an error.
GetAccountLocked(c) ==
    LET a == Now(c).row
    IN  /\ Running(c, "lock") /\ ~Blocked(c)
        /\ IF a \in DOMAIN balance
           THEN /\ tx' = [tx EXCEPT ![c].locks = @ \cup {a}, ![c].seen = Overlay(Version(a, Visible(c, a)), @),
                                    ![c].todo = Tail(@)]
                /\ UNCHANGED <<balance, entries>>
           ELSE Rollback(c)
        /\ UNCHANGED <<alarms, calls, faults>>

\* The balance is the one that came with the lock.
VerifyFunds(c) ==
    /\ Running(c, "check")
    /\ IF tx[c].seen[Now(c).row] * Grain >= Now(c).amount
       THEN tx' = [tx EXCEPT ![c].todo = Tail(@)] /\ UNCHANGED <<balance, entries>>
       ELSE Rollback(c)
    /\ UNCHANGED <<alarms, calls, faults>>

\* Slip: pool.query instead of the client, so that every statement is its own transaction.
UpdateBalanceAutocommit(c) ==
    LET a == Now(c).row
        n == NewBalance(c, balance[a])
    IN  /\ Running(c, "debit") \/ Running(c, "credit")
        /\ ~Blocked(c)
        /\ IF Overdrawn(n) \/ Vanishes(c) THEN Rollback(c)
           ELSE /\ balance' = [balance EXCEPT ![a] = n]
                /\ entries' = entries \cup {Entry(c, IF Now(c).op = "debit" THEN "DEBIT" ELSE "CREDIT")}
                /\ tx' = [tx EXCEPT ![c].todo = Tail(@)]
        /\ UNCHANGED <<alarms, calls, faults>>

\* UPDATE accounts SET balance = balance +- $1, and the leg's entry.
UpdateBalance(c) ==
    LET a == Now(c).row
        n == NewBalance(c, Visible(c, a))
    IN  /\ Running(c, "debit") \/ Running(c, "credit")
        /\ ~Blocked(c)
        /\ IF Overdrawn(n) \/ Vanishes(c) THEN Rollback(c)
           ELSE /\ tx' = [tx EXCEPT
                            ![c].locks = @ \cup {a}, ![c].work = Overlay(Version(a, n), @), ![c].todo = Tail(@),
                            ![c].wrote = @ \cup {Entry(c, IF Now(c).op = "debit" THEN "DEBIT" ELSE "CREDIT")}]
                /\ UNCHANGED <<balance, entries>>
        /\ UNCHANGED <<alarms, calls, faults>>

InsertEntry(c) ==
    /\ Running(c, "entry")
    /\ IF Vanishes(c) THEN Rollback(c)
       ELSE /\ tx' = [tx EXCEPT ![c].todo = Tail(@), ![c].wrote = @ \cup {Entry(c, "CREDIT")}]
            /\ UNCHANGED <<balance, entries>>
    /\ UNCHANGED <<alarms, calls, faults>>

OpeningBalance(s, a) == IF a = s.row THEN Rounded(s.amount) ELSE 0

\* A second registration of an email waits for the first and then finds it.
CreateWallets(c) ==
    LET new == Wallets(Now(c).row[1])
    IN  /\ Running(c, "open") /\ ~Blocked(c)
        /\ IF new \cap DOMAIN balance = {}
           THEN /\ tx' = [tx EXCEPT ![c].locks = @ \cup new, ![c].todo = Tail(@),
                                    ![c].work = Overlay([a \in new |-> OpeningBalance(Now(c), a)], @)]
                /\ UNCHANGED <<balance, entries>>
           ELSE Rollback(c)
        /\ UNCHANGED <<alarms, calls, faults>>

Commit(c) ==
    /\ Busy(c) /\ tx[c].todo = <<>>
    /\ balance' = Overlay(tx[c].work, balance)
    /\ entries' = entries \cup tx[c].wrote
    /\ tx' = [tx EXCEPT ![c] = Idle]
    /\ UNCHANGED <<alarms, calls, faults>>

\* A statement fails, or the connection is lost.
Fault(c) ==
    /\ Busy(c)
    /\ faults < MaxFaults
    /\ faults' = faults + 1
    /\ Rollback(c)
    /\ UNCHANGED <<alarms, calls>>

AbortDeadlocked(c) ==
    /\ \E D \in SUBSET Conn : c \in D /\ Cycle(D)
    /\ Rollback(c)
    /\ UNCHANGED <<alarms, calls, faults>>

Step(c) ==
    GetAccountLocked(c) \/ VerifyFunds(c) \/ UpdateBalance(c) \/ InsertEntry(c) \/ CreateWallets(c) \/ Commit(c)

-----------------------------------------------------------------------------
Signed(e) == IF e.type = "CREDIT" THEN e.amount ELSE -e.amount
Net(E) == SumFunctionOnSet([e \in E |-> Signed(e)], E)

Report(job) ==
    /\ alarms' = alarms \cup job
    /\ UNCHANGED <<balance, entries, tx, calls, faults>>

Negative == IF \E a \in DOMAIN balance : balance[a] < 0 THEN {"negative"} ELSE {}

\* Debits must equal credits in every transaction, and no balance may be negative.
RunReconciliationJob ==
    LET mismatch == {e \in entries : Net({f \in entries : f.tx = e.tx}) # 0}
    IN  Report(Negative \cup (IF mismatch # {} THEN {"mismatch"} ELSE {}))

\* HAVING SUM(amount) != 0, grouped by currency.
VerifyInvariants ==
    LET imbalance == {e \in entries :
                        SumFunctionOnSet([f \in entries |-> f.amount], {f \in entries : f.tx[2] = e.tx[2]}) # 0}
    IN  Report(Negative \cup (IF imbalance # {} THEN {"imbalance"} ELSE {}))

Next ==
    \/ \E c \in Conn : (\E call \in Call : Begin(c, call)) \/ Step(c) \/ Fault(c) \/ AbortDeadlocked(c)
    \/ RunReconciliationJob \/ VerifyInvariants

\* Statements return, and PostgreSQL resolves deadlocks.
Spec ==
    /\ Init /\ [][Next]_vars
    /\ \A c \in Conn : WF_vars(Step(c))
    /\ WF_vars(\E c \in Conn : AbortDeadlocked(c))

-----------------------------------------------------------------------------
LedgerEntry == [tx : (1..MaxCalls) \X Currency, account : Account, type : {"DEBIT", "CREDIT"}, amount : Nat, asked : Nat]

\* Balances are never negative, committed or not; a row has one writer, who has locked it.
TypeOK ==
    /\ DOMAIN Opening \subseteq DOMAIN balance /\ DOMAIN balance \subseteq Account
    /\ \A a \in DOMAIN balance : balance[a] \in Nat
    /\ entries \subseteq LedgerEntry
    /\ \A c \in Conn :
         /\ tx[c].wrote \subseteq LedgerEntry
         /\ DOMAIN tx[c].work \subseteq tx[c].locks /\ DOMAIN tx[c].seen \subseteq tx[c].locks
         /\ \A a \in DOMAIN tx[c].work : tx[c].work[a] \in Nat
         /\ \A d \in Conn : c # d => tx[c].locks \cap tx[d].locks = {}
    /\ alarms \subseteq {"mismatch", "negative", "imbalance"}
    /\ calls \in 0..MaxCalls /\ faults \in 0..MaxFaults

\* A debit of exactly half a unit more is stored as the larger amount, but what it leaves
\* of the balance is rounded up: the account keeps a unit.
Kept(e) == IF e.type = "DEBIT" /\ 2 * (e.asked % Grain) = Grain THEN 1 ELSE 0
Explained(E) == SumFunctionOnSet([e \in E |-> Signed(e) + Kept(e)], E)

\* accounts.balance, which is updated in place, and ledger_entries, which only grows, tell
\* the same story about every wallet, whoever failed or was rolled back in between, up to
\* the units that debits ending in a half left behind (ledgerEngine.ts:72).
BalanceMatchesEntries ==
    \A a \in DOMAIN balance :
        balance[a] = (IF a \in DOMAIN Opening THEN Opening[a] ELSE 0)
                     + Explained({e \in entries : e.account = a})

\* What the reconciliation is about: without exception.  Quantities between two units break it.
BooksExact ==
    \A a \in DOMAIN balance :
        balance[a] = (IF a \in DOMAIN Opening THEN Opening[a] ELSE 0)
                     + Net({e \in entries : e.account = a})

\* ledgerEngine.ts:293 and 299: whenever the job runs, between any two statements of
\* concurrent calls, it finds no half-written transaction and no negative balance.
NoMismatch == alarms \cap {"mismatch", "negative"} = {}

\* The three together: well-typed, reconciled and never reported otherwise.
BalancesHold == TypeOK /\ BalanceMatchesEntries /\ NoMismatch

\* The escrow calls lock checking before escrow and settlements lock escrow before
\* checking.  Yet two calls deadlock only when one of them settles a trade of a user with
\* himself.
DeadlockNeedsSelfTrade ==
    \A c, d \in Conn : Cycle({c, d}) =>
        \E e \in {c, d} : tx[e].call.name = "settleTrade" /\ tx[e].call.buyer = tx[e].call.seller

\* Every call is committed or rolled back, deadlocks and missing wallets included.
EveryCallEnds == \A c \in Conn : Busy(c) ~> ~Busy(c)

Atomic == INSTANCE AtomicLedger
\* ledgerEngine.ts:173: seen from outside a call is one funded movement or nothing.
AllOrNothing == Atomic!Spec

\* reconciliationWorker.ts:24: the worker reports an imbalance of a ledger whose debits
\* differ from its credits.
AlarmIsTrue ==
    [][\A x \in alarms' \ alarms : x = "imbalance" => \E c \in Currency : Net({e \in entries : e.tx[2] = c}) # 0]_vars
=============================================================================
